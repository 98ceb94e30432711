----------------------------- MODULE Tasks_proofs ------------------------------
(* The three that decide what a host does next (scheduler, mission runner,   *)
(* fleet coordinator), proved for any tasks, missions, fleets, bids and clocks.*)
EXTENDS Scheduler, Mission, Fleet, InOrder_proofs, FiniteSetTheorems, SequenceTheorems, TLAPS

-----------------------------------------------------------------------------
(* The scheduler *)

\* The scheduler and the tool in front of it, and nothing beside them.
SchedulerSpec == SchedulerInit /\ [][SchedulerNext]_schedulerVars

\* A row is what create wrote, whatever became of its fields.
IsRow(r) == r = [gen |-> r.gen, kind |-> r.kind, enabled |-> r.enabled, next |-> r.next]

\* A copy of a row, wherever it is held: of a generation there has been, whose
\* kind and whose id are known.
RowOf(r, id, kindOf, home) ==
  /\ IsRow(r)
  /\ r.gen \in 1 .. creates
  /\ r.kind \in Kinds
  /\ kindOf[r.gen] = r.kind
  /\ home[r.gen] = id

DueEntry == [id : TaskIds, gen : Gens]

LoopTypes ==
  /\ loop = [at |-> loop.at, due |-> loop.due, read |-> loop.read]
  /\ loop.at \in {"wait", "mark", "store", "dispatch", "running"}
  /\ loop.due \in Seq(DueEntry)
  /\ loop.due = <<>> <=> loop.at = "wait"

SchedulerTypes ==
  /\ clock \in 0 .. MaxTime
  /\ rows = [id \in TaskIds |-> rows[id]]
  /\ LoopTypes
  /\ creates \in 0 .. MaxCreates
  /\ faults \in 0 .. MaxFaults
  /\ runs \in [Gens -> 0 .. 2]
  /\ marks \subseteq Gens /\ rearmed \subseteq Gens /\ lost \subseteq Gens

\* Every copy of a row agrees with its generation; a generation to come has
\* not run.
CopiesAgree(kindOf, home) ==
  /\ \A id \in TaskIds : rows[id] = NoTask \/ RowOf(rows[id], id, kindOf, home)
  /\ toolCall = NoCall \/ /\ toolCall = [id |-> toolCall.id, task |-> toolCall.task]
                          /\ toolCall.id \in TaskIds
                          /\ RowOf(toolCall.task, toolCall.id, kindOf, home)
  /\ loop.at = "store" => RowOf(loop.read, Current.id, kindOf, home)
  /\ \A i \in 1 .. Len(loop.due) :
       loop.due[i].gen \in 1 .. creates /\ home[loop.due[i].gen] = loop.due[i].id
  /\ \A i, j \in 1 .. Len(loop.due) : loop.due[i].id = loop.due[j].id => i = j
  /\ \A g \in Gens : g > creates => runs[g] = 0

\* The due list still holds a dispatch of it.
Pending(g) ==
  \E i \in 1 .. Len(loop.due) :
    loop.due[i].gen = g /\ (i > 1 \/ loop.at \in {"mark", "store", "dispatch"})

\* A one-shot with no failed mark and no stale copy: it ran or it will, not
\* both; while its row is armed it has done neither, or waits to be marked.
OnceFor(g, row) ==
  /\ runs[g] <= 1
  /\ Pending(g) => runs[g] = 0
  /\ row # NoTask /\ row.gen = g /\ row.next # Never =>
       runs[g] = 0 /\ ~(loop.at = "dispatch" /\ Current.gen = g)

OneShotsSpent(kindOf, home) ==
  \A g \in 1 .. creates :
    ~Repeats(kindOf[g]) /\ g \notin rearmed => OnceFor(g, rows[home[g]])

\* Between the two locks of mark_run: a row other than the one read was
\* created since, or written back.
StoreMeetsNew ==
  loop.at = "store" =>
    LET row == rows[Current.id]
    IN row # NoTask /\ row.gen # loop.read.gen /\ row.gen \notin rearmed =>
         runs[row.gen] = 0 /\ Current.gen # row.gen

SchedulerOk(kindOf, home) ==
  /\ SchedulerTypes
  /\ CopiesAgree(kindOf, home)
  /\ OneShotsSpent(kindOf, home)
  /\ StoreMeetsNew
  /\ MarkedHasRun

\* Each generation has one kind and one id.
SchedulerInv ==
  \E kindOf \in [1 .. creates -> Kinds], home \in [1 .. creates -> TaskIds] : SchedulerOk(kindOf, home)

\* What a loop that is not waiting works on.
LEMMA CurrentEntry ==
  ASSUME SchedulerTypes, loop.at # "wait"
  PROVE  /\ Len(loop.due) \in Nat /\ Len(loop.due) >= 1
         /\ Current = loop.due[1]
         /\ Current.id \in TaskIds /\ Current.gen \in Gens
<1>1. loop.due \in Seq(DueEntry) /\ loop.due # <<>>
  BY DEF SchedulerTypes, LoopTypes
<1>2. Len(loop.due) \in Nat /\ Len(loop.due) >= 1 /\ loop.due[1] \in DueEntry /\ Current = loop.due[1]
  BY <1>1 DEF Current
<1> QED
  BY <1>2 DEF DueEntry

\* The fields of a copy of a row.
LEMMA RowFacts ==
  ASSUME SchedulerTypes, NEW r, NEW id, NEW kindOf, NEW home, RowOf(r, id, kindOf, home)
  PROVE  /\ r # NoTask /\ r.gen # 0 /\ r.gen \in Gens /\ r.gen \in 1 .. creates
         /\ IsRow(r) /\ r.kind \in Kinds /\ kindOf[r.gen] = r.kind /\ home[r.gen] = id
<1>1. NoTask.gen = 0
  BY DEF NoTask
<1> QED
  BY <1>1, SchedulerAssumption DEF RowOf, SchedulerTypes, Gens

\* What a write to a row leaves of it.
LEMMA RowExcept ==
  ASSUME NEW r, IsRow(r), NEW e, NEW n
  PROVE  /\ [r EXCEPT !.enabled = e]
              = [gen |-> r.gen, kind |-> r.kind, enabled |-> e, next |-> r.next]
         /\ [r EXCEPT !.next = n]
              = [gen |-> r.gen, kind |-> r.kind, enabled |-> r.enabled, next |-> n]
         /\ [r EXCEPT !.next = n, !.enabled = e]
              = [gen |-> r.gen, kind |-> r.kind, enabled |-> e, next |-> n]
<1>1. ASSUME NEW q, q = [r EXCEPT !.enabled = e]
      PROVE  q = [gen |-> r.gen, kind |-> r.kind, enabled |-> e, next |-> r.next]
  BY <1>1 DEF IsRow
<1>2. ASSUME NEW q, q = [r EXCEPT !.next = n]
      PROVE  q = [gen |-> r.gen, kind |-> r.kind, enabled |-> r.enabled, next |-> n]
  BY <1>2 DEF IsRow
<1>3. ASSUME NEW q, q = [r EXCEPT !.next = n, !.enabled = e]
      PROVE  q = [gen |-> r.gen, kind |-> r.kind, enabled |-> e, next |-> n]
  BY <1>3 DEF IsRow
<1> QED
  BY <1>1, <1>2, <1>3

\* The due list is the due rows, each once.
LEMMA DueListIsDue ==
  ASSUME SchedulerTypes, NEW kindOf, NEW home, CopiesAgree(kindOf, home),
         DueIds # {}, NEW s \in DueLists,
         loop' = [at |-> "mark", due |-> [i \in DOMAIN s |-> [id |-> s[i], gen |-> rows[s[i]].gen]],
                  read |-> NoTask]
  PROVE  /\ Len(loop'.due) \in Nat /\ Len(loop'.due) >= 1
         /\ loop'.due \in Seq(DueEntry)
         /\ \A i \in 1 .. Len(loop'.due) :
              /\ loop'.due[i].id \in TaskIds
              /\ IsDue(rows[loop'.due[i].id])
              /\ loop'.due[i].gen = rows[loop'.due[i].id].gen
         /\ \A i, j \in 1 .. Len(loop'.due) : loop'.due[i].id = loop'.due[j].id => i = j
<1> DEFINE n == Cardinality(DueIds)
<1>1. n \in Nat /\ n >= 1
  <2>1. IsFiniteSet(DueIds)
    BY SchedulerAssumption, FS_Subset DEF DueIds
  <2>2. n \in Nat /\ n # 0
    BY <2>1, FS_CardinalityType, FS_EmptySet
  <2> QED
    BY <2>2
<1> HIDE DEF n
<1>2. s \in [1 .. n -> DueIds] /\ \A i, j \in 1 .. n : s[i] = s[j] => i = j
  BY DEF DueLists, n
<1>3. \A i \in 1 .. n : s[i] \in TaskIds /\ IsDue(rows[s[i]]) /\ rows[s[i]] # NoTask
  BY <1>2 DEF DueIds, IsDue
<1>4. \A i \in 1 .. n : rows[s[i]].gen \in Gens
  BY <1>3, RowFacts DEF CopiesAgree
<1>5. loop'.due = [i \in 1 .. n |-> [id |-> s[i], gen |-> rows[s[i]].gen]]
  BY <1>2
<1>6. \A i \in 1 .. n : [id |-> s[i], gen |-> rows[s[i]].gen] \in DueEntry
  BY <1>3, <1>4 DEF DueEntry
<1>7. loop'.due \in Seq(DueEntry) /\ Len(loop'.due) = n
  BY <1>1, <1>5, <1>6
<1> QED
  BY <1>1, <1>2, <1>3, <1>5, <1>7

\* A step that leaves the table, the loop and the dispatches alone.
LEMMA StillKeepsScheduler ==
  ASSUME NEW kindOf, NEW home, SchedulerOk(kindOf, home),
         Passing \/ UNCHANGED schedulerVars
  PROVE  SchedulerOk(kindOf, home)'
<1>1. UNCHANGED <<rows, loop, toolCall, creates, faults, runs, marks, rearmed, lost>>
  BY DEF Passing, schedulerVars
<1>2. SchedulerTypes'
  BY <1>1, SchedulerAssumption DEF Passing, schedulerVars, SchedulerOk, SchedulerTypes, LoopTypes
<1>3. CopiesAgree(kindOf, home)'
  BY <1>1 DEF SchedulerOk, CopiesAgree, RowOf, Current
<1>4. OneShotsSpent(kindOf, home)'
  BY <1>1 DEF SchedulerOk, OneShotsSpent, OnceFor, Pending, Current
<1>5. StoreMeetsNew' /\ MarkedHasRun'
  BY <1>1 DEF SchedulerOk, StoreMeetsNew, MarkedHasRun, Current
<1> QED
  BY <1>2, <1>3, <1>4, <1>5 DEF SchedulerOk

\* due_tasks: the rows it reads are armed, so nothing has run them.
LEMMA ReadKeepsScheduler ==
  ASSUME NEW kindOf, NEW home, SchedulerOk(kindOf, home), ReadDue
  PROVE  SchedulerOk(kindOf, home)'
<1>1. /\ loop.at = "wait" /\ DueIds # {}
      /\ UNCHANGED <<clock, rows, toolCall, creates, faults, runs, marks, rearmed, lost>>
  BY DEF ReadDue
<1>2. PICK s \in DueLists :
        loop' = [at |-> "mark", due |-> [i \in DOMAIN s |-> [id |-> s[i], gen |-> rows[s[i]].gen]],
                 read |-> NoTask]
  BY DEF ReadDue
<1>3. SchedulerTypes /\ CopiesAgree(kindOf, home)
  BY DEF SchedulerOk
<1>4. /\ Len(loop'.due) \in Nat /\ Len(loop'.due) >= 1
      /\ loop'.due \in Seq(DueEntry)
      /\ \A i \in 1 .. Len(loop'.due) :
              /\ loop'.due[i].id \in TaskIds
              /\ IsDue(rows[loop'.due[i].id])
              /\ loop'.due[i].gen = rows[loop'.due[i].id].gen
      /\ \A i, j \in 1 .. Len(loop'.due) : loop'.due[i].id = loop'.due[j].id => i = j
  BY <1>1, <1>2, <1>3, DueListIsDue
<1>5. loop'.at = "mark" /\ loop'.read = NoTask /\ loop' = [at |-> loop'.at, due |-> loop'.due, read |-> loop'.read]
  BY <1>2
<1>6. SchedulerTypes'
  BY <1>1, <1>3, <1>4, <1>5 DEF SchedulerTypes, LoopTypes
<1>7. \A i \in 1 .. Len(loop'.due) : RowOf(rows[loop'.due[i].id], loop'.due[i].id, kindOf, home)
  BY <1>3, <1>4 DEF CopiesAgree, IsDue
<1>8. CopiesAgree(kindOf, home)'
  BY <1>1, <1>3, <1>4, <1>5, <1>7 DEF CopiesAgree, RowOf
<1>9. OneShotsSpent(kindOf, home)'
  <2> SUFFICES ASSUME NEW g \in 1 .. creates, ~Repeats(kindOf[g]), g \notin rearmed
               PROVE  OnceFor(g, rows[home[g]])'
    BY <1>1 DEF OneShotsSpent
  <2>1. OnceFor(g, rows[home[g]])
    BY DEF SchedulerOk, OneShotsSpent
  <2>2. ASSUME Pending(g)'
        PROVE  runs[g] = 0
    <3>1. PICK i \in 1 .. Len(loop'.due) : loop'.due[i].gen = g
      BY <2>2 DEF Pending
    <3>2. RowOf(rows[loop'.due[i].id], loop'.due[i].id, kindOf, home)
      BY <1>7
    <3>3. home[g] = loop'.due[i].id /\ rows[home[g]].gen = g
      BY <1>4, <3>1, <3>2 DEF RowOf
    <3>4. rows[home[g]] # NoTask /\ rows[home[g]].next # Never
      BY <1>4, <3>3 DEF IsDue
    <3> QED
      BY <2>1, <3>3, <3>4 DEF OnceFor
  <2> QED
    BY <1>1, <1>5, <2>1, <2>2 DEF OnceFor
<1>10. StoreMeetsNew' /\ MarkedHasRun'
  BY <1>1, <1>5 DEF SchedulerOk, StoreMeetsNew, MarkedHasRun
<1> QED
  BY <1>6, <1>8, <1>9, <1>10 DEF SchedulerOk

\* A step of the loop that keeps the list, the table and the tool: what it
\* leaves of the invariant to show.
LEMMA SameListKeeps ==
  ASSUME NEW kindOf, NEW home, SchedulerOk(kindOf, home),
         UNCHANGED <<toolCall, creates>>,
         loop.at # "wait", loop'.at # "wait",
         loop' = [at |-> loop'.at, due |-> loop.due, read |-> loop'.read],
         rows' = rows,
         \A g \in Gens : g > creates => runs'[g] = 0,
         loop'.at = "store" => RowOf(loop'.read, Current.id, kindOf, home)
  PROVE  CopiesAgree(kindOf, home)' /\ Current' = Current
<1>1. loop'.due = loop.due
  OBVIOUS
<1>2. Current' = Current
  BY <1>1 DEF Current
<1> QED
  BY <1>1, <1>2 DEF SchedulerOk, CopiesAgree, RowOf

\* mark_run, first lock: the copy is the row of that id, or there is none.
LEMMA MarkReadKeepsScheduler ==
  ASSUME NEW kindOf, NEW home, SchedulerOk(kindOf, home), MarkRead
  PROVE  SchedulerOk(kindOf, home)'
<1>1. /\ loop.at = "mark"
      /\ loop' = [loop EXCEPT !.at = IF rows[Current.id] = NoTask THEN "dispatch" ELSE "store",
                              !.read = rows[Current.id]]
      /\ UNCHANGED <<clock, rows, toolCall, creates, faults, runs, marks, rearmed, lost>>
  BY DEF MarkRead
<1>2. SchedulerTypes /\ CopiesAgree(kindOf, home)
  BY DEF SchedulerOk
<1>3. /\ loop'.at = IF rows[Current.id] = NoTask THEN "dispatch" ELSE "store"
      /\ loop'.due = loop.due /\ loop'.read = rows[Current.id]
      /\ loop' = [at |-> loop'.at, due |-> loop.due, read |-> loop'.read]
  BY <1>1, <1>2 DEF SchedulerTypes, LoopTypes
<1>4. Current.id \in TaskIds /\ Current = loop.due[1] /\ Len(loop.due) \in Nat /\ Len(loop.due) >= 1
  BY <1>1, <1>2, CurrentEntry
<1>5. SchedulerTypes'
  BY <1>1, <1>2, <1>3 DEF SchedulerTypes, LoopTypes
<1>6. CopiesAgree(kindOf, home)' /\ Current' = Current
  <2>1. loop'.at = "store" => RowOf(loop'.read, Current.id, kindOf, home)
    BY <1>2, <1>3, <1>4 DEF CopiesAgree
  <2> QED
    BY <1>1, <1>2, <1>3, <2>1, SameListKeeps DEF CopiesAgree
<1>7. OneShotsSpent(kindOf, home)'
  <2> SUFFICES ASSUME NEW g \in 1 .. creates, ~Repeats(kindOf[g]), g \notin rearmed
               PROVE  OnceFor(g, rows[home[g]])'
    BY <1>1 DEF OneShotsSpent
  <2>1. OnceFor(g, rows[home[g]])
    BY DEF SchedulerOk, OneShotsSpent
  <2>2. Pending(g)' => Pending(g)
    BY <1>1, <1>3 DEF Pending
  <2>3. loop'.at = "dispatch" /\ Current.gen = g => rows[home[g]] = NoTask
    <3>1. home[Current.gen] = Current.id
      BY <1>2, <1>4 DEF CopiesAgree
    <3> QED
      BY <1>3, <3>1
  <2> QED
    BY <1>1, <1>6, <2>1, <2>2, <2>3 DEF OnceFor
<1>8. StoreMeetsNew'
  BY <1>1, <1>3, <1>6 DEF StoreMeetsNew
<1>9. MarkedHasRun'
  BY <1>1, <1>3, <1>6 DEF SchedulerOk, MarkedHasRun
<1> QED
  BY <1>5, <1>6, <1>7, <1>8, <1>9 DEF SchedulerOk

\* mark_run fails: the task of the list's front is known to be re-armed.
LEMMA MarkFailsKeepsScheduler ==
  ASSUME NEW kindOf, NEW home, SchedulerOk(kindOf, home), MarkFails
  PROVE  SchedulerOk(kindOf, home)'
<1>1. /\ loop.at \in {"mark", "store"} /\ faults < MaxFaults /\ faults' = faults + 1
      /\ rearmed' = rearmed \cup {Current.gen}
      /\ loop' = [loop EXCEPT !.at = "dispatch", !.read = NoTask]
      /\ UNCHANGED <<clock, rows, toolCall, creates, runs, marks, lost>>
  BY DEF MarkFails
<1>2. SchedulerTypes /\ CopiesAgree(kindOf, home)
  BY DEF SchedulerOk
<1>3. /\ loop'.at = "dispatch" /\ loop'.due = loop.due /\ loop'.read = NoTask
      /\ loop' = [at |-> loop'.at, due |-> loop.due, read |-> loop'.read]
  BY <1>1, <1>2 DEF SchedulerTypes, LoopTypes
<1>4. Current.gen \in Gens
  BY <1>1, <1>2, CurrentEntry
<1>5. SchedulerTypes'
  BY <1>1, <1>2, <1>3, <1>4, SchedulerAssumption DEF SchedulerTypes, LoopTypes
<1>6. CopiesAgree(kindOf, home)' /\ Current' = Current
  BY <1>1, <1>2, <1>3, SameListKeeps DEF CopiesAgree
<1>7. OneShotsSpent(kindOf, home)'
  <2> SUFFICES ASSUME NEW g \in 1 .. creates, ~Repeats(kindOf[g]), g \notin rearmed, g # Current.gen
               PROVE  OnceFor(g, rows[home[g]])'
    BY <1>1 DEF OneShotsSpent
  <2>1. OnceFor(g, rows[home[g]])
    BY DEF SchedulerOk, OneShotsSpent
  <2>2. Pending(g)' => Pending(g)
    BY <1>1, <1>3 DEF Pending
  <2> QED
    BY <1>1, <1>6, <2>1, <2>2 DEF OnceFor
<1>8. StoreMeetsNew'
  BY <1>3 DEF StoreMeetsNew
<1>9. MarkedHasRun'
  BY <1>1, <1>3, <1>6 DEF SchedulerOk, MarkedHasRun
<1> QED
  BY <1>5, <1>6, <1>7, <1>8, <1>9 DEF SchedulerOk

\* mark_run, second lock: a one-shot that was read is disarmed; another row
\* that has come in between is armed only if nothing ran it.
LEMMA MarkStoreKeepsScheduler ==
  ASSUME NEW kindOf, NEW home, SchedulerOk(kindOf, home), MarkStore,
         \A g \in 1 .. creates : home[g] \in TaskIds
  PROVE  SchedulerOk(kindOf, home)'
<1> DEFINE id == Current.id
           advanced == Advance(loop.read)
           now == rows[id]
           marked == [now EXCEPT !.next = advanced.next, !.enabled = advanced.enabled]
<1>1. /\ loop.at = "store"
      /\ loop' = [loop EXCEPT !.at = "dispatch", !.read = NoTask]
      /\ UNCHANGED <<clock, toolCall, creates, faults, runs, rearmed>>
  BY DEF MarkStore
<1>2. SchedulerTypes /\ CopiesAgree(kindOf, home)
  BY DEF SchedulerOk
<1>3. /\ loop'.at = "dispatch" /\ loop'.due = loop.due /\ loop'.read = NoTask
      /\ loop' = [at |-> loop'.at, due |-> loop.due, read |-> loop'.read]
  BY <1>1, <1>2 DEF SchedulerTypes, LoopTypes
<1>4. /\ id \in TaskIds /\ Current = loop.due[1] /\ Current.gen \in Gens
      /\ Len(loop.due) \in Nat /\ Len(loop.due) >= 1
  BY <1>1, <1>2, CurrentEntry
<1>5. Current' = Current
  BY <1>3 DEF Current
<1>6. CASE now = NoTask
  <2>1. UNCHANGED <<rows, marks, lost>>
    BY <1>6 DEF MarkStore
  <2>2. SchedulerTypes'
    BY <1>1, <1>2, <1>3, <2>1 DEF SchedulerTypes, LoopTypes
  <2>3. CopiesAgree(kindOf, home)'
    BY <1>1, <1>2, <1>3, <2>1, SameListKeeps DEF CopiesAgree
  <2>4. OneShotsSpent(kindOf, home)'
    <3> SUFFICES ASSUME NEW g \in 1 .. creates, ~Repeats(kindOf[g]), g \notin rearmed
                 PROVE  OnceFor(g, rows[home[g]])'
      BY <1>1 DEF OneShotsSpent
    <3>1. OnceFor(g, rows[home[g]])
      BY DEF SchedulerOk, OneShotsSpent
    <3>2. Pending(g)' => Pending(g)
      BY <1>1, <1>3 DEF Pending
    <3>3. home[Current.gen] = Current.id
      BY <1>2, <1>4 DEF CopiesAgree
    <3> QED
      BY <1>1, <1>5, <1>6, <2>1, <3>1, <3>2, <3>3 DEF OnceFor
  <2>5. StoreMeetsNew' /\ MarkedHasRun'
    BY <1>1, <1>3, <1>5, <2>1 DEF SchedulerOk, StoreMeetsNew, MarkedHasRun
  <2> QED
    BY <2>2, <2>3, <2>4, <2>5 DEF SchedulerOk
<1>7. CASE now # NoTask
  <2>1. /\ rows' = [rows EXCEPT ![id].next = advanced.next, ![id].enabled = advanced.enabled]
        /\ marks' = marks \cup {now.gen}
        /\ lost' = lost \cup ({now.gen} \ {Current.gen})
    BY <1>7 DEF MarkStore
  <2>2. /\ rows' = [i \in TaskIds |-> rows'[i]]
        /\ rows'[id] = marked
        /\ \A i \in TaskIds : i # id => rows'[i] = rows[i]
    BY <1>2, <1>4, <2>1 DEF SchedulerTypes
  <2>3. RowOf(now, id, kindOf, home) /\ RowOf(loop.read, id, kindOf, home)
    BY <1>1, <1>2, <1>4, <1>7 DEF CopiesAgree
  <2>4. /\ IsRow(now) /\ now.gen \in Gens /\ now.gen \in 1 .. creates /\ now.gen # 0
        /\ now.kind \in Kinds /\ kindOf[now.gen] = now.kind /\ home[now.gen] = id
        /\ IsRow(loop.read) /\ kindOf[loop.read.gen] = loop.read.kind
    BY <1>2, <2>3, RowFacts
  <2>5. advanced.next = IF Repeats(loop.read.kind) THEN NextRunAfter(loop.read.kind, clock) ELSE Never
    BY <2>4 DEF Advance, IsRow
  <2> HIDE DEF advanced
  <2>6. /\ marked.gen = now.gen /\ marked.kind = now.kind /\ marked.next = advanced.next
        /\ IsRow(marked)
    <3> HIDE DEF now
    <3>2. marked = [gen |-> now.gen, kind |-> now.kind, enabled |-> advanced.enabled,
                    next |-> advanced.next]
      BY <2>4, RowExcept
    <3> HIDE DEF marked
    <3> QED
      BY <3>2 DEF IsRow
  <2>7. RowOf(marked, id, kindOf, home) /\ marked # NoTask
    <3>1. NoTask.gen = 0
      BY DEF NoTask
    <3> QED
      BY <2>4, <2>6, <3>1 DEF RowOf
  <2> HIDE DEF marked, now, id
  <2>8. SchedulerTypes'
    BY <1>1, <1>2, <1>3, <1>4, <2>1, <2>2, <2>4 DEF SchedulerTypes, LoopTypes
  <2>9. CopiesAgree(kindOf, home)'
    <3>1. \A i \in TaskIds : rows'[i] = NoTask \/ RowOf(rows'[i], i, kindOf, home)
      BY <1>2, <2>2, <2>7 DEF CopiesAgree
    <3> QED
      BY <1>1, <1>2, <1>3, <3>1 DEF CopiesAgree, RowOf
  <2>10. OneShotsSpent(kindOf, home)'
    <3> SUFFICES ASSUME NEW g \in 1 .. creates, ~Repeats(kindOf[g]), g \notin rearmed
                 PROVE  OnceFor(g, rows[home[g]])'
      BY <1>1 DEF OneShotsSpent
    <3>1. OnceFor(g, rows[home[g]])
      BY DEF SchedulerOk, OneShotsSpent
    <3>2. Pending(g)' => Pending(g)
      BY <1>1, <1>3 DEF Pending
    <3>3. home[Current.gen] = id
      BY <1>2, <1>4 DEF CopiesAgree, id
    <3>4. CASE home[g] # id
      <4>1. home[g] \in TaskIds
        OBVIOUS
      <4>2. rows'[home[g]] = rows[home[g]] /\ Current.gen # g
        BY <2>2, <3>3, <3>4, <4>1
      <4> QED
        BY <1>1, <1>5, <3>1, <3>2, <4>2 DEF OnceFor
    <3>5. CASE home[g] = id /\ now.gen = g
      <4>1. CASE loop.read.gen = g
        BY <1>1, <2>2, <2>4, <2>5, <2>6, <3>1, <3>2, <3>5, <4>1 DEF OnceFor
      <4>2. CASE loop.read.gen # g
        <5>1. runs[g] = 0 /\ Current.gen # g
          BY <1>1, <1>7, <3>5, <4>2 DEF SchedulerOk, StoreMeetsNew, now, id
        <5> QED
          BY <1>1, <1>5, <3>1, <3>2, <5>1 DEF OnceFor
      <4> QED
        BY <4>1, <4>2
    <3>6. CASE home[g] = id /\ now.gen # g
      BY <1>1, <2>2, <2>6, <3>1, <3>2, <3>6 DEF OnceFor
    <3> QED
      BY <3>4, <3>5, <3>6
  <2>11. StoreMeetsNew'
    BY <1>3 DEF StoreMeetsNew
  <2>12. MarkedHasRun'
    BY <1>1, <1>3, <1>5, <2>1 DEF SchedulerOk, MarkedHasRun
  <2> QED
    BY <2>8, <2>9, <2>10, <2>11, <2>12 DEF SchedulerOk
<1> QED
  BY <1>6, <1>7

\* A dispatch begins: for a one-shot that was not re-armed, the first and the
\* last one.
LEMMA DispatchKeepsScheduler ==
  ASSUME NEW kindOf, NEW home, SchedulerOk(kindOf, home), Dispatch
  PROVE  SchedulerOk(kindOf, home)'
<1> DEFINE c == Current.gen
<1>1. /\ loop.at = "dispatch"
      /\ runs' = [runs EXCEPT ![c] = IF @ < 2 THEN @ + 1 ELSE @]
      /\ loop' = [loop EXCEPT !.at = "running"]
      /\ UNCHANGED <<clock, rows, toolCall, creates, faults, marks, rearmed, lost>>
  BY DEF Dispatch
<1>2. SchedulerTypes /\ CopiesAgree(kindOf, home)
  BY DEF SchedulerOk
<1>3. /\ loop'.at = "running" /\ loop'.due = loop.due
      /\ loop' = [at |-> loop'.at, due |-> loop.due, read |-> loop'.read]
  BY <1>1, <1>2 DEF SchedulerTypes, LoopTypes
<1>4. /\ c \in Gens /\ Current = loop.due[1] /\ Len(loop.due) \in Nat /\ Len(loop.due) >= 1
      /\ c \in 1 .. creates
  BY <1>1, <1>2, CurrentEntry DEF CopiesAgree
<1> HIDE DEF c
<1>5. /\ runs' \in [Gens -> 0 .. 2]
      /\ runs'[c] > 0 /\ (runs[c] = 0 => runs'[c] = 1)
      /\ \A g \in Gens : g # c => runs'[g] = runs[g]
  BY <1>1, <1>2, <1>4 DEF SchedulerTypes
<1>6. SchedulerTypes'
  BY <1>1, <1>2, <1>3, <1>5 DEF SchedulerTypes, LoopTypes
<1>7. CopiesAgree(kindOf, home)' /\ Current' = Current
  <2>1. \A g \in Gens : g > creates => runs'[g] = 0
    BY <1>2, <1>4, <1>5 DEF CopiesAgree, Gens, SchedulerTypes
  <2> QED
    BY <1>1, <1>3, <2>1, SameListKeeps
<1>8. OneShotsSpent(kindOf, home)'
  <2> SUFFICES ASSUME NEW g \in 1 .. creates, ~Repeats(kindOf[g]), g \notin rearmed
               PROVE  OnceFor(g, rows[home[g]])'
    BY <1>1 DEF OneShotsSpent
  <2>1. OnceFor(g, rows[home[g]])
    BY DEF SchedulerOk, OneShotsSpent
  <2>2. g \in Gens
    BY <1>2, SchedulerAssumption DEF SchedulerTypes, Gens
  <2>3. Pending(g)' => Pending(g)
    BY <1>1, <1>3 DEF Pending
  <2>4. CASE g # c
    BY <1>1, <1>3, <1>5, <2>1, <2>2, <2>3, <2>4 DEF OnceFor
  <2>5. CASE g = c
    <3>1. Pending(g)
      BY <1>1, <1>4, <2>5 DEF Pending, c
    <3>2. ~Pending(g)'
      <4> SUFFICES ASSUME NEW i \in 1 .. Len(loop.due), i > 1
                   PROVE  loop.due[i].gen # g
        BY <1>3 DEF Pending
      <4>1. i # 1 /\ 1 \in 1 .. Len(loop.due)
        BY <1>4
      <4>2. loop.due[i].id # loop.due[1].id
        BY <1>2, <4>1 DEF CopiesAgree
      <4>3. home[loop.due[i].gen] = loop.due[i].id /\ home[loop.due[1].gen] = loop.due[1].id
        BY <1>2, <4>1 DEF CopiesAgree
      <4> QED
        BY <1>4, <2>5, <4>2, <4>3 DEF c
    <3>3. runs'[g] = 1
      BY <1>5, <2>1, <2>5, <3>1 DEF OnceFor
    <3>4. ~(rows[home[g]] # NoTask /\ rows[home[g]].gen = g /\ rows[home[g]].next # Never)
      BY <1>1, <2>1, <2>5 DEF OnceFor, c
    <3> QED
      BY <1>1, <3>2, <3>3, <3>4 DEF OnceFor
  <2> QED
    BY <2>4, <2>5
<1>9. StoreMeetsNew'
  BY <1>3 DEF StoreMeetsNew
<1>10. MarkedHasRun'
  <2> SUFFICES ASSUME NEW g \in marks
               PROVE  runs'[g] > 0 \/ g \in lost
    BY <1>1 DEF MarkedHasRun
  <2>1. g \in Gens
    BY <1>2 DEF SchedulerTypes
  <2>2. runs[g] > 0 \/ c = g \/ g \in lost
    BY DEF SchedulerOk, MarkedHasRun, c
  <2> QED
    BY <1>5, <2>1, <2>2
<1> QED
  BY <1>6, <1>7, <1>8, <1>9, <1>10 DEF SchedulerOk

\* What is behind the front of a list of two or more.
LEMMA LongTail ==
  ASSUME NEW S, NEW q \in Seq(S), Len(q) > 1
  PROVE  /\ Tail(q) \in Seq(S) /\ Tail(q) # <<>>
         /\ Len(Tail(q)) = Len(q) - 1
         /\ \A i \in 1 .. Len(Tail(q)) : Tail(q)[i] = q[i + 1]
<1>1. q # <<>>
  OBVIOUS
<1> QED
  BY <1>1, HeadTailProperties

\* A dispatch ends, or the process does: the list is shorter.
LEMMA ShorterListKeepsScheduler ==
  ASSUME NEW kindOf, NEW home, SchedulerOk(kindOf, home), DispatchEnds \/ Restart
  PROVE  SchedulerOk(kindOf, home)'
<1>1. SchedulerTypes /\ CopiesAgree(kindOf, home)
  BY DEF SchedulerOk
<1>2. UNCHANGED <<clock, rows, creates, runs, marks, rearmed>>
  BY DEF DispatchEnds, Restart
<1>3. /\ toolCall' = toolCall \/ toolCall' = NoCall
      /\ faults' = faults \/ (faults < MaxFaults /\ faults' = faults + 1)
      /\ lost' = lost \cup (IF loop.at = "dispatch" THEN {Current.gen} ELSE {})
  BY DEF DispatchEnds, Restart
<1>4. /\ loop' = [at |-> loop'.at, due |-> loop'.due, read |-> NoTask]
      /\ loop'.due \in Seq(DueEntry)
      /\ \/ loop'.at = "wait" /\ loop'.due = <<>> /\ Len(loop'.due) = 0
         \/ /\ loop'.at = "mark" /\ loop'.due # <<>> /\ loop.at = "running"
            /\ Len(loop'.due) \in Nat /\ Len(loop'.due) + 1 = Len(loop.due)
            /\ \A i \in 1 .. Len(loop'.due) : loop'.due[i] = loop.due[i + 1]
  <2>1. CASE loop' = IdleLoop
    <3>1. loop'.due = <<>> /\ loop'.at = "wait" /\ loop' = [at |-> "wait", due |-> <<>>, read |-> NoTask]
      BY <2>1 DEF IdleLoop
    <3> QED
      BY <3>1
  <2>2. CASE loop.at = "running" /\ Len(loop.due) > 1
             /\ loop' = [at |-> "mark", due |-> Tail(loop.due), read |-> NoTask]
    <3>1. loop'.due = Tail(loop.due) /\ loop'.at = "mark" /\ loop.due \in Seq(DueEntry)
      BY <1>1, <2>2 DEF SchedulerTypes, LoopTypes
    <3>2. Tail(loop.due) \in Seq(DueEntry) /\ Tail(loop.due) # <<>>
          /\ Len(Tail(loop.due)) = Len(loop.due) - 1
          /\ \A i \in 1 .. Len(Tail(loop.due)) : Tail(loop.due)[i] = loop.due[i + 1]
      BY <2>2, <3>1, LongTail
    <3> QED
      BY <2>2, <3>1, <3>2
  <2> QED
    BY <2>1, <2>2 DEF DispatchEnds, Restart
<1>5. SchedulerTypes'
  <2>1. faults' \in 0 .. MaxFaults
    BY <1>1, <1>3, SchedulerAssumption DEF SchedulerTypes
  <2>2. loop.at = "dispatch" => Current.gen \in Gens
    BY <1>1, CurrentEntry
  <2>3. LoopTypes'
    BY <1>4 DEF LoopTypes
  <2> QED
    BY <1>1, <1>2, <1>3, <2>1, <2>2, <2>3 DEF SchedulerTypes
<1>6. CopiesAgree(kindOf, home)'
  <2>1. \A i \in 1 .. Len(loop'.due) : i + 1 \in 1 .. Len(loop.due) /\ loop'.due[i] = loop.due[i + 1]
    BY <1>4
  <2>2. /\ \A i \in 1 .. Len(loop'.due) :
              loop'.due[i].gen \in 1 .. creates /\ home[loop'.due[i].gen] = loop'.due[i].id
        /\ \A i, j \in 1 .. Len(loop'.due) : loop'.due[i].id = loop'.due[j].id => i = j
    <3>1. \A i \in 1 .. Len(loop'.due) :
              loop'.due[i].gen \in 1 .. creates /\ home[loop'.due[i].gen] = loop'.due[i].id
      BY <1>1, <2>1 DEF CopiesAgree
    <3>2. ASSUME NEW i \in 1 .. Len(loop'.due), NEW j \in 1 .. Len(loop'.due),
                 loop'.due[i].id = loop'.due[j].id
          PROVE  i = j
      <4>1. i + 1 = j + 1
        BY <1>1, <2>1, <3>2 DEF CopiesAgree
      <4> QED
        BY <4>1
    <3> QED
      BY <3>1, <3>2
  <2>3. loop'.at # "store"
    BY <1>4
  <2> QED
    BY <1>1, <1>2, <1>3, <2>2, <2>3 DEF CopiesAgree, RowOf
<1>7. OneShotsSpent(kindOf, home)'
  <2> SUFFICES ASSUME NEW g \in 1 .. creates, ~Repeats(kindOf[g]), g \notin rearmed
               PROVE  OnceFor(g, rows[home[g]])'
    BY <1>2 DEF OneShotsSpent
  <2>1. OnceFor(g, rows[home[g]])
    BY DEF SchedulerOk, OneShotsSpent
  <2>2. Pending(g)' => Pending(g)
    <3> SUFFICES ASSUME NEW i \in 1 .. Len(loop'.due), loop'.due[i].gen = g
                 PROVE  Pending(g)
      BY DEF Pending
    <3>1. i + 1 \in 1 .. Len(loop.due) /\ loop.due[i + 1].gen = g /\ i + 1 > 1
      BY <1>4
    <3> QED
      BY <3>1 DEF Pending
  <2>3. loop'.at # "dispatch"
    BY <1>4
  <2> QED
    BY <1>2, <2>1, <2>2, <2>3 DEF OnceFor
<1>8. StoreMeetsNew'
  BY <1>4 DEF StoreMeetsNew
<1>9. MarkedHasRun'
  BY <1>2, <1>3 DEF SchedulerOk, MarkedHasRun
<1> QED
  BY <1>5, <1>6, <1>7, <1>8, <1>9 DEF SchedulerOk

\* The schedule tool: a row is paused or goes, and a resume reads one.
LEMMA TouchedKeepsScheduler ==
  ASSUME NEW kindOf, NEW home, SchedulerOk(kindOf, home), NEW id \in TaskIds,
         Pause(id) \/ Remove(id) \/ Lookup(id), \A g \in 1 .. creates : home[g] \in TaskIds
  PROVE  SchedulerOk(kindOf, home)'
<1>1. SchedulerTypes /\ CopiesAgree(kindOf, home)
  BY DEF SchedulerOk
<1>2. rows[id] # NoTask /\ UNCHANGED <<clock, loop, creates, faults, runs, marks, rearmed, lost>>
  BY DEF Pause, Remove, Lookup
<1>3. RowOf(rows[id], id, kindOf, home)
  BY <1>1, <1>2 DEF CopiesAgree
<1>4. rows[id] = [gen |-> rows[id].gen, kind |-> rows[id].kind, enabled |-> rows[id].enabled,
                  next |-> rows[id].next]
  BY <1>3 DEF RowOf, IsRow
<1>5. /\ rows' = [i \in TaskIds |-> rows'[i]]
      /\ \A i \in TaskIds : i # id => rows'[i] = rows[i]
      /\ \/ rows'[id] = NoTask
         \/ /\ RowOf(rows'[id], id, kindOf, home)
            /\ rows'[id].gen = rows[id].gen /\ rows'[id].next = rows[id].next
  <2>1. CASE Lookup(id)
    BY <1>1, <1>3, <2>1 DEF Lookup, SchedulerTypes
  <2>2. CASE Remove(id)
    BY <1>1, <2>2 DEF Remove, SchedulerTypes
  <2>3. CASE Pause(id)
    <3>1. rows' = [rows EXCEPT ![id].enabled = FALSE]
      BY <2>3 DEF Pause
    <3>2. /\ rows' = [i \in TaskIds |-> rows'[i]]
          /\ \A i \in TaskIds : i # id => rows'[i] = rows[i]
          /\ rows'[id] = [rows[id] EXCEPT !.enabled = FALSE]
      BY <1>1, <3>1 DEF SchedulerTypes
    <3>3. rows'[id] = [gen |-> rows[id].gen, kind |-> rows[id].kind, enabled |-> FALSE,
                       next |-> rows[id].next]
      BY <1>4, <3>2
    <3>4. RowOf(rows'[id], id, kindOf, home)
      BY <1>3, <3>3 DEF RowOf, IsRow
    <3> QED
      BY <3>2, <3>3, <3>4
  <2> QED
    BY <2>1, <2>2, <2>3
<1>6. \/ toolCall' = toolCall
      \/ /\ toolCall' = [id |-> id, task |-> toolCall'.task]
         /\ RowOf(toolCall'.task, id, kindOf, home)
  <2>1. CASE Lookup(id)
    <3>1. toolCall' = [id |-> id, task |-> [rows[id] EXCEPT !.enabled = TRUE]]
      BY <2>1 DEF Lookup
    <3>2. [rows[id] EXCEPT !.enabled = TRUE]
            = [gen |-> rows[id].gen, kind |-> rows[id].kind, enabled |-> TRUE, next |-> rows[id].next]
      BY <1>3, RowExcept DEF RowOf
    <3>3. RowOf([rows[id] EXCEPT !.enabled = TRUE], id, kindOf, home)
      BY <1>3, <3>2 DEF RowOf, IsRow
    <3> QED
      BY <3>1, <3>3
  <2> QED
    BY <2>1 DEF Pause, Remove
<1>7. SchedulerTypes'
  BY <1>1, <1>2, <1>5 DEF SchedulerTypes, LoopTypes
<1>8. CopiesAgree(kindOf, home)'
  <2>1. \A i \in TaskIds : rows'[i] = NoTask \/ RowOf(rows'[i], i, kindOf, home)
    BY <1>1, <1>5 DEF CopiesAgree
  <2> QED
    BY <1>1, <1>2, <1>6, <2>1 DEF CopiesAgree, RowOf, Current
<1>9. OneShotsSpent(kindOf, home)' /\ StoreMeetsNew'
  <2>1. Current' = Current /\ \A g : Pending(g)' = Pending(g)
    BY <1>2 DEF Current, Pending
  <2>2. OneShotsSpent(kindOf, home)'
    <3> SUFFICES ASSUME NEW g \in 1 .. creates, ~Repeats(kindOf[g]), g \notin rearmed
                 PROVE  OnceFor(g, rows[home[g]])'
      BY <1>2 DEF OneShotsSpent
    <3>1. OnceFor(g, rows[home[g]])
      BY DEF SchedulerOk, OneShotsSpent
    <3>2. rows'[home[g]] # NoTask /\ rows'[home[g]].gen = g /\ rows'[home[g]].next # Never
            => rows[home[g]] # NoTask /\ rows[home[g]].gen = g /\ rows[home[g]].next # Never
      BY <1>2, <1>5
    <3> QED
      BY <1>2, <2>1, <3>1, <3>2 DEF OnceFor
  <2>3. StoreMeetsNew'
    <3>1. loop.at = "store" => Current.id \in TaskIds
      BY <1>1, CurrentEntry
    <3> QED
      BY <1>2, <1>5, <2>1, <3>1 DEF SchedulerOk, StoreMeetsNew
  <2> QED
    BY <2>2, <2>3
<1>10. MarkedHasRun'
  BY <1>2 DEF SchedulerOk, MarkedHasRun, Current
<1> QED
  BY <1>7, <1>8, <1>9, <1>10 DEF SchedulerOk

\* A resume writes its copy back: what was re-armed by it is known to be.
LEMMA ResumeKeepsScheduler ==
  ASSUME NEW kindOf, NEW home, SchedulerOk(kindOf, home), Resume,
         \A g \in 1 .. creates : home[g] \in TaskIds
  PROVE  SchedulerOk(kindOf, home)'
<1> DEFINE task == toolCall.task
           id == toolCall.id
           same == rows[id].gen = task.gen /\ rows[id].next = task.next
<1>1. SchedulerTypes /\ CopiesAgree(kindOf, home)
  BY DEF SchedulerOk
<1>2. /\ toolCall # NoCall /\ toolCall' = NoCall
      /\ rows' = [rows EXCEPT ![id] = [task EXCEPT !.next = IF Repeats(task.kind)
                                            THEN NextRunAfter(task.kind, clock) ELSE @]]
      /\ rearmed' = rearmed \cup (IF same THEN {} ELSE {task.gen})
      /\ UNCHANGED <<clock, loop, creates, faults, runs, marks, lost>>
  BY DEF Resume
<1>3. id \in TaskIds /\ RowOf(task, id, kindOf, home)
  BY <1>1, <1>2 DEF CopiesAgree
<1>4. /\ IsRow(task) /\ task.gen \in Gens /\ task.gen \in 1 .. creates /\ task.gen # 0
      /\ task.kind \in Kinds /\ kindOf[task.gen] = task.kind /\ home[task.gen] = id
  BY <1>1, <1>3, RowFacts
<1> HIDE DEF task, id
<1>5. PICK n : /\ rows' = [rows EXCEPT ![id] = [task EXCEPT !.next = n]]
               /\ ~Repeats(task.kind) => n = task.next
  BY <1>2, <1>4 DEF IsRow
<1>6. [task EXCEPT !.next = n] = [gen |-> task.gen, kind |-> task.kind, enabled |-> task.enabled, next |-> n]
  BY <1>4, RowExcept
<1>7. /\ rows' = [i \in TaskIds |-> rows'[i]]
      /\ \A i \in TaskIds : i # id => rows'[i] = rows[i]
      /\ rows'[id] = [gen |-> task.gen, kind |-> task.kind, enabled |-> task.enabled, next |-> n]
  BY <1>1, <1>3, <1>5, <1>6 DEF SchedulerTypes
<1>8. RowOf(rows'[id], id, kindOf, home) /\ rows'[id].gen = task.gen /\ rows'[id].next = n
  BY <1>4, <1>7 DEF RowOf, IsRow
<1>9. SchedulerTypes'
  BY <1>1, <1>2, <1>4, <1>7 DEF SchedulerTypes, LoopTypes
<1>10. CopiesAgree(kindOf, home)'
  <2>1. \A i \in TaskIds : rows'[i] = NoTask \/ RowOf(rows'[i], i, kindOf, home)
    BY <1>1, <1>7, <1>8 DEF CopiesAgree
  <2> QED
    BY <1>1, <1>2, <2>1 DEF CopiesAgree, RowOf, Current
<1>11. same => rows[id] # NoTask
  BY <1>4 DEF NoTask
<1>12. OneShotsSpent(kindOf, home)'
  <2> SUFFICES ASSUME NEW g \in 1 .. creates, ~Repeats(kindOf[g]), g \notin rearmed, g \notin rearmed'
               PROVE  OnceFor(g, rows[home[g]])'
    BY <1>2 DEF OneShotsSpent
  <2>1. OnceFor(g, rows[home[g]])
    BY DEF SchedulerOk, OneShotsSpent
  <2>2. rows'[home[g]] # NoTask /\ rows'[home[g]].gen = g /\ rows'[home[g]].next # Never
          => rows[home[g]] # NoTask /\ rows[home[g]].gen = g /\ rows[home[g]].next # Never
    <3>1. CASE home[g] # id
      BY <1>7, <3>1
    <3>2. CASE home[g] = id /\ task.gen = g
      BY <1>2, <1>4, <1>5, <1>8, <1>11, <3>2
    <3>3. CASE home[g] = id /\ task.gen # g
      BY <1>8, <3>3
    <3> QED
      BY <3>1, <3>2, <3>3
  <2>3. Current' = Current /\ Pending(g)' = Pending(g)
    BY <1>2 DEF Current, Pending
  <2> QED
    BY <1>2, <2>1, <2>2, <2>3 DEF OnceFor
<1>13. StoreMeetsNew'
  <2>1. Current' = Current /\ (loop.at = "store" => Current.id \in TaskIds)
    BY <1>1, <1>2, CurrentEntry DEF Current
  <2>2. StoreMeetsNew
    BY DEF SchedulerOk
  <2> SUFFICES ASSUME loop.at = "store", rows'[Current.id] # NoTask,
                      rows'[Current.id].gen # loop.read.gen, rows'[Current.id].gen \notin rearmed'
               PROVE  runs[rows'[Current.id].gen] = 0 /\ Current.gen # rows'[Current.id].gen
    BY <1>2, <2>1 DEF StoreMeetsNew
  <2>3. CASE Current.id # id
    BY <1>2, <1>7, <2>1, <2>2, <2>3 DEF StoreMeetsNew
  <2>4. CASE Current.id = id
    <3>1. same
      BY <1>2, <1>8, <2>4
    <3> QED
      BY <1>2, <1>8, <1>11, <2>2, <2>4, <3>1 DEF StoreMeetsNew
  <2> QED
    BY <2>3, <2>4
<1>14. MarkedHasRun'
  BY <1>2 DEF SchedulerOk, MarkedHasRun, Current
<1> QED
  BY <1>9, <1>10, <1>12, <1>13, <1>14 DEF SchedulerOk

\* The kinds and ids with those of one more generation.
OneMore(kindOf, home, id, kind, kindOf2, home2) ==
  /\ kindOf2[creates + 1] = kind /\ home2[creates + 1] = id
  /\ \A g \in 1 .. creates : kindOf2[g] = kindOf[g] /\ home2[g] = home[g] /\ home[g] \in TaskIds

\* A row is created: its generation is new, and no copy of another is of it.
LEMMA CreateKeepsScheduler ==
  ASSUME NEW kindOf, NEW home, SchedulerOk(kindOf, home),
         NEW id \in TaskIds, NEW kind \in Kinds, Create(id, kind),
         NEW kindOf2, NEW home2, OneMore(kindOf, home, id, kind, kindOf2, home2)
  PROVE  SchedulerOk(kindOf2, home2)'
<1>0. PICK new : new = creates + 1
  OBVIOUS
<1> USE <1>0
<1>x. /\ kindOf2[new] = kind /\ home2[new] = id
      /\ \A g \in 1 .. creates : kindOf2[g] = kindOf[g] /\ home2[g] = home[g] /\ home[g] \in TaskIds
  BY DEF OneMore
<1> USE <1>x
<1> DEFINE Copy(r, i) == /\ IsRow(r)
                         /\ r.gen \in 1 .. new
                         /\ r.kind \in Kinds
                         /\ kindOf2[r.gen] = r.kind
                         /\ home2[r.gen] = i
<1> DEFINE row == [gen |-> new, kind |-> kind, enabled |-> TRUE, next |-> NextRunAfter(kind, clock)]
<1>1. SchedulerTypes /\ CopiesAgree(kindOf, home)
  BY DEF SchedulerOk
<1>2. /\ creates < MaxCreates /\ creates' = new /\ rows' = [rows EXCEPT ![id] = row]
      /\ UNCHANGED <<clock, loop, toolCall, faults, runs, marks, rearmed, lost>>
  BY DEF Create
<1>3. /\ creates \in Nat /\ new \in Gens /\ new \notin 1 .. creates /\ new # 0
      /\ 1 .. new = (1 .. creates) \cup {new} /\ new \in 0 .. MaxCreates
  BY <1>1, <1>2, SchedulerAssumption DEF SchedulerTypes, Gens
<1>4. row.gen = new /\ row.kind = kind /\ IsRow(row)
  BY DEF IsRow
<1> HIDE DEF row
<1>5. /\ rows' = [i \in TaskIds |-> rows'[i]] /\ rows'[id] = row
      /\ \A i \in TaskIds : i # id => rows'[i] = rows[i]
  BY <1>1, <1>2 DEF SchedulerTypes
<1>6. ASSUME NEW r, NEW i, RowOf(r, i, kindOf, home)
      PROVE  Copy(r, i)
  BY <1>3, <1>6 DEF RowOf
<1>7. Copy(row, id)
  BY <1>3, <1>4
<1> HIDE DEF Copy
<1>8. SchedulerTypes'
  BY <1>1, <1>2, <1>3, <1>5 DEF SchedulerTypes, LoopTypes
<1>9. CopiesAgree(kindOf2, home2)'
  <2>1. \A i \in TaskIds : rows'[i] = NoTask \/ Copy(rows'[i], i)
    <3> SUFFICES ASSUME NEW i \in TaskIds, rows'[i] # NoTask
                 PROVE  Copy(rows'[i], i)
      OBVIOUS
    <3>1. CASE i = id
      BY <1>5, <1>7, <3>1
    <3>2. CASE i # id
      <4>1. RowOf(rows[i], i, kindOf, home) /\ rows'[i] = rows[i]
        BY <1>1, <1>5, <3>2 DEF CopiesAgree
      <4> QED
        BY <1>6, <4>1
    <3> QED
      BY <3>1, <3>2
  <2>2. toolCall # NoCall => Copy(toolCall.task, toolCall.id)
    BY <1>1, <1>6 DEF CopiesAgree
  <2>3. Current' = Current /\ (loop.at = "store" => Copy(loop.read, Current.id))
    BY <1>1, <1>2, <1>6 DEF CopiesAgree, Current
  <2>4. \A i \in 1 .. Len(loop.due) : loop.due[i].gen \in 1 .. new /\ home2[loop.due[i].gen] = loop.due[i].id
    BY <1>1, <1>3 DEF CopiesAgree
  <2>5. \A g \in Gens : g > new => runs[g] = 0
    BY <1>1, <1>3 DEF CopiesAgree, Gens
  <2> QED
    BY <1>1, <1>2, <2>1, <2>2, <2>3, <2>4, <2>5 DEF CopiesAgree, RowOf, Copy
<1>10. Current' = Current /\ (\A g : Pending(g)' = Pending(g)) /\ runs[new] = 0 /\ ~Pending(new)
  <2>1. runs[new] = 0
    BY <1>1, <1>3 DEF CopiesAgree
  <2> QED
    BY <1>1, <1>2, <1>3, <2>1 DEF CopiesAgree, Current, Pending
<1>11. loop.at # "wait" => Current.gen # new /\ Current.id \in TaskIds
  <2> SUFFICES ASSUME loop.at # "wait"
               PROVE  Current.gen # new /\ Current.id \in TaskIds
    OBVIOUS
  <2>1. Len(loop.due) \in Nat /\ Len(loop.due) >= 1 /\ Current = loop.due[1] /\ Current.id \in TaskIds
    BY <1>1, CurrentEntry
  <2> QED
    BY <1>1, <1>3, <2>1 DEF CopiesAgree
<1>12. OneShotsSpent(kindOf2, home2)'
  <2> SUFFICES ASSUME NEW g \in 1 .. new, ~Repeats(kindOf2[g]), g \notin rearmed
               PROVE  OnceFor(g, rows[home2[g]])'
    BY <1>2 DEF OneShotsSpent
  <2>1. CASE g = new
    BY <1>2, <1>10, <1>11, <2>1 DEF OnceFor
  <2>2. CASE g # new
    <3>1. g \in 1 .. creates /\ home2[g] = home[g] /\ kindOf2[g] = kindOf[g] /\ home[g] \in TaskIds
      BY <1>3, <2>2
    <3>2. OnceFor(g, rows[home[g]])
      BY <3>1 DEF SchedulerOk, OneShotsSpent
    <3>3. rows'[home[g]] = rows[home[g]] \/ rows'[home[g]].gen # g
      BY <1>4, <1>5, <2>2, <3>1
    <3> QED
      BY <1>2, <1>10, <3>1, <3>2, <3>3 DEF OnceFor
  <2> QED
    BY <2>1, <2>2
<1>13. StoreMeetsNew'
  <2> SUFFICES ASSUME loop.at = "store", rows'[Current.id] # NoTask,
                      rows'[Current.id].gen # loop.read.gen, rows'[Current.id].gen \notin rearmed
               PROVE  runs[rows'[Current.id].gen] = 0 /\ Current.gen # rows'[Current.id].gen
    BY <1>2, <1>10 DEF StoreMeetsNew
  <2>1. CASE Current.id = id
    BY <1>4, <1>5, <1>10, <1>11, <2>1
  <2>2. CASE Current.id # id
    <3>1. rows'[Current.id] = rows[Current.id]
      BY <1>5, <1>11, <2>2
    <3> QED
      BY <3>1 DEF SchedulerOk, StoreMeetsNew
  <2> QED
    BY <2>1, <2>2
<1>14. MarkedHasRun'
  BY <1>2, <1>10 DEF SchedulerOk, MarkedHasRun
<1> QED
  BY <1>8, <1>9, <1>12, <1>13, <1>14 DEF SchedulerOk

\* Every step keeps the invariant, with the kinds and ids of the generations
\* there have been, and those of a row that is created.
LEMMA SchedulerStep ==
  ASSUME SchedulerInv, [SchedulerNext]_schedulerVars
  PROVE  SchedulerInv'
<1>1. PICK kindOf \in [1 .. creates -> Kinds], home \in [1 .. creates -> TaskIds] :
        SchedulerOk(kindOf, home)
  BY DEF SchedulerInv
<1>2. \A g \in 1 .. creates : home[g] \in TaskIds
  OBVIOUS
<1>3. ASSUME NEW id \in TaskIds, NEW kind \in Kinds, Create(id, kind)
      PROVE  SchedulerInv'
  <2> DEFINE new == creates + 1
             kindOf2 == [g \in 1 .. new |-> IF g = new THEN kind ELSE kindOf[g]]
             home2 == [g \in 1 .. new |-> IF g = new THEN id ELSE home[g]]
  <2>1. creates \in Nat /\ creates' = new
    BY <1>1, <1>3, SchedulerAssumption DEF Create, SchedulerOk, SchedulerTypes
  <2>2. kindOf2 \in [1 .. new -> Kinds] /\ home2 \in [1 .. new -> TaskIds]
    BY <2>1
  <2>3. OneMore(kindOf, home, id, kind, kindOf2, home2)
    BY <2>1 DEF OneMore
  <2>4. \E k \in [1 .. new -> Kinds], h \in [1 .. new -> TaskIds] : OneMore(kindOf, home, id, kind, k, h)
    BY <2>2, <2>3
  <2>5. PICK n : n = new
    OBVIOUS
  <2>6. PICK k \in [1 .. n -> Kinds], h \in [1 .. n -> TaskIds] : OneMore(kindOf, home, id, kind, k, h)
    BY <2>4, <2>5
  <2>7. SchedulerOk(k, h)'
    BY <1>1, <1>3, <2>6, CreateKeepsScheduler
  <2>8. creates' = n
    BY <2>1, <2>5
  <2> QED
    BY <2>6, <2>7, <2>8 DEF SchedulerInv
<1>4. CASE ~(\E id \in TaskIds, kind \in Kinds : Create(id, kind))
  <2>1. creates' = creates
    BY <1>4 DEF SchedulerNext, LoopNext, Passing, ReadDue, MarkRead, MarkStore, MarkFails, Dispatch,
       DispatchEnds, Restart, Pause, Remove, Lookup, Resume, schedulerVars
  <2>2. SchedulerOk(kindOf, home)'
    BY <1>1, <1>2, <1>4, StillKeepsScheduler, ReadKeepsScheduler, MarkReadKeepsScheduler,
       MarkStoreKeepsScheduler, MarkFailsKeepsScheduler, DispatchKeepsScheduler,
       ShorterListKeepsScheduler, TouchedKeepsScheduler, ResumeKeepsScheduler
       DEF SchedulerNext, LoopNext
  <2> QED
    BY <2>1, <2>2 DEF SchedulerInv
<1> QED
  BY <1>3, <1>4

\* The state is well formed, a task that was marked is dispatched or accounted
\* for, and a one-shot task is dispatched at most once over the life of its row,
\* through process ends, pauses and slow dispatches, unless a mark of it failed
\* or a stale copy was written back (run_scheduler_loop and mark_run).
THEOREM RunsMatchMarksHolds == SchedulerSpec => []RunsMatchMarks
<1>1. SchedulerInit => SchedulerInv
  <2> SUFFICES ASSUME SchedulerInit
               PROVE  SchedulerInv
    OBVIOUS
  <2>1. /\ creates = 0 /\ loop.at = "wait" /\ loop.due = <<>> /\ Len(loop.due) = 0
        /\ loop = [at |-> loop.at, due |-> loop.due, read |-> loop.read]
    BY DEF SchedulerInit, IdleLoop
  <2>2. PICK none : none = [g \in 1 .. 0 |-> 0]
    OBVIOUS
  <2>3. none \in [1 .. creates -> Kinds] /\ none \in [1 .. creates -> TaskIds]
    BY <2>1, <2>2
  <2>4. SchedulerTypes
    <3>1. loop.due \in Seq(DueEntry)
      BY <2>1
    <3> QED
      BY <2>1, <3>1, SchedulerAssumption DEF SchedulerInit, SchedulerTypes, LoopTypes
  <2>5. CopiesAgree(none, none)
    BY <2>1 DEF SchedulerInit, CopiesAgree
  <2>6. OneShotsSpent(none, none) /\ StoreMeetsNew /\ MarkedHasRun
    BY <2>1 DEF SchedulerInit, OneShotsSpent, StoreMeetsNew, MarkedHasRun
  <2> QED
    BY <2>3, <2>4, <2>5, <2>6 DEF SchedulerInv, SchedulerOk
<1>2. SchedulerInv /\ [SchedulerNext]_schedulerVars => SchedulerInv'
  BY SchedulerStep
<1>3. SchedulerInv => RunsMatchMarks
  <2> SUFFICES ASSUME SchedulerInv
               PROVE  RunsMatchMarks
    OBVIOUS
  <2>1. PICK kindOf, home : SchedulerOk(kindOf, home)
    BY DEF SchedulerInv
  <2>2. SchedulerTypeOK
    <3>1. \A id \in TaskIds : rows[id] = NoTask \/ (rows[id].gen \in 1 .. creates /\ rows[id].kind \in Kinds)
      BY <2>1 DEF SchedulerOk, CopiesAgree, RowOf
    <3> QED
      BY <2>1, <3>1 DEF SchedulerTypeOK, SchedulerOk, SchedulerTypes, LoopTypes
  <2>3. OneShotOnce
    <3> SUFFICES ASSUME NEW id \in TaskIds, rows[id] # NoTask, ~Repeats(rows[id].kind),
                        rows[id].gen \notin rearmed
                 PROVE  ~(runs[rows[id].gen] > 1)
      BY DEF OneShotOnce
    <3>1. RowOf(rows[id], id, kindOf, home)
      BY <2>1 DEF SchedulerOk, CopiesAgree
    <3>2. runs[rows[id].gen] <= 1 /\ rows[id].gen \in Gens
      BY <2>1, <3>1, RowFacts DEF SchedulerOk, OneShotsSpent, RowOf, OnceFor
    <3>3. runs[rows[id].gen] \in 0 .. 2
      BY <2>1, <3>2 DEF SchedulerOk, SchedulerTypes
    <3> QED
      BY <3>2, <3>3
  <2> QED
    BY <2>1, <2>2, <2>3 DEF RunsMatchMarks, SchedulerOk
<1> QED
  BY <1>1, <1>2, <1>3, PTL DEF SchedulerSpec

-----------------------------------------------------------------------------
(* The mission runner *)

\* The runner, its navigation and its world, and nothing beside them.
MissionSpec == MissionInit /\ [][MissionNext]_missionVars

Halting == [at : {"halt", "stop"}]

MissionTypes ==
  /\ mission \in Seq(Steps)
  /\ runner \in [status : {"idle", "running", "aborted", "completed"},
                 step : Nat \ {0}, entered : BOOLEAN]
  /\ path \in Seq(Places)
  /\ robot \in [drive : BOOLEAN, at : Places \cup {"base"}, fix : BOOLEAN]
  /\ ticking \in {Idling} \cup Halting \cup [at : {"enter"}, step : Steps]
  /\ aborting \in {Idling} \cup Halting
  /\ steering \in {Idling} \cup [at : {"pop", "drive", "stop"}]
  /\ late \in BOOLEAN
  /\ crossed \in BOOLEAN

\* A goal that is left when the mission has stopped was set late, or a halt is
\* on its way to it.
StoppedClearsGoal ==
  runner.status \in {"aborted", "completed"} /\ mission # <<>> /\ path # <<>>
    => late \/ ticking.at = "halt" \/ aborting.at = "halt"

\* A drive that runs without a goal was overtaken or refused, or a Stop is on
\* its way to it; and a drive command on its way without a goal was overtaken.
GoallessDriveStops ==
  /\ robot.drive /\ path = <<>>
       => crossed \/ ticking.at = "stop" \/ aborting.at = "stop" \/ steering.at = "stop"
  /\ steering.at = "drive" /\ path = <<>> => crossed

MissionInv == MissionTypes /\ StoppedClearsGoal /\ GoallessDriveStops

\* Where a call is, is in what it carries.
LEMMA IdlingAt == Idling.at = "none"
BY DEF Idling

\* The lock: what the runner decides starts a halt, or leaves the goal, the
\* drive and every halt alone.
LEMMA DecisionKeepsMission ==
  ASSUME MissionInv,
         \/ \E m \in Missions : StartMission(m)
         \/ TickAborts \/ TickEnters \/ TickAdvances \/ TickCompletes \/ Abort
  PROVE  MissionInv'
<1>1. UNCHANGED <<path, robot, steering, late, crossed>>
  BY DEF StartMission, TickAborts, TickEnters, TickAdvances, TickCompletes, Abort
<1>2. CASE \E m \in Missions : StartMission(m)
  <2>1. PICK m \in Missions : StartMission(m)
    BY <1>2
  <2>2. m \in Seq(Steps)
    BY MissionAssumption
  <2>3. /\ mission' = m
        /\ runner' = [status |-> IF m = <<>> THEN "completed" ELSE "running",
                      step |-> 1, entered |-> FALSE]
        /\ UNCHANGED <<ticking, aborting>>
    BY <2>1 DEF StartMission
  <2>4. MissionTypes'
    BY <1>1, <2>2, <2>3 DEF MissionInv, MissionTypes
  <2> QED
    BY <1>1, <2>3, <2>4 DEF MissionInv, StoppedClearsGoal, GoallessDriveStops
<1>3. CASE TickAborts \/ TickCompletes
  <2>1. /\ ticking = Idling /\ ticking' = [at |-> "halt"]
        /\ \E s \in {"aborted", "completed"} : runner' = [runner EXCEPT !.status = s]
        /\ UNCHANGED <<mission, aborting>>
    BY <1>3 DEF TickAborts, TickCompletes
  <2>2. MissionTypes'
    BY <1>1, <2>1 DEF MissionInv, MissionTypes, Halting
  <2> QED
    BY <1>1, <2>1, <2>2, IdlingAt DEF MissionInv, StoppedClearsGoal, GoallessDriveStops
<1>4. CASE Abort
  <2>1. /\ aborting = Idling /\ aborting' = [at |-> "halt"]
        /\ runner' = [runner EXCEPT !.status = "aborted"]
        /\ UNCHANGED <<mission, ticking>>
    BY <1>4 DEF Abort
  <2>2. MissionTypes'
    BY <1>1, <2>1 DEF MissionInv, MissionTypes, Halting
  <2> QED
    BY <1>1, <2>1, <2>2, IdlingAt DEF MissionInv, StoppedClearsGoal, GoallessDriveStops
<1>5. CASE TickEnters
  <2>1. /\ ticking = Idling /\ ticking' = [at |-> "enter", step |-> mission[runner.step]]
        /\ runner' = [runner EXCEPT !.entered = TRUE]
        /\ runner.status = "running" /\ runner.step <= Len(mission)
        /\ UNCHANGED <<mission, aborting>>
    BY <1>5 DEF TickEnters, Running
  <2>2. mission[runner.step] \in Steps
    BY <2>1 DEF MissionInv, MissionTypes
  <2>3. MissionTypes'
    BY <1>1, <2>1, <2>2 DEF MissionInv, MissionTypes
  <2>4. runner'.status = "running"
    BY <2>1 DEF MissionInv, MissionTypes
  <2> QED
    BY <1>1, <2>1, <2>3, <2>4, IdlingAt DEF MissionInv, StoppedClearsGoal, GoallessDriveStops
<1>6. CASE TickAdvances
  <2>1. /\ runner' = [runner EXCEPT !.step = @ + 1, !.entered = FALSE]
        /\ runner.status = "running"
        /\ UNCHANGED <<mission, ticking, aborting>>
    BY <1>6 DEF TickAdvances, Running
  <2>2. runner' \in [status : {"idle", "running", "aborted", "completed"},
                     step : Nat \ {0}, entered : BOOLEAN] /\ runner'.status = "running"
    <3>1. runner \in [status : {"idle", "running", "aborted", "completed"},
                      step : Nat \ {0}, entered : BOOLEAN]
      BY DEF MissionInv, MissionTypes
    <3>2. runner' = [status |-> "running", step |-> runner.step + 1, entered |-> FALSE]
      BY <2>1, <3>1
    <3> QED
      BY <3>1, <3>2
  <2>3. MissionTypes'
    BY <1>1, <2>1, <2>2 DEF MissionInv, MissionTypes
  <2> QED
    BY <1>1, <2>1, <2>2, <2>3 DEF MissionInv, StoppedClearsGoal, GoallessDriveStops
<1> QED
  BY <1>2, <1>3, <1>4, <1>5, <1>6

\* A step entered sets its goal, late if the mission has stopped by then.
LEMMA EnterKeepsMission ==
  ASSUME MissionInv, EnterStep
  PROVE  MissionInv'
<1>1. /\ ticking.at = "enter" /\ ticking' = Idling
      /\ UNCHANGED <<mission, runner, robot, aborting, steering, crossed>>
  BY DEF EnterStep
<1>2. CASE UNCHANGED <<path, late>>
  BY <1>1, <1>2, IdlingAt DEF MissionInv, MissionTypes, StoppedClearsGoal, GoallessDriveStops
<1>3. CASE ticking.step.kind = "navigate" /\ path' = <<ticking.step.to>> /\ late' = (late \/ ~Running)
  <2>1. ticking \in [at : {"enter"}, step : Steps]
    BY <1>1, IdlingAt DEF MissionInv, MissionTypes, Halting
  <2>2. ticking.step.to \in Places
    BY <1>3, <2>1 DEF Steps
  <2>3. path' \in Seq(Places) /\ path' # <<>>
    BY <1>3, <2>2
  <2>4. MissionTypes'
    BY <1>1, <1>3, <2>3 DEF MissionInv, MissionTypes
  <2> QED
    BY <1>1, <1>3, <2>3, <2>4, IdlingAt DEF MissionInv, StoppedClearsGoal, GoallessDriveStops, Running
<1> QED
  BY <1>2, <1>3 DEF EnterStep

\* A halt takes the goal first, and the drive after it.
LEMMA HaltKeepsMission ==
  ASSUME MissionInv, TickClearsGoal \/ AbortClearsGoal \/ TickStops \/ AbortStops \/ NavStops
  PROVE  MissionInv'
<1>1. CASE TickClearsGoal \/ AbortClearsGoal
  <2>1. /\ path' = <<>> /\ late' = FALSE /\ crossed' = (crossed \/ steering.at \in {"drive", "stop"})
        /\ UNCHANGED <<mission, runner, robot, steering>>
    BY <1>1 DEF TickClearsGoal, AbortClearsGoal, ClearGoal
  <2>2. \/ ticking' = [at |-> "stop"] /\ aborting' = aborting
        \/ aborting' = [at |-> "stop"] /\ ticking' = ticking
    BY <1>1 DEF TickClearsGoal, AbortClearsGoal
  <2>3. MissionTypes'
    <3>1. [at |-> "stop"] \in Halting /\ path' \in Seq(Places) /\ crossed' \in BOOLEAN
      BY <2>1 DEF Halting
    <3> QED
      BY <2>1, <2>2, <3>1 DEF MissionInv, MissionTypes
  <2>4. StoppedClearsGoal'
    BY <2>1 DEF StoppedClearsGoal
  <2>5. GoallessDriveStops'
    <3>1. steering.at = "drive" => crossed'
      BY <2>1
    <3>2. ticking'.at = "stop" \/ aborting'.at = "stop"
      BY <2>2
    <3> QED
      BY <2>1, <3>1, <3>2 DEF GoallessDriveStops
  <2> QED
    BY <2>3, <2>4, <2>5 DEF MissionInv
<1>2. CASE TickStops \/ AbortStops \/ NavStops
  <2>1. UNCHANGED <<mission, runner, path, late>>
    BY <1>2 DEF TickStops, AbortStops, NavStops, StopDrive
  <2>2. \/ robot' = [robot EXCEPT !.drive = FALSE] /\ crossed' = crossed
        \/ robot' = robot /\ crossed' = TRUE
    BY <1>2 DEF TickStops, AbortStops, NavStops, StopDrive
  <2>3. \/ ticking.at = "stop" /\ ticking' = Idling /\ UNCHANGED <<aborting, steering>>
        \/ aborting.at = "stop" /\ aborting' = Idling /\ UNCHANGED <<ticking, steering>>
        \/ steering.at = "stop" /\ steering' = Idling /\ UNCHANGED <<ticking, aborting>>
    BY <1>2 DEF TickStops, AbortStops, NavStops, StopDrive
  <2>4. MissionTypes'
    BY <2>1, <2>2, <2>3 DEF MissionInv, MissionTypes
  <2>5. ~robot'.drive \/ crossed'
    BY <2>2 DEF MissionInv, MissionTypes
  <2> QED
    BY <2>1, <2>2, <2>3, <2>4, <2>5, IdlingAt DEF MissionInv, StoppedClearsGoal, GoallessDriveStops
<1> QED
  BY <1>1, <1>2

\* A navigation step: what it reads has a goal; what it pops to nothing it stops.
LEMMA NavKeepsMission ==
  ASSUME MissionInv, NavRead \/ NavPop \/ NavDrive
  PROVE  MissionInv'
<1>1. UNCHANGED <<mission, runner, ticking, aborting, late>>
  BY DEF NavRead, NavPop, NavDrive
<1>2. CASE NavRead
  <2>1. /\ steering = Idling /\ path # <<>> /\ UNCHANGED <<path, robot, crossed>>
        /\ \E k \in {"pop", "drive"} : steering' = [at |-> k]
    BY <1>2 DEF NavRead
  <2>2. MissionTypes'
    BY <1>1, <2>1 DEF MissionInv, MissionTypes
  <2> QED
    BY <1>1, <2>1, <2>2 DEF MissionInv, StoppedClearsGoal, GoallessDriveStops
<1>3. CASE NavPop
  <2>1. /\ UNCHANGED <<robot, crossed>>
        /\ path' = IF path = <<>> THEN <<>> ELSE Tail(path)
        /\ steering' = IF path' = <<>> THEN [at |-> "stop"] ELSE Idling
    BY <1>3 DEF NavPop
  <2>2. path' \in Seq(Places) /\ (path' # <<>> => path # <<>>)
    BY <2>1 DEF MissionInv, MissionTypes
  <2>3. MissionTypes'
    BY <1>1, <2>1, <2>2 DEF MissionInv, MissionTypes
  <2> QED
    BY <1>1, <2>1, <2>2, <2>3, IdlingAt DEF MissionInv, StoppedClearsGoal, GoallessDriveStops
<1>4. CASE NavDrive
  <2>1. /\ steering.at = "drive" /\ steering' = Idling /\ UNCHANGED <<path, crossed>>
        /\ \/ robot' = [robot EXCEPT !.drive = TRUE]
           \/ robot' = robot
    BY <1>4 DEF NavDrive
  <2>2. MissionTypes'
    BY <1>1, <2>1 DEF MissionInv, MissionTypes
  <2> QED
    BY <1>1, <2>1, <2>2, IdlingAt DEF MissionInv, StoppedClearsGoal, GoallessDriveStops
<1> QED
  BY <1>2, <1>3, <1>4

\* The clock, the sensors, the robot and the operator's navigate.
LEMMA WorldKeepsMission ==
  ASSUME MissionInv,
         \/ WaitOver \/ Move \/ FixComes \/ NavigateTool \/ UNCHANGED missionVars
         \/ \E f \in {"guard", "awaited"} : FactHolds(f)
  PROVE  MissionInv'
<1>1. UNCHANGED <<mission, runner, ticking, aborting, steering, crossed>>
  BY DEF WaitOver, Move, FixComes, NavigateTool, FactHolds, missionVars
<1>2. CASE UNCHANGED <<path, robot, late>>
  BY <1>1, <1>2 DEF MissionInv, MissionTypes, StoppedClearsGoal, GoallessDriveStops
<1>3. CASE Move \/ FixComes
  <2>1. UNCHANGED <<path, late>>
    BY <1>3 DEF Move, FixComes
  <2>2. /\ robot' \in [drive : BOOLEAN, at : Places \cup {"base"}, fix : BOOLEAN]
        /\ robot'.drive = robot.drive
    <3>1. robot \in [drive : BOOLEAN, at : Places \cup {"base"}, fix : BOOLEAN]
      BY DEF MissionInv, MissionTypes
    <3>2. CASE Move
      <4>1. Head(path) \in Places /\ robot' = [robot EXCEPT !.at = Head(path)]
        BY <3>2 DEF MissionInv, MissionTypes, Move
      <4> QED
        BY <3>1, <4>1
    <3>3. CASE FixComes
      BY <3>1, <3>3 DEF FixComes
    <3> QED
      BY <1>3, <3>2, <3>3
  <2> QED
    BY <1>1, <2>1, <2>2 DEF MissionInv, MissionTypes, StoppedClearsGoal, GoallessDriveStops
<1>4. CASE NavigateTool
  <2>1. /\ late' = TRUE /\ robot' = robot
        /\ \E p, q \in Places : path' \in {<<p>>, <<p, q>>}
    BY <1>4 DEF NavigateTool
  <2>2. path' \in Seq(Places) /\ path' # <<>>
    <3>1. \A p, q \in Places : /\ <<p>> \in Seq(Places) /\ <<p>> # <<>>
                               /\ <<p, q>> \in Seq(Places) /\ <<p, q>> # <<>>
      OBVIOUS
    <3> QED
      BY <2>1, <3>1
  <2> QED
    BY <1>1, <2>1, <2>2 DEF MissionInv, MissionTypes, StoppedClearsGoal, GoallessDriveStops
<1> QED
  BY <1>2, <1>3, <1>4 DEF WaitOver, FactHolds, missionVars

\* A mission that was aborted or has completed leaves no goal behind once its
\* halt is through, and the drive does not run on without a goal: but for a
\* goal set late, and a drive command that was overtaken or refused (the tick
\* and abort of obc-mission over NavController of obc-navigation).
THEOREM GoalsFollowMissionHolds == MissionSpec => []GoalsFollowMission
<1>1. MissionInit => MissionInv
  <2> SUFFICES ASSUME MissionInit
               PROVE  MissionInv
    OBVIOUS
  <2>1. <<>> \in Seq(Steps) /\ <<>> \in Seq(Places)
    OBVIOUS
  <2>2. MissionTypes
    <3>1. runner \in [status : {"idle", "running", "aborted", "completed"},
                      step : Nat \ {0}, entered : BOOLEAN]
      BY DEF MissionInit
    <3>2. robot \in [drive : BOOLEAN, at : Places \cup {"base"}, fix : BOOLEAN]
      BY DEF MissionInit
    <3> QED
      BY <2>1, <3>1, <3>2 DEF MissionInit, MissionTypes
  <2> QED
    BY <2>2, IdlingAt DEF MissionInit, MissionInv, StoppedClearsGoal, GoallessDriveStops
<1>2. MissionInv /\ [MissionNext]_missionVars => MissionInv'
  BY DecisionKeepsMission, EnterKeepsMission, HaltKeepsMission, NavKeepsMission, WorldKeepsMission
     DEF MissionNext, TickStep, AbortStep, NavStep, WorldStep
<1>3. MissionInv => GoalsFollowMission
  BY IdlingAt DEF MissionInv, StoppedClearsGoal, GoallessDriveStops, GoalsFollowMission,
     StoppedHasNoGoal, DriveHasGoal, Settled
<1> QED
  BY <1>1, <1>2, <1>3, PTL DEF MissionSpec

-----------------------------------------------------------------------------
(* The fleet coordinator *)

\* The coordinator and what reaches it, and nothing beside them.
FleetSpec == FleetInit /\ [][FleetNext]_fleetVars

RoundTypes ==
  /\ round.op \in {"none", "tick", "closing", "auction", "explore"}
  /\ round.op # "explore" => /\ round = [op |-> round.op, todo |-> round.todo, kept |-> round.kept]
                             /\ round.todo \in Seq(Jobs)
  /\ round.op \notin {"auction", "explore"} => round.todo = <<>>
  /\ round.kept \in Seq(Jobs)
  /\ round.op \notin {"tick", "closing"} => round.kept = <<>>
  /\ round.op = "explore" =>
       /\ round = [op |-> round.op, todo |-> round.todo, kept |-> round.kept,
                   frontiers |-> round.frontiers, claimed |-> round.claimed]
       /\ round.todo \in Seq(Nodes)
       /\ round.frontiers \subseteq Targets
       /\ round.claimed \subseteq Targets

FleetTypes ==
  /\ view \in [Nodes -> [online : BOOLEAN, busy : BOOLEAN]]
  /\ pending \in Seq(Jobs)
  /\ assignments \in [Jobs -> Nodes \cup {None}]
  /\ claims \in [Nodes -> Targets \cup {None}]
  /\ accepted \subseteq Jobs
  /\ RoundTypes

\* What a round has taken off the queue, or copied.
InHand == Members(round.kept) \cup (IF round.op = "auction" THEN Members(round.todo) ELSE {})

\* A task that was queued is somewhere, or the queue is about to be replaced
\* over it.
TasksHeld ==
  \A t \in accepted :
    \/ t \in Members(pending) \cup InHand
    \/ assignments[t] # None
    \/ t \in done
    \/ t \in overtaken

\* What is queued after the last look at the queue is overtaken.
LateIsOvertaken ==
  /\ round.op = "closing" => Members(pending) \subseteq overtaken
  /\ round.op = "auction" => Members(pending) \subseteq Members(round.todo) \cup overtaken

OneJob(n) == \A a, b \in JobsOf(n) : a = b

\* A node with a job is busy, and has no other; the nodes an exploration has
\* yet to come to have none, and come once.
BusyAtOneJob ==
  /\ \A n \in Nodes \ wiped : OneJob(n) /\ (JobsOf(n) # {} => view[n].busy)
  /\ round.op = "explore" =>
       /\ \A n \in Nodes : n \in Members(round.todo) /\ JobsOf(n) # {} => n \in wiped
       /\ \A i, j \in DOMAIN round.todo : round.todo[i] = round.todo[j] => i = j

\* An exploration keeps apart from every claim there is.
ClaimsKnown ==
  round.op = "explore" => \A n \in Nodes : claims[n] \in round.claimed \cup {None}

FleetInv ==
  /\ FleetTypes
  /\ TasksHeld
  /\ LateIsOvertaken
  /\ BusyAtOneJob
  /\ ClaimsKnown
  /\ ClaimsApart

\* What a queue holds.
LEMMA QueueMembers ==
  ASSUME NEW S, NEW s \in Seq(S)
  PROVE  /\ Members(s) \subseteq S
         /\ \A x \in S : Append(s, x) \in Seq(S) /\ Members(Append(s, x)) = Members(s) \cup {x}
         /\ s # <<>> => /\ Head(s) \in S /\ Tail(s) \in Seq(S)
                        /\ Members(s) = {Head(s)} \cup Members(Tail(s))
<1>1. Members(s) \subseteq S
  BY DEF Members
<1>2. ASSUME NEW x \in S
      PROVE  Append(s, x) \in Seq(S) /\ Members(Append(s, x)) = Members(s) \cup {x}
  <2>1. Append(s, x) \in Seq(S) /\ Len(Append(s, x)) = Len(s) + 1 /\ Len(s) \in Nat
        /\ Append(s, x)[Len(s) + 1] = x /\ \A i \in 1 .. Len(s) : Append(s, x)[i] = s[i]
    OBVIOUS
  <2>2. DOMAIN Append(s, x) = 1 .. Len(s) + 1 /\ DOMAIN s = 1 .. Len(s)
    BY <2>1
  <2>3. DOMAIN Append(s, x) = DOMAIN s \cup {Len(s) + 1}
    BY <2>1, <2>2
  <2> QED
    BY <2>1, <2>2, <2>3 DEF Members
<1>3. ASSUME s # <<>>
      PROVE  /\ Head(s) \in S /\ Tail(s) \in Seq(S)
             /\ Members(s) = {Head(s)} \cup Members(Tail(s))
  <2>1. /\ Head(s) \in S /\ Tail(s) \in Seq(S) /\ Head(s) = s[1]
        /\ Len(s) \in Nat /\ Len(s) >= 1 /\ Len(Tail(s)) = Len(s) - 1
        /\ \A i \in 1 .. Len(Tail(s)) : Tail(s)[i] = s[i + 1]
    BY <1>3, HeadTailProperties
  <2>2. DOMAIN s = 1 .. Len(s) /\ DOMAIN Tail(s) = 1 .. Len(s) - 1
    BY <2>1
  <2>3. \A i \in DOMAIN s : i = 1 \/ (i - 1 \in DOMAIN Tail(s) /\ Tail(s)[i - 1] = s[i])
    BY <2>1, <2>2
  <2>4. 1 \in DOMAIN s /\ \A i \in DOMAIN Tail(s) : i + 1 \in DOMAIN s /\ Tail(s)[i] = s[i + 1]
    BY <2>1, <2>2
  <2> QED
    BY <2>1, <2>3, <2>4 DEF Members
<1> QED
  BY <1>1, <1>2, <1>3

\* One bid keeps another from being awarded.
Blocks(q, p) == (q[1] = p[1] \/ q[2] = p[2]) /\ Bids[q] < Bids[p]

IsAward(A, bids) == A \subseteq bids /\ \A p \in bids : p \in A <=> ~ \E q \in A : Blocks(q, p)

\* Whatever is bid can be awarded, cheapest first: of the smallest set of bids
\* that could not, the cheapest is awarded, and what it does not block after it.
LEMMA AwardExists ==
  ASSUME NEW bids, bids \subseteq DOMAIN Bids
  PROVE  \E A : IsAward(A, bids)
<1> DEFINE Sizes == {n \in Nat : \E B \in SUBSET DOMAIN Bids :
                                    n = Cardinality(B) /\ ~ \E A : IsAward(A, B)}
<1>1. ASSUME NEW B \in SUBSET DOMAIN Bids
      PROVE  IsFiniteSet(B) /\ Cardinality(B) \in Nat
  BY FleetAssumption, FS_Subset, FS_CardinalityType
<1> SUFFICES ASSUME ~ \E A : IsAward(A, bids)
             PROVE  FALSE
  OBVIOUS
<1>2. Cardinality(bids) \in Sizes
  BY <1>1
<1>3. \A T : T \subseteq Nat /\ T # {} => \E n \in T : \A m \in T : n <= m
  <2> SUFFICES ASSUME NEW T, T \subseteq Nat, T # {}
               PROVE  \E n \in T : \A m \in T : n <= m
    OBVIOUS
  <2>1. \E n \in T : \A m \in T : ~(<<m, n>> \in OpToRel(<, Nat))
    BY NatLessThanWellFounded, WFMin
  <2>2. \E n \in T : \A m \in T : ~(m \in Nat /\ n \in Nat /\ m < n)
    BY <2>1, Zenon DEF OpToRel
  <2> QED
    BY <2>2
<1>4. PICK n \in Sizes : \A m \in Sizes : n <= m
  <2>1. Sizes \subseteq Nat /\ Sizes # {}
    BY <1>2
  <2> QED
    BY <1>3, <2>1
<1>5. PICK B \in SUBSET DOMAIN Bids : n = Cardinality(B) /\ ~ \E A : IsAward(A, B)
  OBVIOUS
<1>6. B # {}
  <2>1. IsAward({}, {})
    BY DEF IsAward
  <2> QED
    BY <1>5, <2>1
<1>7. PICK p \in B : \A q \in B : Bids[p] <= Bids[q]
  <2> DEFINE Costs == {Bids[q] : q \in B}
  <2>1. Costs \subseteq Nat /\ Costs # {}
    BY <1>6, FleetAssumption
  <2>2. \E c \in Costs : \A d \in Costs : c <= d
    BY <1>3, <2>1
  <2> QED
    BY <2>2
<1>8. PICK C : C = {q \in B : q # p /\ ~Blocks(p, q)}
  OBVIOUS
<1>9. PICK A : IsAward(A, C)
  <2>1. C \in SUBSET DOMAIN Bids /\ C \in SUBSET (B \ {p})
    BY <1>8
  <2>2. IsFiniteSet(B) /\ Cardinality(B) \in Nat /\ Cardinality(C) \in Nat
    BY <1>1, <2>1
  <2>3. Cardinality(B \ {p}) = Cardinality(B) - 1 /\ IsFiniteSet(B \ {p})
    BY <2>2, FS_RemoveElement
  <2>4. Cardinality(C) <= Cardinality(B) - 1
    BY <2>1, <2>3, FS_Subset
  <2>5. Cardinality(C) \notin Sizes
    BY <1>4, <1>5, <2>2, <2>4
  <2> QED
    BY <2>1, <2>2, <2>5
<1>10. \A q \in B : Bids[q] \in Nat
  BY FleetAssumption
<1>11. \A q \in B : ~Blocks(q, p)
  BY <1>7, <1>10 DEF Blocks
<1>12. IsAward(A \cup {p}, B)
  <2>1. A \cup {p} \subseteq B /\ A \subseteq C
    BY <1>8, <1>9 DEF IsAward
  <2> SUFFICES ASSUME NEW b \in B
               PROVE  b \in A \cup {p} <=> ~ \E q \in A \cup {p} : Blocks(q, b)
    BY <2>1 DEF IsAward
  <2>2. CASE b = p
    BY <1>11, <2>1, <2>2
  <2>3. CASE b # p /\ Blocks(p, b)
    BY <1>8, <2>1, <2>3
  <2>4. CASE b \in C
    BY <1>8, <1>9, <2>4 DEF IsAward
  <2> QED
    BY <1>8, <2>2, <2>3, <2>4
<1> QED
  BY <1>5, <1>12

\* The awards are bids that are admitted, and each node and each task is in one
\* of them at most.
LEMMA AwardsFacts ==
  ASSUME NEW ts
  PROVE  /\ Awards(ts) \subseteq Eligible(ts)
         /\ \A p, q \in Awards(ts) : (p[1] = q[1] \/ p[2] = q[2]) => p = q
<1> DEFINE bids == Eligible(ts)
<1>1. bids \subseteq DOMAIN Bids
  BY DEF Eligible
<1> HIDE DEF bids
<1>2. \E A \in SUBSET bids : \A p \in bids :
        p \in A <=> ~ \E q \in A : (q[1] = p[1] \/ q[2] = p[2]) /\ Bids[q] < Bids[p]
  BY <1>1, AwardExists DEF IsAward, Blocks
<1>3. PICK A : A = Awards(ts)
  OBVIOUS
<1>4. /\ A \in SUBSET bids
      /\ \A p \in bids : p \in A <=> ~ \E q \in A : (q[1] = p[1] \/ q[2] = p[2]) /\ Bids[q] < Bids[p]
  BY <1>2, <1>3 DEF Awards, bids
<1>5. ASSUME NEW p \in A, NEW q \in A, p[1] = q[1] \/ p[2] = q[2]
      PROVE  p = q
  <2>1. Bids[p] \in Nat /\ Bids[q] \in Nat /\ (Bids[p] = Bids[q] => p = q)
    BY <1>1, <1>4, FleetAssumption
  <2>2. ~(Bids[p] < Bids[q]) /\ ~(Bids[q] < Bids[p])
    BY <1>4, <1>5
  <2> QED
    BY <2>1, <2>2
<1> QED
  BY <1>3, <1>4, <1>5 DEF bids

\* A bid that is admitted is of an idle node, for one of the tasks.
LEMMA EligibleFacts ==
  ASSUME FleetTypes, NEW ts, NEW p \in Eligible(ts)
  PROVE  /\ p = <<p[1], p[2]>> /\ p[1] \in Nodes /\ p[2] \in Jobs /\ p[2] \in ts
         /\ p[1] # None /\ ~view[p[1]].busy
<1>1. p \in Nodes \X Jobs
  BY FleetAssumption DEF Eligible
<1>2. p[2] \in ts /\ ~view[p[1]].busy
  BY DEF Eligible, Idle
<1> QED
  BY <1>1, <1>2, FleetAssumption

\* What awards do to the nodes and the tasks.
Awarded(A) ==
  /\ \A p, q \in A : p[1] = q[1] => p = q
  /\ \A p \in A : view'[p[1]].busy /\ assignments'[p[2]] = p[1]
  /\ \A n \in Nodes : view[n].busy => view'[n].busy
  /\ \A t \in Jobs : (\E p \in A : p[2] = t) \/ assignments'[t] = assignments[t]
  /\ UNCHANGED <<claims, wiped>>

\* Awards, one or several, leave no node with two jobs: an idle node that gets
\* one had none, or had lost its `busy` under it.
LEMMA AwardsKeepOneJob ==
  ASSUME FleetTypes, BusyAtOneJob, NEW ts, NEW A, A \subseteq Eligible(ts),
         Awarded(A)
  PROVE  \A n \in Nodes \ wiped' : OneJob(n)' /\ (JobsOf(n)' # {} => view'[n].busy)
<1> SUFFICES ASSUME NEW n \in Nodes, n \notin wiped
             PROVE  OneJob(n)' /\ (JobsOf(n)' # {} => view'[n].busy)
  BY DEF Awarded
<1>1. OneJob(n) /\ (JobsOf(n) # {} => view[n].busy)
  BY DEF BusyAtOneJob
<1>2. CASE \E p \in A : p[1] = n
  <2>1. PICK p \in A : p[1] = n
    BY <1>2
  <2>2. JobsOf(n) = {}
    BY <1>1, <2>1, EligibleFacts
  <2>3. \A t \in Jobs : assignments[t] # n
    BY <2>2 DEF JobsOf
  <2>4. claims[n] = None
    BY <2>2 DEF JobsOf
  <2>5. ASSUME NEW t \in Jobs, assignments'[t] = n
        PROVE  t = p[2]
    BY <2>1, <2>3, <2>5 DEF Awarded
  <2>6. JobsOf(n)' \subseteq {p[2]}
    BY <2>4, <2>5 DEF JobsOf, Awarded
  <2> QED
    BY <2>1, <2>6 DEF OneJob, Awarded
<1>3. CASE ~ \E p \in A : p[1] = n
  <2>1. \A t \in Jobs : assignments'[t] = n => assignments[t] = n
    BY <1>3 DEF Awarded
  <2>2. JobsOf(n)' \subseteq JobsOf(n)
    BY <2>1 DEF JobsOf, Awarded
  <2> QED
    BY <1>1, <2>2 DEF OneJob, Awarded
<1> QED
  BY <1>2, <1>3

\* Fewer jobs of a node that stays busy, or was cleared under them.
LEMMA FewerJobs ==
  ASSUME BusyAtOneJob, UNCHANGED round, wiped \subseteq wiped',
         \A n \in Nodes : JobsOf(n)' \subseteq JobsOf(n),
         \A n \in Nodes \ wiped' : JobsOf(n)' # {} /\ view[n].busy => view'[n].busy,
         round.op = "explore" => round.todo \in Seq(Nodes)
  PROVE  BusyAtOneJob'
<1>1. \A n \in Nodes \ wiped' : OneJob(n)' /\ (JobsOf(n)' # {} => view'[n].busy)
  BY DEF BusyAtOneJob, OneJob
<1>2. ASSUME round.op = "explore"
      PROVE  \A n \in Nodes : n \in Members(round.todo) /\ JobsOf(n)' # {} => n \in wiped'
  <2> SUFFICES ASSUME NEW n \in Nodes, n \in Members(round.todo), JobsOf(n)' # {}
               PROVE  n \in wiped'
    OBVIOUS
  <2>1. JobsOf(n) # {}
    OBVIOUS
  <2> QED
    BY <1>2, <2>1 DEF BusyAtOneJob
<1> QED
  BY <1>1, <1>2 DEF BusyAtOneJob

\* What is heard of a node, or what is sent, moves no task and no claim.
LEMMA HeardKeepsFleet ==
  ASSUME FleetInv,
         \/ \E n \in Nodes : Heartbeat(n) \/ GoStale(n)
         \/ Broadcast \/ UNCHANGED fleetVars
  PROVE  FleetInv'
<1>1. UNCHANGED <<pending, assignments, claims, round, accepted, done, overtaken>>
  BY DEF Heartbeat, GoStale, Broadcast, fleetVars
<1>2. FleetTypes' /\ wiped \subseteq wiped'
  <2>1. wiped \subseteq wiped'
    BY DEF Heartbeat, GoStale, Broadcast, fleetVars
  <2>2. view' \in [Nodes -> [online : BOOLEAN, busy : BOOLEAN]]
    <3>1. CASE \E n \in Nodes : Heartbeat(n)
      BY <3>1 DEF FleetInv, FleetTypes, Heartbeat
    <3>2. CASE \E n \in Nodes : GoStale(n)
      BY <3>2 DEF FleetInv, FleetTypes, GoStale
    <3> QED
      BY <3>1, <3>2 DEF FleetInv, FleetTypes, Broadcast, fleetVars
  <2> QED
    BY <1>1, <2>1, <2>2 DEF FleetInv, FleetTypes, RoundTypes
<1>3. \A n \in Nodes : JobsOf(n)' = JobsOf(n)
  BY <1>1 DEF JobsOf
<1>4. ASSUME NEW n \in Nodes \ wiped', JobsOf(n)' # {}, view[n].busy
      PROVE  view'[n].busy
  BY <1>2, <1>3, <1>4 DEF Heartbeat, GoStale, Broadcast, fleetVars, FleetInv, FleetTypes
<1>5. BusyAtOneJob'
  BY <1>1, <1>2, <1>3, <1>4, FewerJobs DEF FleetInv, FleetTypes, RoundTypes
<1> QED
  BY <1>1, <1>2, <1>5 DEF FleetInv, TasksHeld, InHand, LateIsOvertaken, ClaimsKnown, ClaimsApart

\* A claim is released, or a task completed: what the node was given beside it
\* is wiped.
LEMMA FreedKeepsFleet ==
  ASSUME FleetInv, (\E n \in Nodes : Release(n)) \/ (\E t \in Jobs : Complete(t))
  PROVE  FleetInv'
<1>1. UNCHANGED <<pending, round, accepted, overtaken>>
  BY DEF Release, Complete
<1>2. FleetTypes
  BY DEF FleetInv
<1>3. CASE \E n \in Nodes : Release(n)
  <2>1. PICK n \in Nodes : Release(n)
    BY <1>3
  <2>2. /\ claims' = [claims EXCEPT ![n] = None]
        /\ view' = [view EXCEPT ![n].busy = FALSE]
        /\ wiped' = wiped \cup (IF \E t \in Jobs : assignments[t] = n THEN {n} ELSE {})
        /\ UNCHANGED <<assignments, done>>
    BY <2>1 DEF Release
  <2>3. FleetTypes'
    BY <1>1, <1>2, <2>2 DEF FleetTypes, RoundTypes
  <2>4. \A m \in Nodes : claims'[m] = claims[m] \/ claims'[m] = None
    BY <1>2, <2>2 DEF FleetTypes
  <2>5. \A m \in Nodes : JobsOf(m)' \subseteq JobsOf(m)
    BY <2>2, <2>4 DEF JobsOf
  <2>6. ASSUME NEW m \in Nodes \ wiped', JobsOf(m)' # {}, view[m].busy
        PROVE  view'[m].busy
    <3>1. CASE m = n
      <4>1. claims'[n] = None
        BY <1>2, <2>2 DEF FleetTypes
      <4> QED
        BY <2>2, <2>6, <3>1, <4>1 DEF JobsOf
    <3>2. CASE m # n
      BY <1>2, <2>2, <2>6, <3>2 DEF FleetTypes
    <3> QED
      BY <3>1, <3>2
  <2>7. BusyAtOneJob'
    BY <1>1, <1>2, <2>2, <2>5, <2>6, FewerJobs DEF FleetInv, FleetTypes, RoundTypes
  <2>8. ClaimsKnown' /\ ClaimsApart'
    BY <1>1, <2>4 DEF FleetInv, ClaimsKnown, ClaimsApart
  <2> QED
    BY <1>1, <2>2, <2>3, <2>7, <2>8 DEF FleetInv, TasksHeld, InHand, LateIsOvertaken
<1>4. CASE \E t \in Jobs : Complete(t)
  <2>1. PICK t \in Jobs : Complete(t)
    BY <1>4
  <2>2. PICK n : n = assignments[t]
    OBVIOUS
  <2>3. /\ n \in Nodes /\ n # None
        /\ assignments' = [assignments EXCEPT ![t] = None]
        /\ view' = [view EXCEPT ![n].busy = FALSE]
        /\ claims' = [claims EXCEPT ![n] = None]
        /\ wiped' = wiped \cup (IF {u \in Jobs : assignments[u] = n} # {t} THEN {n} ELSE {})
        /\ done' = done \cup {t}
    BY <1>2, <2>1, <2>2 DEF Complete, FleetTypes
  <2>4. FleetTypes'
    BY <1>1, <1>2, <2>3 DEF FleetTypes, RoundTypes
  <2>5. /\ \A m \in Nodes : claims'[m] = claims[m] \/ claims'[m] = None
        /\ assignments'[t] = None
        /\ \A u \in Jobs : u # t => assignments'[u] = assignments[u]
    BY <1>2, <2>3 DEF FleetTypes
  <2>6. \A m \in Nodes : JobsOf(m)' \subseteq JobsOf(m)
    <3> SUFFICES ASSUME NEW m \in Nodes
                 PROVE  JobsOf(m)' \subseteq JobsOf(m)
      OBVIOUS
    <3>1. \A u \in Jobs : assignments'[u] = m => assignments[u] = m
      BY <2>5, FleetAssumption
    <3> QED
      BY <2>5, <3>1 DEF JobsOf
  <2>7. ASSUME NEW m \in Nodes \ wiped', JobsOf(m)' # {}, view[m].busy
        PROVE  view'[m].busy
    <3>1. CASE m = n
      <4>1. claims'[n] = None
        BY <1>2, <2>3 DEF FleetTypes
      <4>2. {u \in Jobs : assignments[u] = n} = {t}
        BY <2>3, <2>7, <3>1
      <4>3. \A u \in Jobs : assignments'[u] # n
        BY <2>3, <2>5, <4>2
      <4> QED
        BY <2>7, <3>1, <4>1, <4>3 DEF JobsOf
    <3>2. CASE m # n
      BY <1>2, <2>3, <2>7, <3>2 DEF FleetTypes
    <3> QED
      BY <3>1, <3>2
  <2>8. BusyAtOneJob'
    BY <1>1, <1>2, <2>3, <2>6, <2>7, FewerJobs DEF FleetInv, FleetTypes, RoundTypes
  <2>9. ClaimsKnown' /\ ClaimsApart'
    BY <1>1, <2>5 DEF FleetInv, ClaimsKnown, ClaimsApart
  <2>10. TasksHeld'
    BY <1>1, <1>2, <2>3, <2>5 DEF FleetInv, FleetTypes, TasksHeld, InHand
  <2> QED
    BY <1>1, <2>4, <2>8, <2>9, <2>10 DEF FleetInv, LateIsOvertaken
<1> QED
  BY <1>3, <1>4

\* A step that moves no job: what an exploration has yet to come to is what it
\* was, or less.
LEMMA SameJobs ==
  ASSUME BusyAtOneJob, UNCHANGED <<view, assignments, claims, wiped>>,
         round'.op = "explore" => UNCHANGED round
  PROVE  BusyAtOneJob'
<1>1. \A n : JobsOf(n)' = JobsOf(n)
  BY DEF JobsOf
<1> QED
  BY <1>1 DEF BusyAtOneJob, OneJob

\* A task is queued: if the round has had its last look at the queue, it is
\* overtaken.
LEMMA AddKeepsFleet ==
  ASSUME FleetInv, NEW t \in Jobs, AddTask(t)
  PROVE  FleetInv'
<1>1. /\ pending' = Append(pending, t)
      /\ accepted' = accepted \cup {t}
      /\ done' = done \ {t}
      /\ overtaken' = IF round.op \in {"closing", "auction"}
                      THEN overtaken \cup {t} ELSE overtaken \ {t}
      /\ UNCHANGED <<view, assignments, claims, round, wiped>>
  BY DEF AddTask
<1>2. FleetTypes
  BY DEF FleetInv
<1>3. pending' \in Seq(Jobs) /\ Members(pending)' = Members(pending) \cup {t}
  BY <1>1, <1>2, QueueMembers DEF FleetTypes
<1>4. FleetTypes'
  BY <1>1, <1>2, <1>3 DEF FleetTypes, RoundTypes
<1>5. TasksHeld'
  BY <1>1, <1>3 DEF FleetInv, TasksHeld, InHand, Members
<1>6. LateIsOvertaken'
  BY <1>1, <1>3 DEF FleetInv, LateIsOvertaken, Members
<1>7. BusyAtOneJob'
  BY <1>1, SameJobs DEF FleetInv
<1> QED
  BY <1>1, <1>4, <1>5, <1>6, <1>7 DEF FleetInv, ClaimsKnown, ClaimsApart

\* A round begins or comes to its end, and no task changes hands but between the
\* queue and the round.
LEMMA RoundKeepsFleet ==
  ASSUME FleetInv,
         TickBegin \/ TickDrained \/ TickClose \/ AuctionRead \/ ExploreEnd
  PROVE  FleetInv'
<1>1. UNCHANGED <<view, assignments, claims, accepted, done, overtaken, wiped>>
  BY DEF TickBegin, TickDrained, TickClose, AuctionRead, ExploreEnd
<1>2. FleetTypes
  BY DEF FleetInv
<1>3. <<>> \in Seq(Jobs) /\ Members(<<>>) = {}
  BY DEF Members
<1>4. TickBegin => /\ round.op = "none" /\ UNCHANGED pending
                   /\ round' = [op |-> "tick", todo |-> <<>>, kept |-> <<>>]
  BY DEF TickBegin, NoRound
<1>5. TickDrained => /\ round.op = "tick" /\ pending = <<>> /\ UNCHANGED pending
                     /\ round' = [op |-> "closing", todo |-> <<>>, kept |-> round.kept]
  BY <1>2 DEF TickDrained, FleetTypes, RoundTypes
<1>6. TickClose => /\ round.op = "closing" /\ pending' = round.kept
                   /\ round' = [op |-> "none", todo |-> <<>>, kept |-> <<>>]
  BY DEF TickClose, NoRound
<1>7. AuctionRead => /\ round.op = "none" /\ UNCHANGED pending
                     /\ round' = [op |-> "auction", todo |-> pending, kept |-> <<>>]
  <2>1. ASSUME NEW q, q = [NoRound EXCEPT !.op = "auction", !.todo = pending]
        PROVE  q = [op |-> "auction", todo |-> pending, kept |-> <<>>]
    BY <2>1 DEF NoRound
  <2> QED
    BY <2>1 DEF AuctionRead, NoRound
<1>8. ExploreEnd => /\ round.op = "explore" /\ UNCHANGED pending
                    /\ round' = [op |-> "none", todo |-> <<>>, kept |-> <<>>]
  BY DEF ExploreEnd, NoRound
<1>9. round'.op \in {"none", "tick", "closing", "auction"}
  BY <1>4, <1>5, <1>6, <1>7, <1>8
<1>10. FleetTypes'
  <2>1. pending' \in Seq(Jobs)
    BY <1>2, <1>4, <1>5, <1>6, <1>7, <1>8 DEF FleetTypes, RoundTypes
  <2>2. RoundTypes'
    <3>1. CASE TickBegin \/ TickClose \/ ExploreEnd
      <4>1. round'.op \in {"none", "tick"} /\ round' = [op |-> round'.op, todo |-> <<>>, kept |-> <<>>]
        BY <1>4, <1>6, <1>8, <3>1
      <4>2. round'.todo = <<>> /\ round'.kept = <<>>
        BY <4>1
      <4> QED
        BY <1>3, <4>1, <4>2 DEF RoundTypes
    <3>2. CASE TickDrained
      BY <1>2, <1>3, <1>5, <3>2 DEF FleetTypes, RoundTypes
    <3>3. CASE AuctionRead
      BY <1>2, <1>3, <1>7, <3>3 DEF FleetTypes, RoundTypes
    <3> QED
      BY <3>1, <3>2, <3>3
  <2> QED
    BY <1>1, <1>2, <2>1, <2>2 DEF FleetTypes
<1>11. TasksHeld'
  <2>1. TasksHeld /\ LateIsOvertaken /\ RoundTypes
    BY DEF FleetInv, FleetTypes
  <2>2. CASE TickBegin
    <3>1. InHand = {} /\ InHand' = {}
      BY <1>3, <1>4, <2>1, <2>2 DEF InHand, RoundTypes
    <3> QED
      BY <1>1, <1>4, <2>1, <2>2, <3>1 DEF TasksHeld
  <2>3. CASE TickDrained
    <3>1. InHand' = InHand
      BY <1>3, <1>5, <2>1, <2>3 DEF InHand, RoundTypes
    <3> QED
      BY <1>1, <1>5, <2>1, <2>3, <3>1 DEF TasksHeld
  <2>4. CASE TickClose
    <3>1. InHand = Members(pending') /\ Members(pending) \subseteq overtaken
      BY <1>6, <2>1, <2>4 DEF InHand, LateIsOvertaken
    <3> QED
      BY <1>1, <2>1, <3>1 DEF TasksHeld
  <2>5. CASE AuctionRead
    <3>1. InHand = {}
      BY <1>3, <1>7, <2>1, <2>5 DEF InHand, RoundTypes
    <3> QED
      BY <1>1, <1>7, <2>1, <2>5, <3>1 DEF TasksHeld
  <2>6. CASE ExploreEnd
    <3>1. InHand = {}
      BY <1>3, <1>8, <2>1, <2>6 DEF InHand, RoundTypes
    <3> QED
      BY <1>1, <1>8, <2>1, <2>6, <3>1 DEF TasksHeld
  <2> QED
    BY <2>2, <2>3, <2>4, <2>5, <2>6
<1>12. LateIsOvertaken'
  BY <1>3, <1>4, <1>5, <1>6, <1>7, <1>8 DEF LateIsOvertaken
<1>13. BusyAtOneJob'
  BY <1>1, <1>9, SameJobs DEF FleetInv
<1> QED
  BY <1>1, <1>9, <1>10, <1>11, <1>12, <1>13 DEF FleetInv, ClaimsKnown, ClaimsApart

\* A turn of the tick: the task at the head is placed with an idle node or kept.
LEMMA TurnKeepsFleet ==
  ASSUME FleetInv, TickTask
  PROVE  FleetInv'
<1>1. /\ round.op = "tick" /\ pending # <<>> /\ pending' = Tail(pending)
      /\ UNCHANGED <<claims, accepted, done, overtaken, wiped>>
  BY DEF TickTask
<1>2. FleetTypes
  BY DEF FleetInv
<1>3. PICK t : t = Head(pending)
  OBVIOUS
<1>4. t \in Jobs /\ pending' \in Seq(Jobs) /\ Members(pending) = {t} \cup Members(pending')
  BY <1>1, <1>2, <1>3, QueueMembers DEF FleetTypes
<1>5. /\ round = [op |-> "tick", todo |-> <<>>, kept |-> round.kept] /\ round.kept \in Seq(Jobs)
      /\ InHand = Members(round.kept)
  BY <1>1, <1>2 DEF FleetTypes, RoundTypes, InHand, Members
<1>6. CASE Eligible({t}) = {}
  <2>1. round' = [round EXCEPT !.kept = Append(round.kept, t)] /\ UNCHANGED <<view, assignments>>
    BY <1>3, <1>6 DEF TickTask
  <2>2. round' = [op |-> "tick", todo |-> <<>>, kept |-> Append(round.kept, t)]
    <3>1. ASSUME NEW r, NEW x, r = [op |-> "tick", todo |-> <<>>, kept |-> r.kept],
                 NEW q, q = [r EXCEPT !.kept = x]
          PROVE  q = [op |-> "tick", todo |-> <<>>, kept |-> x]
      BY <3>1
    <3>2. round = [op |-> "tick", todo |-> <<>>, kept |-> round.kept]
      BY <1>5
    <3> QED
      BY <2>1, <3>1, <3>2
  <2>3. round'.kept \in Seq(Jobs) /\ Members(round'.kept) = Members(round.kept) \cup {t}
    BY <1>4, <1>5, <2>2, QueueMembers
  <2>4. FleetTypes'
    BY <1>1, <1>2, <1>4, <2>1, <2>2, <2>3 DEF FleetTypes, RoundTypes
  <2>5. InHand' = InHand \cup {t}
    BY <1>5, <2>2, <2>3 DEF InHand
  <2>6. TasksHeld'
    BY <1>1, <1>4, <2>1, <2>5 DEF FleetInv, TasksHeld
  <2>7. BusyAtOneJob'
    BY <1>1, <2>1, <2>2, SameJobs DEF FleetInv
  <2> QED
    BY <1>1, <2>2, <2>4, <2>6, <2>7 DEF FleetInv, LateIsOvertaken, ClaimsKnown, ClaimsApart
<1>7. CASE Eligible({t}) # {}
  <2>1. PICK p \in Eligible({t}) :
          /\ view' = [view EXCEPT ![p[1]].busy = TRUE]
          /\ assignments' = [assignments EXCEPT ![t] = p[1]]
          /\ UNCHANGED round
    BY <1>3, <1>7 DEF TickTask
  <2>2. p[1] \in Nodes /\ p[2] = t /\ p[1] # None
    BY <1>2, EligibleFacts
  <2>3. FleetTypes'
    BY <1>1, <1>2, <1>4, <2>1, <2>2 DEF FleetTypes, RoundTypes
  <2>4. /\ view'[p[1]].busy /\ assignments'[t] = p[1]
        /\ \A n \in Nodes : view[n].busy => view'[n].busy
        /\ \A u \in Jobs : u = t \/ assignments'[u] = assignments[u]
    BY <1>2, <1>4, <2>1, <2>2 DEF FleetTypes
  <2>5. \A n \in Nodes \ wiped' : OneJob(n)' /\ (JobsOf(n)' # {} => view'[n].busy)
    <3>1. PICK A : A = {p}
      OBVIOUS
    <3>2. Awarded(A) /\ A \subseteq Eligible({t})
      BY <1>1, <2>2, <2>4, <3>1 DEF Awarded
    <3> QED
      BY <1>2, <3>2, AwardsKeepOneJob DEF FleetInv
  <2>6. BusyAtOneJob'
    BY <1>1, <2>1, <2>5 DEF BusyAtOneJob
  <2>7. TasksHeld'
    <3>1. InHand' = InHand
      BY <2>1 DEF InHand
    <3>2. accepted \subseteq Jobs
      BY <1>2 DEF FleetTypes
    <3> QED
      BY <1>1, <1>4, <2>2, <2>4, <3>1, <3>2 DEF FleetInv, TasksHeld
  <2> QED
    BY <1>1, <2>1, <2>3, <2>6, <2>7 DEF FleetInv, LateIsOvertaken, ClaimsKnown, ClaimsApart
<1> QED
  BY <1>6, <1>7

\* The awards of an auction: a task of the copy is placed, or goes back to the
\* queue.
LEMMA AuctionKeepsFleet ==
  ASSUME FleetInv, AuctionClose
  PROVE  FleetInv'
<1>1. /\ round.op = "auction" /\ round' = [op |-> "none", todo |-> <<>>, kept |-> <<>>]
      /\ UNCHANGED <<claims, accepted, done, overtaken, wiped>>
  BY DEF AuctionClose, NoRound
<1>2. FleetTypes /\ round.todo \in Seq(Jobs) /\ round.kept = <<>>
  BY <1>1 DEF FleetInv, FleetTypes, RoundTypes
<1>3. PICK A : A = Awards(Members(round.todo))
  OBVIOUS
<1>4. PICK placed : placed = {p[2] : p \in A}
  OBVIOUS
<1>5. /\ view' = [n \in Nodes |-> [view[n] EXCEPT !.busy = @ \/ \E p \in A : p[1] = n]]
      /\ assignments' = [t \in Jobs |->
           IF t \in placed THEN (CHOOSE p \in A : p[2] = t)[1] ELSE assignments[t]]
      /\ \E r \in Ascending({i \in DOMAIN round.todo : round.todo[i] \notin placed}) :
           pending' = [i \in DOMAIN r |-> round.todo[r[i]]]
  <2>1. view' = [n \in Nodes |-> [view[n] EXCEPT !.busy = @ \/ \E p \in A : p[1] = n]]
    BY <1>3 DEF AuctionClose
  <2>2. assignments' = [t \in Jobs |->
          IF t \in placed THEN (CHOOSE p \in A : p[2] = t)[1] ELSE assignments[t]]
    BY <1>3, <1>4 DEF AuctionClose
  <2>3. \E r \in Ascending({i \in DOMAIN round.todo : round.todo[i] \notin placed}) :
          pending' = [i \in DOMAIN r |-> round.todo[r[i]]]
    BY <1>3, <1>4 DEF AuctionClose
  <2> QED
    BY <2>1, <2>2, <2>3
<1>6. A \subseteq Eligible(Members(round.todo)) /\ \A p, q \in A : (p[1] = q[1] \/ p[2] = q[2]) => p = q
  BY <1>3, AwardsFacts
<1>7. \A p \in A : p[1] \in Nodes /\ p[2] \in Jobs /\ p[1] # None
  BY <1>2, <1>6, EligibleFacts
<1>8. /\ pending' \in Seq(Jobs)
      /\ \A t \in Members(round.todo) : t \in placed \/ t \in Members(pending')
  <2>1. PICK is : is = {i \in DOMAIN round.todo : round.todo[i] \notin placed}
    OBVIOUS
  <2>2. PICK r \in Ascending(is) : pending' = [i \in DOMAIN r |-> round.todo[r[i]]]
    BY <1>5, <2>1
  <2>3. is \subseteq DOMAIN round.todo
    BY <2>1
  <2>4. /\ [i \in DOMAIN r |-> round.todo[r[i]]] \in Seq(Jobs)
        /\ \A k \in is : \E i \in DOMAIN r : r[i] = k
    BY <1>2, <2>3, AscendingCovers
  <2>5. ASSUME NEW t \in Members(round.todo), t \notin placed
        PROVE  t \in Members(pending')
    <3>1. PICK k \in DOMAIN round.todo : round.todo[k] = t
      BY DEF Members
    <3>2. PICK i \in DOMAIN r : r[i] = k
      BY <2>1, <2>4, <2>5, <3>1
    <3> QED
      BY <2>2, <3>1, <3>2 DEF Members
  <2> QED
    BY <2>2, <2>4, <2>5
<1>9. /\ \A p \in A : assignments'[p[2]] = p[1]
      /\ \A t \in Jobs : (\E p \in A : p[2] = t) \/ assignments'[t] = assignments[t]
      /\ assignments' \in [Jobs -> Nodes \cup {None}]
  <2>1. ASSUME NEW p \in A
        PROVE  (CHOOSE q \in A : q[2] = p[2])[1] = p[1]
    BY <1>6
  <2>2. \A p \in A : assignments'[p[2]] = p[1]
    BY <1>4, <1>5, <1>7, <2>1
  <2>3. \A t \in Jobs : t \in placed => \E p \in A : p[2] = t
    BY <1>4
  <2>4. \A t \in Jobs : assignments'[t] \in Nodes \cup {None}
    BY <1>2, <1>5, <1>7, <2>2, <2>3 DEF FleetTypes
  <2>5. assignments' = [t \in Jobs |-> assignments'[t]]
    BY <1>5
  <2> QED
    BY <1>5, <2>2, <2>3, <2>4, <2>5
<1>10. /\ \A p \in A : view'[p[1]].busy
       /\ \A n \in Nodes : view[n].busy => view'[n].busy
       /\ view' \in [Nodes -> [online : BOOLEAN, busy : BOOLEAN]]
  <2>1. ASSUME NEW n \in Nodes
        PROVE  /\ view'[n] \in [online : BOOLEAN, busy : BOOLEAN]
               /\ view'[n].busy = (view[n].busy \/ \E p \in A : p[1] = n)
    <3>1. view[n] \in [online : BOOLEAN, busy : BOOLEAN]
      BY <1>2 DEF FleetTypes
    <3>2. view'[n] = [view[n] EXCEPT !.busy = view[n].busy \/ \E p \in A : p[1] = n]
      BY <1>5
    <3>3. (view[n].busy \/ \E p \in A : p[1] = n) \in BOOLEAN
      OBVIOUS
    <3> QED
      BY <3>1, <3>2, <3>3
  <2>2. view' = [n \in Nodes |-> view'[n]]
    BY <1>5
  <2> QED
    BY <1>7, <2>1, <2>2
<1>11. FleetTypes'
  BY <1>1, <1>2, <1>8, <1>9, <1>10 DEF FleetTypes, RoundTypes
<1>12. BusyAtOneJob'
  <2>1. \A n \in Nodes \ wiped' : OneJob(n)' /\ (JobsOf(n)' # {} => view'[n].busy)
    <3>1. Awarded(A)
      BY <1>1, <1>6, <1>9, <1>10 DEF Awarded
    <3> QED
      BY <1>2, <1>6, <3>1, AwardsKeepOneJob DEF FleetInv
  <2> QED
    BY <1>1, <2>1 DEF BusyAtOneJob
<1>13. TasksHeld'
  <2>1. InHand = Members(round.todo) /\ Members(pending) \subseteq Members(round.todo) \cup overtaken
    BY <1>1, <1>2 DEF FleetInv, LateIsOvertaken, InHand, Members
  <2>2. \A t \in Members(round.todo) : t \in Members(pending') \/ assignments'[t] # None
    BY <1>4, <1>7, <1>8, <1>9
  <2>3. accepted \subseteq Jobs
    BY <1>2 DEF FleetTypes
  <2>4. \A t \in Jobs : assignments[t] # None => assignments'[t] # None
    BY <1>7, <1>9
  <2> QED
    BY <1>1, <2>1, <2>2, <2>3, <2>4 DEF FleetInv, TasksHeld
<1> QED
  BY <1>1, <1>11, <1>12, <1>13 DEF FleetInv, LateIsOvertaken, ClaimsKnown, ClaimsApart

\* An exploration begins: its nodes are idle, each once, and it knows the claims.
LEMMA ExploreKeepsFleet ==
  ASSUME FleetInv, ExploreBegin
  PROVE  FleetInv'
<1>1. /\ round.op = "none"
      /\ UNCHANGED <<view, pending, assignments, claims, accepted, done, overtaken, wiped>>
  BY DEF ExploreBegin, NoRound
<1>2. FleetTypes
  BY DEF FleetInv
<1>3. PICK is : is = {i \in DOMAIN NodeOrder : Idle(NodeOrder[i])}
  OBVIOUS
<1>4. PICK frontiers \in SUBSET Targets, r \in Ascending(is) :
        round' = [op |-> "explore", todo |-> [i \in DOMAIN r |-> NodeOrder[r[i]]], kept |-> <<>>,
                  frontiers |-> frontiers, claimed |-> {claims[n] : n \in Nodes} \ {None}]
  BY <1>3 DEF ExploreBegin
<1>5. /\ round' = [op |-> round'.op, todo |-> round'.todo, kept |-> round'.kept,
                   frontiers |-> round'.frontiers, claimed |-> round'.claimed]
      /\ round'.op = "explore" /\ round'.kept = <<>> /\ round'.frontiers = frontiers
      /\ round'.todo = [i \in DOMAIN r |-> NodeOrder[r[i]]]
      /\ round'.claimed = {claims[n] : n \in Nodes} \ {None}
  BY <1>4
<1>6. /\ round'.todo \in Seq(Nodes)
      /\ \A i \in DOMAIN r : r[i] \in is
      /\ \A i, j \in DOMAIN r : r[i] = r[j] => i = j
  <2>1. is \subseteq DOMAIN NodeOrder
    BY <1>3
  <2> QED
    BY <1>5, <2>1, AscendingCovers, FleetAssumption
<1>7. FleetTypes'
  <2>1. round'.claimed \subseteq Targets
    BY <1>2, <1>5 DEF FleetTypes
  <2>2. <<>> \in Seq(Jobs)
    OBVIOUS
  <2>3. RoundTypes'
    BY <1>5, <1>6, <2>1, <2>2 DEF RoundTypes
  <2> QED
    BY <1>1, <1>2, <2>3 DEF FleetTypes
<1>8. TasksHeld'
  <2>1. Members(<<>>) = {}
    BY DEF Members
  <2>2. InHand = {}
    BY <1>1, <1>2, <2>1 DEF FleetTypes, RoundTypes, InHand
  <2> QED
    BY <1>1, <2>2 DEF FleetInv, TasksHeld
<1>9. BusyAtOneJob'
  <2>1. \A n : JobsOf(n)' = JobsOf(n)
    BY <1>1 DEF JobsOf
  <2>2. DOMAIN round'.todo = DOMAIN r /\ \A i \in DOMAIN r : round'.todo[i] = NodeOrder[r[i]]
    BY <1>5
  <2>3. \A i \in DOMAIN r : Idle(round'.todo[i]) /\ round'.todo[i] \in Nodes
    BY <1>3, <1>6, <2>2, FleetAssumption
  <2>4. \A i \in DOMAIN r : JobsOf(round'.todo[i]) # {} => round'.todo[i] \in wiped
    BY <2>3 DEF FleetInv, BusyAtOneJob, Idle
  <2>5. \A i, j \in DOMAIN r : round'.todo[i] = round'.todo[j] => i = j
    BY <1>3, <1>6, <2>2, FleetAssumption
  <2>6. \A n \in Nodes \ wiped' : OneJob(n)' /\ (JobsOf(n)' # {} => view'[n].busy)
    BY <1>1, <2>1 DEF FleetInv, BusyAtOneJob, OneJob
  <2>7. \A n \in Nodes : n \in Members(round'.todo) /\ JobsOf(n)' # {} => n \in wiped'
    BY <1>1, <2>1, <2>2, <2>4 DEF Members
  <2> QED
    BY <2>2, <2>5, <2>6, <2>7 DEF BusyAtOneJob
<1>10. ClaimsKnown' /\ ClaimsApart'
  BY <1>1, <1>5 DEF FleetInv, ClaimsKnown, ClaimsApart
<1> QED
  BY <1>1, <1>5, <1>7, <1>8, <1>9, <1>10 DEF FleetInv, LateIsOvertaken

\* The next node of an exploration: it has no job, and what it gets is apart
\* from every claim.
LEMMA NodeKeepsFleet ==
  ASSUME FleetInv, ExploreNode
  PROVE  FleetInv'
<1>1. /\ round.op = "explore" /\ round.todo # <<>>
      /\ UNCHANGED <<pending, assignments, accepted, done, overtaken, wiped>>
  BY DEF ExploreNode
<1>2. FleetTypes
  BY DEF FleetInv
<1>3. /\ round = [op |-> "explore", todo |-> round.todo, kept |-> round.kept,
                  frontiers |-> round.frontiers, claimed |-> round.claimed]
      /\ round.todo \in Seq(Nodes) /\ round.kept = <<>>
      /\ round.frontiers \subseteq Targets /\ round.claimed \subseteq Targets
  BY <1>1, <1>2 DEF FleetTypes, RoundTypes
<1>4. PICK n : n = Head(round.todo)
  OBVIOUS
<1>5. /\ n \in Nodes /\ Tail(round.todo) \in Seq(Nodes)
      /\ n \notin Members(Tail(round.todo))
      /\ \A m \in Nodes : m \in Members(Tail(round.todo)) /\ JobsOf(m) # {} => m \in wiped
      /\ \A i, j \in DOMAIN Tail(round.todo) :
           Tail(round.todo)[i] = Tail(round.todo)[j] => i = j
      /\ JobsOf(n) # {} => n \in wiped
  <2>1. /\ n = round.todo[1] /\ Tail(round.todo) \in Seq(Nodes)
        /\ Len(round.todo) \in Nat /\ Len(round.todo) >= 1
        /\ Len(Tail(round.todo)) = Len(round.todo) - 1
        /\ \A i \in 1 .. Len(Tail(round.todo)) : Tail(round.todo)[i] = round.todo[i + 1]
    BY <1>1, <1>3, <1>4, HeadTailProperties
  <2>2. DOMAIN round.todo = 1 .. Len(round.todo) /\ DOMAIN Tail(round.todo) = 1 .. Len(Tail(round.todo))
    BY <1>3, <2>1
  <2>3. /\ \A m \in Nodes : m \in Members(round.todo) /\ JobsOf(m) # {} => m \in wiped
        /\ \A i, j \in DOMAIN round.todo : round.todo[i] = round.todo[j] => i = j
    BY <1>1 DEF FleetInv, BusyAtOneJob
  <2>4. /\ 1 \in DOMAIN round.todo
        /\ \A i \in DOMAIN Tail(round.todo) :
             i + 1 \in DOMAIN round.todo /\ i + 1 # 1 /\ Tail(round.todo)[i] = round.todo[i + 1]
    BY <2>1, <2>2
  <2>5. \A i, j \in DOMAIN Tail(round.todo) : Tail(round.todo)[i] = Tail(round.todo)[j] => i = j
    <3>1. \A i, j \in DOMAIN Tail(round.todo) : i + 1 = j + 1 => i = j
      BY <2>2
    <3> QED
      BY <2>3, <2>4, <3>1
  <2>6. n \in Nodes /\ n \in Members(round.todo) /\ Members(Tail(round.todo)) \subseteq Members(round.todo)
    BY <1>1, <1>3, <1>4, QueueMembers
  <2>7. n \notin Members(Tail(round.todo))
    BY <2>1, <2>3, <2>4 DEF Members
  <2> QED
    BY <2>1, <2>3, <2>5, <2>6, <2>7
<1>6. Members(<<>>) = {} /\ <<>> \in Seq(Jobs)
  BY DEF Members
<1>7. ASSUME NEW claimed, claimed \subseteq Targets,
             round' = [op |-> "explore", todo |-> Tail(round.todo), kept |-> <<>>,
                       frontiers |-> round.frontiers, claimed |-> claimed]
      PROVE  RoundTypes' /\ InHand' = InHand /\ LateIsOvertaken'
  <2>1. /\ round'.op = "explore" /\ round'.todo = Tail(round.todo) /\ round'.kept = <<>>
        /\ round'.frontiers = round.frontiers /\ round'.claimed = claimed
    BY <1>7
  <2>2. round' = [op |-> round'.op, todo |-> round'.todo, kept |-> round'.kept,
                  frontiers |-> round'.frontiers, claimed |-> round'.claimed]
    BY <1>7, <2>1
  <2>3. RoundTypes'
    BY <1>3, <1>5, <1>6, <1>7, <2>1, <2>2 DEF RoundTypes
  <2> QED
    BY <1>1, <1>3, <2>1, <2>3 DEF InHand, LateIsOvertaken
<1>8. CASE /\ round' = [round EXCEPT !.todo = Tail(round.todo)]
           /\ UNCHANGED <<view, claims, outbox>>
  <2>1. round' = [op |-> "explore", todo |-> Tail(round.todo), kept |-> <<>>,
                  frontiers |-> round.frontiers, claimed |-> round.claimed]
    <3>1. ASSUME NEW r, r = [op |-> "explore", todo |-> r.todo, kept |-> <<>>,
                             frontiers |-> r.frontiers, claimed |-> r.claimed],
                 NEW x, NEW q, q = [r EXCEPT !.todo = x]
          PROVE  q = [op |-> "explore", todo |-> x, kept |-> <<>>,
                      frontiers |-> r.frontiers, claimed |-> r.claimed]
      BY <3>1
    <3> QED
      BY <1>3, <1>8, <3>1
  <2>2. RoundTypes' /\ InHand' = InHand /\ LateIsOvertaken'
    BY <1>3, <1>7, <2>1
  <2>3. FleetTypes' /\ TasksHeld'
    BY <1>1, <1>2, <1>8, <2>2 DEF FleetInv, FleetTypes, TasksHeld
  <2>4. \A m : JobsOf(m)' = JobsOf(m)
    BY <1>1, <1>8 DEF JobsOf
  <2>5. round'.todo = Tail(round.todo) /\ round'.claimed = round.claimed
    BY <2>1
  <2>6. BusyAtOneJob'
    <3>1. \A m \in Nodes \ wiped' : OneJob(m)' /\ (JobsOf(m)' # {} => view'[m].busy)
      BY <1>1, <1>8, <2>4 DEF FleetInv, BusyAtOneJob, OneJob
    <3>2. \A m \in Nodes : m \in Members(round'.todo) /\ JobsOf(m)' # {} => m \in wiped'
      BY <1>1, <1>5, <2>4, <2>5
    <3> QED
      BY <1>5, <2>5, <3>1, <3>2 DEF BusyAtOneJob
  <2>7. ClaimsKnown' /\ ClaimsApart'
    BY <1>1, <1>8, <2>5 DEF FleetInv, ClaimsKnown, ClaimsApart
  <2> QED
    BY <2>2, <2>3, <2>6, <2>7 DEF FleetInv
<1>9. ASSUME NEW f \in round.frontiers, \A c \in round.claimed : <<f, c>> \notin Near,
             view' = [view EXCEPT ![n].busy = TRUE],
             claims' = [claims EXCEPT ![n] = f],
             round' = [round EXCEPT !.todo = Tail(round.todo), !.claimed = round.claimed \cup {f}]
      PROVE  FleetInv'
  <2>1. round' = [op |-> "explore", todo |-> Tail(round.todo), kept |-> <<>>,
                  frontiers |-> round.frontiers, claimed |-> round.claimed \cup {f}]
    <3>1. ASSUME NEW r, r = [op |-> "explore", todo |-> r.todo, kept |-> <<>>,
                             frontiers |-> r.frontiers, claimed |-> r.claimed],
                 NEW x, NEW y, NEW q, q = [r EXCEPT !.todo = x, !.claimed = y]
          PROVE  q = [op |-> "explore", todo |-> x, kept |-> <<>>,
                      frontiers |-> r.frontiers, claimed |-> y]
      <4>1. DOMAIN r = {"op", "todo", "kept", "frontiers", "claimed"}
        BY <3>1
      <4>2. /\ DOMAIN q = DOMAIN r /\ q = [i \in DOMAIN q |-> q[i]]
            /\ q.op = r.op /\ q.todo = x /\ q.kept = r.kept
            /\ q.frontiers = r.frontiers /\ q.claimed = y
        BY <3>1, <4>1
      <4>3. r.op = "explore" /\ r.kept = <<>>
        BY <3>1
      <4> QED
        BY <4>1, <4>2, <4>3
    <3> QED
      BY <1>3, <1>9, <3>1
  <2>2. f \in Targets /\ f # None
    BY <1>3, FleetAssumption
  <2>3. RoundTypes' /\ InHand' = InHand /\ LateIsOvertaken'
    BY <1>3, <1>7, <2>1, <2>2
  <2>4. FleetTypes'
    BY <1>1, <1>2, <1>5, <1>9, <2>2, <2>3 DEF FleetTypes
  <2>5. TasksHeld'
    BY <1>1, <2>3 DEF FleetInv, TasksHeld
  <2>6. /\ claims'[n] = f /\ view'[n].busy
        /\ \A m \in Nodes : m # n => claims'[m] = claims[m] /\ view'[m] = view[m]
    BY <1>2, <1>5, <1>9 DEF FleetTypes
  <2>7. \A m \in Nodes : m # n => JobsOf(m)' = JobsOf(m)
    BY <1>1, <2>6 DEF JobsOf
  <2>8. JobsOf(n) = {} => JobsOf(n)' = {f}
    BY <1>1, <2>2, <2>6 DEF JobsOf
  <2>9. round'.todo = Tail(round.todo) /\ round'.claimed = round.claimed \cup {f}
    BY <2>1
  <2>10. BusyAtOneJob'
    <3>1. ASSUME NEW m \in Nodes, m \notin wiped'
          PROVE  OneJob(m)' /\ (JobsOf(m)' # {} => view'[m].busy)
      <4>1. CASE m = n
        BY <1>1, <1>5, <2>6, <2>8, <3>1, <4>1 DEF OneJob
      <4>2. CASE m # n
        BY <1>1, <2>6, <2>7, <3>1, <4>2 DEF FleetInv, BusyAtOneJob, OneJob
      <4> QED
        BY <4>1, <4>2
    <3>2. \A m \in Nodes : m \in Members(round'.todo) /\ JobsOf(m)' # {} => m \in wiped'
      BY <1>1, <1>5, <2>7, <2>9
    <3> QED
      BY <1>5, <2>9, <3>1, <3>2 DEF BusyAtOneJob
  <2>11. ClaimsKnown'
    BY <1>1, <2>6, <2>9 DEF FleetInv, ClaimsKnown
  <2>12. ClaimsApart'
    <3>1. \A m \in Nodes : m # n /\ claims[m] # None =>
            <<f, claims[m]>> \notin Near /\ <<claims[m], f>> \notin Near
      BY <1>1, <1>2, <1>9, <2>2, FleetAssumption DEF FleetInv, FleetTypes, ClaimsKnown
    <3> QED
      BY <2>6, <3>1 DEF FleetInv, ClaimsApart
  <2> QED
    BY <2>3, <2>4, <2>5, <2>10, <2>11, <2>12 DEF FleetInv
<1> QED
  BY <1>4, <1>8, <1>9 DEF ExploreNode

\* Every step keeps the invariant.
LEMMA FleetStep ==
  ASSUME FleetInv, [FleetNext]_fleetVars
  PROVE  FleetInv'
BY HeardKeepsFleet, FreedKeepsFleet, AddKeepsFleet, RoundKeepsFleet, TurnKeepsFleet,
   AuctionKeepsFleet, ExploreKeepsFleet, NodeKeepsFleet DEF FleetNext, RoundStep

\* Work is given out once, to one node, and never forgotten: a queued task waits,
\* is assigned or done, or was queued over by a round past its last look at the
\* queue; a node has a second job only after its `busy` was cleared under the
\* first; and claims are apart (tick, auction_tick and assign_exploration).
THEOREM AssignmentsHoldHolds == FleetSpec => []AssignmentsHold
<1>1. FleetInit => FleetInv
  <2> SUFFICES ASSUME FleetInit
               PROVE  FleetInv
    OBVIOUS
  <2>1. round = [op |-> "none", todo |-> <<>>, kept |-> <<>>]
    BY DEF FleetInit, NoRound
  <2>2. FleetTypes
    BY <2>1 DEF FleetInit, FleetTypes, RoundTypes
  <2>3. \A n \in Nodes : JobsOf(n) = {}
    <3> SUFFICES ASSUME NEW n \in Nodes
                 PROVE  JobsOf(n) = {}
      OBVIOUS
    <3>1. (\A t \in Jobs : assignments[t] # n) /\ claims[n] = None
      BY FleetAssumption DEF FleetInit
    <3> QED
      BY <3>1 DEF JobsOf
  <2>4. BusyAtOneJob
    BY <2>1, <2>3 DEF BusyAtOneJob, OneJob
  <2> QED
    BY <2>1, <2>2, <2>4
       DEF FleetInit, FleetInv, TasksHeld, LateIsOvertaken, ClaimsKnown, ClaimsApart
<1>2. FleetInv /\ [FleetNext]_fleetVars => FleetInv'
  BY FleetStep
<1>3. FleetInv => AssignmentsHold
  <2> SUFFICES ASSUME FleetInv
               PROVE  AssignmentsHold
    OBVIOUS
  <2>1. TasksKept
    <3>1. InHand \subseteq Members(round.todo) \cup Members(round.kept)
      BY DEF InHand
    <3> QED
      BY <3>1 DEF FleetInv, TasksHeld, TasksKept, Waiting
  <2>2. OneJobPerNode
    <3> SUFFICES ASSUME NEW n \in Nodes, n \notin wiped
                 PROVE  ~(Cardinality(JobsOf(n)) > 1)
      BY DEF OneJobPerNode
    <3>1. OneJob(n)
      BY DEF FleetInv, BusyAtOneJob
    <3>2. CASE JobsOf(n) = {}
      BY <3>2, FS_EmptySet
    <3>3. ASSUME NEW a \in JobsOf(n)
          PROVE  ~(Cardinality(JobsOf(n)) > 1)
      <4>1. JobsOf(n) = {a}
        BY <3>1, <3>3 DEF OneJob
      <4>2. Cardinality({a}) = 1
        BY FS_Singleton
      <4> QED
        BY <4>1, <4>2
    <3> QED
      BY <3>2, <3>3
  <2> QED
    BY <2>1, <2>2 DEF FleetInv, AssignmentsHold
<1> QED
  BY <1>1, <1>2, <1>3, PTL DEF FleetSpec
================================================================================
