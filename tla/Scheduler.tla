------------------------------ MODULE Scheduler ------------------------------
(***************************************************************************)
(* The task scheduler (crates/obc-scheduler/src/lib.rs) and the agent's    *)
(* `schedule` tool in front of it (crates/obc-tools/src/builtin/           *)
(* schedule.rs).  One loop reads the due tasks, and for each of them marks *)
(* it as run and awaits its dispatch; tool calls change the same table     *)
(* between any two of those steps, and between their own reads and writes. *)
(***************************************************************************)
EXTENDS Integers, Sequences, FiniteSets

CONSTANTS TaskIds,     \* ids of scheduled tasks
          Kinds,       \* the schedules a create may ask for
          MaxTime,     \* bound: the clock, in seconds
          MaxCreates,  \* bound: rows ever created
          MaxFaults    \* bound: failed marks and process ends, together

ASSUME SchedulerAssumption ==
  /\ IsFiniteSet(TaskIds)
  /\ MaxTime \in Nat /\ MaxCreates \in Nat /\ MaxFaults \in Nat

Never == -1                                  \* next_run = NULL
NoTask == [gen |-> 0]                        \* no row of that id

VARIABLES clock,    \* now_ts()
          rows,     \* the table scheduled_tasks, by id
          loop,     \* run_scheduler_loop: what it read and has yet to do
          toolCall, \* a call of the schedule tool between its read and its write
          creates,  \* rows created so far; the number of a row is its `gen`
          faults,
          runs,     \* gen -> dispatches begun; 2 stands for more
          marks,    \* gens advance() was applied to and stored
          rearmed,  \* gens whose mark failed or whose stale copy was written back
          lost      \* gens a process end or a stale due list took the dispatch from

schedulerVars ==
  <<clock, rows, loop, toolCall, creates, faults, runs, marks, rearmed, lost>>

Gens == 1 .. MaxCreates

IdleLoop == [at |-> "wait", due |-> <<>>, read |-> NoTask]
NoCall == [task |-> NoTask]

(* TaskKind::next_run_after_in: a cron expression is the set of seconds at *)
(* which it fires.                                                         *)
NextRunAfter(kind, after) ==
  CASE kind.type = "interval" -> after + kind.secs
    [] kind.type = "oneshot"  -> IF kind.at > after THEN kind.at ELSE Never
    [] kind.type = "cron"     ->
         LET later == {s \in kind.slots : s > after}
         IN IF later = {} THEN Never ELSE CHOOSE s \in later : \A u \in later : s <= u

Repeats(kind) == kind.type # "oneshot"

(* TaskKind::validate; a cron expression that does not parse is not in Kinds. *)
Valid(kind) ==
  /\ kind.type = "interval" => kind.secs > 0
  /\ kind.type = "oneshot" => kind.at > clock

(* Mutant: a run that does not move next_run. *)
AdvanceKeepsNext(task) == [task EXCEPT !.enabled = task.enabled /\ Repeats(task.kind)]

(* ScheduledTask::advance. *)
Advance(task) ==
  [task EXCEPT !.next = IF Repeats(task.kind) THEN NextRunAfter(task.kind, clock) ELSE Never,
               !.enabled = task.enabled /\ Repeats(task.kind)]

(* The WHERE clause of due_tasks. *)
IsDue(task) ==
  /\ task # NoTask
  /\ task.enabled
  /\ task.next # Never
  /\ task.next <= clock

DueIds == {id \in TaskIds : IsDue(rows[id])}

(* due_tasks: the due rows, copied, in the order of next_run. *)
DueLists ==
  {s \in [1 .. Cardinality(DueIds) -> DueIds] :
     /\ \A i, j \in DOMAIN s : s[i] = s[j] => i = j
     /\ \A i, j \in DOMAIN s : i < j => rows[s[i]].next <= rows[s[j]].next}

SchedulerInit ==
  /\ clock = 0
  /\ rows = [id \in TaskIds |-> NoTask]
  /\ loop = IdleLoop
  /\ toolCall = NoCall
  /\ creates = 0
  /\ faults = 0
  /\ runs = [g \in Gens |-> 0]
  /\ marks = {}
  /\ rearmed = {}
  /\ lost = {}

SchedulerTypeOK ==
  /\ clock \in 0 .. MaxTime
  /\ \A id \in TaskIds :
       rows[id] = NoTask \/ (rows[id].gen \in 1 .. creates /\ rows[id].kind \in Kinds)
  /\ loop.at \in {"wait", "mark", "store", "dispatch", "running"}
  /\ creates \in 0 .. MaxCreates
  /\ faults \in 0 .. MaxFaults
  /\ marks \cup rearmed \cup lost \subseteq Gens

Passing ==
  /\ clock < MaxTime
  /\ clock' = clock + 1
  /\ UNCHANGED <<rows, loop, toolCall, creates, faults, runs, marks, rearmed, lost>>

----------------------------------------------------------------------------
(* The loop. *)

(* interval.tick() and due_tasks(now). *)
ReadDue ==
  /\ loop.at = "wait"
  /\ DueIds # {}
  /\ \E s \in DueLists :
       loop' = [at |-> "mark", due |-> [i \in DOMAIN s |-> [id |-> s[i], gen |-> rows[s[i]].gen]],
                read |-> NoTask]
  /\ UNCHANGED <<clock, rows, toolCall, creates, faults, runs, marks, rearmed, lost>>

Current == Head(loop.due)

(* mark_run, under the first lock: get_task of the id.  A task that is gone *)
(* is not marked, and is dispatched all the same.                          *)
MarkRead ==
  /\ loop.at = "mark"
  /\ loop' = [loop EXCEPT !.at = IF rows[Current.id] = NoTask THEN "dispatch" ELSE "store",
                          !.read = rows[Current.id]]
  /\ UNCHANGED <<clock, rows, toolCall, creates, faults, runs, marks, rearmed, lost>>

(* mark_run, under the second lock: the UPDATE of last_run, next_run,      *)
(* run_count and enabled of the row of that id, whatever it has become.    *)
MarkStore ==
  /\ loop.at = "store"
  /\ LET id == Current.id
         advanced == Advance(loop.read)
     IN IF rows[id] = NoTask
        THEN UNCHANGED <<rows, marks, lost>>
        ELSE /\ rows' = [rows EXCEPT ![id].next = advanced.next,
                                     ![id].enabled = advanced.enabled]
             /\ marks' = marks \cup {rows[id].gen}
             /\ lost' = lost \cup ({rows[id].gen} \ {Current.gen})
  /\ loop' = [loop EXCEPT !.at = "dispatch", !.read = NoTask]
  /\ UNCHANGED <<clock, toolCall, creates, faults, runs, rearmed>>

(* mark_run fails: logged, and the task is dispatched. *)
MarkFails ==
  /\ loop.at \in {"mark", "store"}
  /\ faults < MaxFaults
  /\ faults' = faults + 1
  /\ rearmed' = rearmed \cup {Current.gen}
  /\ loop' = [loop EXCEPT !.at = "dispatch", !.read = NoTask]
  /\ UNCHANGED <<clock, rows, toolCall, creates, runs, marks, lost>>

(* Mutant: the row is looked at again, and a task no longer enabled is skipped. *)
DispatchIfEnabled ==
  /\ loop.at = "dispatch"
  /\ LET row == rows[Current.id]
     IN runs' = [runs EXCEPT ![Current.gen] =
                   IF row # NoTask /\ row.enabled /\ @ < 2 THEN @ + 1 ELSE @]
  /\ loop' = [loop EXCEPT !.at = "running"]
  /\ UNCHANGED <<clock, rows, toolCall, creates, faults, marks, rearmed, lost>>

(* on_dispatch(dispatch).await begins with the copy the due list holds... *)
Dispatch ==
  /\ loop.at = "dispatch"
  /\ runs' = [runs EXCEPT ![Current.gen] = IF @ < 2 THEN @ + 1 ELSE @]
  /\ loop' = [loop EXCEPT !.at = "running"]
  /\ UNCHANGED <<clock, rows, toolCall, creates, faults, marks, rearmed, lost>>

(* ...and ends: the next of the list, or the next tick. *)
DispatchEnds ==
  /\ loop.at = "running"
  /\ loop' = IF Len(loop.due) > 1
             THEN [at |-> "mark", due |-> Tail(loop.due), read |-> NoTask]
             ELSE IdleLoop
  /\ UNCHANGED <<clock, rows, toolCall, creates, faults, runs, marks, rearmed, lost>>

(* The process ends: the table stays, the list and a call in hand are gone. *)
Restart ==
  /\ faults < MaxFaults
  /\ faults' = faults + 1
  /\ lost' = lost \cup (IF loop.at = "dispatch" THEN {Current.gen} ELSE {})
  /\ loop' = IdleLoop
  /\ toolCall' = NoCall
  /\ UNCHANGED <<clock, rows, creates, runs, marks, rearmed>>

----------------------------------------------------------------------------
(* The schedule tool. *)

(* create: INSERT OR REPLACE of a valid schedule that has a next run. *)
Create(id, kind) ==
  /\ creates < MaxCreates
  /\ Valid(kind)
  /\ NextRunAfter(kind, clock) # Never
  /\ creates' = creates + 1
  /\ rows' = [rows EXCEPT ![id] =
                [gen |-> creates + 1, kind |-> kind, enabled |-> TRUE,
                 next |-> NextRunAfter(kind, clock)]]
  /\ UNCHANGED <<clock, loop, toolCall, faults, runs, marks, rearmed, lost>>

(* pause: set_enabled(id, false).  Of what lookup() read, pause and remove *)
(* use the id alone, so their read is no step of its own.                  *)
Pause(id) ==
  /\ rows[id] # NoTask
  /\ rows' = [rows EXCEPT ![id].enabled = FALSE]
  /\ UNCHANGED <<clock, loop, toolCall, creates, faults, runs, marks, rearmed, lost>>

Remove(id) ==
  /\ rows[id] # NoTask
  /\ rows' = [rows EXCEPT ![id] = NoTask]
  /\ UNCHANGED <<clock, loop, toolCall, creates, faults, runs, marks, rearmed, lost>>

(* lookup: the copy a resume works on, in which it sets enabled. *)
Lookup(id) ==
  /\ toolCall = NoCall
  /\ rows[id] # NoTask
  /\ toolCall' = [id |-> id, task |-> [rows[id] EXCEPT !.enabled = TRUE]]
  /\ UNCHANGED <<clock, rows, loop, creates, faults, runs, marks, rearmed, lost>>

(* resume: the copy, enabled and re-armed from now when it repeats, is     *)
(* written over whatever the table holds.                                  *)
Resume ==
  /\ toolCall # NoCall
  /\ LET task == toolCall.task
         id == toolCall.id
     IN /\ rows' = [rows EXCEPT ![id] =
                      [task EXCEPT !.next = IF Repeats(task.kind)
                                            THEN NextRunAfter(task.kind, clock) ELSE @]]
        /\ rearmed' = rearmed \cup
             (IF rows[id].gen = task.gen /\ rows[id].next = task.next THEN {} ELSE {task.gen})
  /\ toolCall' = NoCall
  /\ UNCHANGED <<clock, loop, creates, faults, runs, marks, lost>>

LoopNext ==
  ReadDue \/ MarkRead \/ MarkStore \/ MarkFails \/ Dispatch \/ DispatchEnds

SchedulerNext ==
  \/ Passing
  \/ LoopNext
  \/ Restart
  \/ \E id \in TaskIds, kind \in Kinds : Create(id, kind)
  \/ \E id \in TaskIds : Pause(id) \/ Remove(id) \/ Lookup(id)
  \/ Resume

(* The loop's task is polled, the clock runs and a dispatch returns; no    *)
(* tool call, failure or restart is owed.                                  *)
LoopStep == ReadDue \/ MarkRead \/ MarkStore \/ Dispatch \/ DispatchEnds

----------------------------------------------------------------------------
(* A one-shot task is dispatched at most once over the life of its row,    *)
(* through process ends, pauses and slow dispatches; only a mark that      *)
(* failed, or a resume that writes back a copy it read before the row      *)
(* changed, makes it run again (lib.rs:710, "Advance before running").     *)
OneShotOnce ==
  \A id \in TaskIds :
    rows[id] # NoTask /\ ~Repeats(rows[id].kind) /\ runs[rows[id].gen] > 1
      => rows[id].gen \in rearmed

(* A task that is recorded as run has been dispatched, is about to be, or  *)
(* lost its dispatch in one of two ways: the process ended between mark    *)
(* and dispatch (lib.rs:719), or the row replaced an older one whose copy  *)
(* was waiting in the due list, and was marked in its place (lib.rs:685).  *)
MarkedHasRun ==
  \A g \in marks :
    \/ runs[g] > 0
    \/ loop.at = "dispatch" /\ Current.gen = g
    \/ g \in lost

(* The state is well formed, a task that was marked runs, and a one-shot runs   *)
(* once.                                                                       *)
RunsMatchMarks == SchedulerTypeOK /\ OneShotOnce /\ MarkedHasRun

(* A due task does not stay due: the loop comes to it, whatever else is    *)
(* dispatched before it (or a tool call takes it out of the table's due    *)
(* rows).                                                                  *)
DueIsServed ==
  \A id \in TaskIds : IsDue(rows[id]) ~> ~IsDue(rows[id])
=============================================================================
