------------------------------- MODULE Mission -------------------------------
(***************************************************************************)
(* The mission runner (crates/obc-mission/src/lib.rs) over the navigation  *)
(* controller (crates/obc-navigation/src/lib.rs) and the gated drive       *)
(* (crates/obc-movement/src/lib.rs).  Four callers share them: the mission *)
(* tick, the navigation loop, a mission abort, and the `navigate` tool.    *)
(* What is decided under a lock is acted on after it is released.          *)
(***************************************************************************)
EXTENDS Integers, Sequences

CONSTANTS Missions,   \* missions: sequences of steps
          Places,     \* positions a goal may name
          HasGrid,    \* an occupancy grid is configured: goals are planned
          MaxStarts,  \* bound: missions started
          MaxMeddling \* bound: goals set by the tool, fixes lost, refused commands

Steps == [kind : {"navigate"}, to : Places]
           \cup [kind : {"wait", "effect", "await"}]

ASSUME MissionAssumption == \A m \in Missions : m \in Seq(Steps)

VARIABLES mission,   \* the steps of the loaded mission
          runner,    \* status, step and entered, under one lock
          facts,     \* what guards and awaited states read in the world memory
          waited,    \* the Wait of the current step is over
          path,      \* waypoints still to reach
          robot,     \* drive: on or not; at: where; fix: a pose is known
          ticking,   \* the mission tick between its decision and its return
          aborting,  \* an abort between its mark and its return
          steering,  \* a navigation step between its read and its commands
          starts, meddling,
          late,      \* a goal was set by a step entered before the mission stopped,
                     \* or by the tool
          crossed    \* a drive command was overtaken by a halt, or refused

missionVars == <<mission, runner, facts, waited, path, robot, ticking, aborting,
                 steering, starts, meddling, late, crossed>>

Running == runner.status = "running"

Idling == [at |-> "none"]

MissionInit ==
  /\ mission = <<>>
  /\ runner = [status |-> "idle", step |-> 1, entered |-> FALSE]
  /\ facts = {}
  /\ waited = FALSE
  /\ path = <<>>
  /\ robot \in [drive : {FALSE}, at : {"base"}, fix : BOOLEAN]
  /\ ticking = Idling
  /\ aborting = Idling
  /\ steering = Idling
  /\ starts = 0
  /\ meddling = 0
  /\ late = FALSE
  /\ crossed = FALSE

(* start: the mission is replaced where it stands; a goal is left as it is. *)
StartMission(m) ==
  /\ starts < MaxStarts
  /\ starts' = starts + 1
  /\ mission' = m
  /\ runner' = [status |-> IF m = <<>> THEN "completed" ELSE "running",
                step |-> 1, entered |-> FALSE]
  /\ waited' = FALSE
  /\ UNCHANGED <<facts, path, robot, ticking, aborting, steering, meddling, late, crossed>>

(* step_complete. *)
StepComplete(s) ==
  CASE s.kind = "navigate" -> path = <<>>
    [] s.kind = "wait"     -> waited
    [] s.kind = "effect"   -> TRUE
    [] s.kind = "await"    -> "awaited" \in facts

----------------------------------------------------------------------------
(* tick: the decision under the lock; guards come first. *)

TickAborts ==
  /\ ticking = Idling
  /\ Running
  /\ "guard" \in facts
  /\ runner' = [runner EXCEPT !.status = "aborted"]
  /\ ticking' = [at |-> "halt"]
  /\ UNCHANGED <<mission, facts, waited, path, robot, aborting, steering, starts, meddling, late, crossed>>

TickEnters ==
  /\ ticking = Idling
  /\ Running
  /\ "guard" \notin facts
  /\ runner.step <= Len(mission)
  /\ ~runner.entered
  /\ runner' = [runner EXCEPT !.entered = TRUE]
  /\ waited' = FALSE
  /\ ticking' = [at |-> "enter", step |-> mission[runner.step]]
  /\ UNCHANGED <<mission, facts, path, robot, aborting, steering, starts, meddling, late,
                 crossed>>

TickAdvances ==
  /\ ticking = Idling
  /\ Running
  /\ "guard" \notin facts
  /\ runner.step <= Len(mission)
  /\ runner.entered
  /\ StepComplete(mission[runner.step])
  /\ runner' = [runner EXCEPT !.step = @ + 1, !.entered = FALSE]
  /\ UNCHANGED <<mission, facts, waited, path, robot, ticking, aborting, steering, starts,
                 meddling, late, crossed>>

TickCompletes ==
  /\ ticking = Idling
  /\ Running
  /\ "guard" \notin facts
  /\ runner.step > Len(mission)
  /\ runner' = [runner EXCEPT !.status = "completed"]
  /\ ticking' = [at |-> "halt"]
  /\ UNCHANGED <<mission, facts, waited, path, robot, aborting, steering, starts, meddling, late, crossed>>

(* enter_step, after the lock: a goal is set, or planned when there is a   *)
(* grid and a pose; a plan that finds no way, or no fix, leaves the goal   *)
(* as it was and is no error.                                              *)
EnterStep ==
  /\ ticking.at = "enter"
  /\ ticking' = Idling
  /\ \/ /\ ticking.step.kind = "navigate"
        /\ HasGrid => robot.fix
        /\ path' = <<ticking.step.to>>
        /\ late' = (late \/ ~Running)
     \/ /\ ticking.step.kind = "navigate"
        /\ HasGrid
        /\ meddling < MaxMeddling \/ ~robot.fix
        /\ UNCHANGED <<path, late>>
     \/ /\ ticking.step.kind # "navigate"
        /\ UNCHANGED <<path, late>>
  /\ UNCHANGED <<mission, runner, facts, waited, robot, aborting, steering, starts, meddling, crossed>>

----------------------------------------------------------------------------
(* abort, and NavController::halt: the goal first, the drive after it.     *)

Abort ==
  /\ aborting = Idling
  /\ runner.status # "aborted"
  /\ runner' = [runner EXCEPT !.status = "aborted"]
  /\ aborting' = [at |-> "halt"]
  /\ UNCHANGED <<mission, facts, waited, path, robot, ticking, steering, starts, meddling, late, crossed>>

(* Mutant: a halt that leaves the goal to whoever set it. *)
ClearGoalOfAborts(call) ==
  /\ call.at = "halt"
  /\ path' = IF runner.status = "aborted" THEN <<>> ELSE path
  /\ late' = FALSE
  /\ crossed' = (crossed \/ steering.at \in {"drive", "stop"})
  /\ UNCHANGED <<mission, runner, facts, waited, robot, steering, starts, meddling>>

(* clear_goal of the halt a call is in. *)
ClearGoal(call) ==
  /\ call.at = "halt"
  /\ path' = <<>>
  /\ late' = FALSE
  /\ crossed' = (crossed \/ steering.at \in {"drive", "stop"})
  /\ UNCHANGED <<mission, runner, facts, waited, robot, steering, starts, meddling>>

TickClearsGoal == ClearGoal(ticking) /\ ticking' = [at |-> "stop"] /\ UNCHANGED aborting
AbortClearsGoal == ClearGoal(aborting) /\ aborting' = [at |-> "stop"] /\ UNCHANGED ticking

(* The Stop command, through the safety gate to the sink.  Refused, it is  *)
(* an error; the halts of the runner ignore it.                            *)
StopDrive(call) ==
  /\ call.at = "stop"
  /\ \/ /\ robot' = [robot EXCEPT !.drive = FALSE]
        /\ UNCHANGED <<meddling, crossed>>
     \/ /\ meddling < MaxMeddling
        /\ meddling' = meddling + 1
        /\ crossed' = TRUE
        /\ UNCHANGED robot
  /\ UNCHANGED <<mission, runner, facts, waited, path, starts, late>>

TickStops == StopDrive(ticking) /\ ticking' = Idling /\ UNCHANGED <<aborting, steering>>
AbortStops == StopDrive(aborting) /\ aborting' = Idling /\ UNCHANGED <<ticking, steering>>

----------------------------------------------------------------------------
(* step_toward_goal: the goal is copied and the pose read...               *)
NavRead ==
  /\ steering = Idling
  /\ path # <<>>
  /\ robot.fix
  /\ steering' = [at |-> IF robot.at = Head(path) THEN "pop" ELSE "drive"]
  /\ UNCHANGED <<mission, runner, facts, waited, path, robot, ticking, aborting, starts,
                 meddling, late, crossed>>

(* Mutant: the last waypoint is left standing. *)
NavPopKeepsLast ==
  /\ steering.at = "pop"
  /\ path' = IF Len(path) > 1 THEN Tail(path) ELSE path
  /\ steering' = Idling
  /\ UNCHANGED <<mission, runner, facts, waited, robot, ticking, aborting, starts, meddling, late, crossed>>

(* ...reached: the front of the path goes, whatever it is by now, and with *)
(* the last one the drive is stopped...                                    *)
NavPop ==
  /\ steering.at = "pop"
  /\ LET rest == IF path = <<>> THEN <<>> ELSE Tail(path)
     IN /\ path' = rest
        /\ steering' = IF rest = <<>> THEN [at |-> "stop"] ELSE Idling
  /\ UNCHANGED <<mission, runner, facts, waited, robot, ticking, aborting, starts, meddling,
                 late, crossed>>

NavStops == StopDrive(steering) /\ steering' = Idling /\ UNCHANGED <<ticking, aborting>>

(* ...or not: steer and drive, whatever became of the goal. *)
NavDrive ==
  /\ steering.at = "drive"
  /\ \/ /\ robot' = [robot EXCEPT !.drive = TRUE]
        /\ UNCHANGED <<meddling, crossed>>
     \/ /\ meddling < MaxMeddling
        /\ meddling' = meddling + 1
        /\ UNCHANGED <<robot, crossed>>
  /\ steering' = Idling
  /\ UNCHANGED <<mission, runner, facts, waited, path, ticking, aborting, starts, late>>

----------------------------------------------------------------------------
(* The world: the clock, sensors, the robot, and the navigate tool.        *)

WaitOver ==
  /\ ~waited
  /\ waited' = TRUE
  /\ UNCHANGED <<mission, runner, facts, path, robot, ticking, aborting, steering, starts,
                 meddling, late, crossed>>

FactHolds(f) ==
  /\ f \notin facts
  /\ facts' = facts \cup {f}
  /\ UNCHANGED <<mission, runner, waited, path, robot, ticking, aborting, steering, starts,
                 meddling, late, crossed>>

Move ==
  /\ robot.drive
  /\ path # <<>>
  /\ robot.at # Head(path)
  /\ robot' = [robot EXCEPT !.at = Head(path)]
  /\ UNCHANGED <<mission, runner, facts, waited, path, ticking, aborting, steering, starts,
                 meddling, late, crossed>>

FixComes ==
  /\ ~robot.fix
  /\ robot' = [robot EXCEPT !.fix = TRUE]
  /\ UNCHANGED <<mission, runner, facts, waited, path, ticking, aborting, steering, starts,
                 meddling, late, crossed>>

(* set_path, from the navigate tool: one waypoint or two. *)
NavigateTool ==
  /\ meddling < MaxMeddling
  /\ meddling' = meddling + 1
  /\ \E p, q \in Places : path' \in {<<p>>, <<p, q>>}
  /\ late' = TRUE
  /\ UNCHANGED <<mission, runner, facts, waited, robot, ticking, aborting, steering, starts, crossed>>

TickStep ==
  TickAborts \/ TickEnters \/ TickAdvances \/ TickCompletes \/ EnterStep
    \/ TickClearsGoal \/ TickStops
NavStep == NavRead \/ NavPop \/ NavStops \/ NavDrive
AbortStep == AbortClearsGoal \/ AbortStops
WorldStep == WaitOver \/ Move \/ FixComes

MissionNext ==
  \/ \E m \in Missions : StartMission(m)
  \/ TickStep
  \/ Abort \/ AbortStep
  \/ NavStep
  \/ WorldStep
  \/ \E f \in {"guard", "awaited"} : FactHolds(f)
  \/ NavigateTool

----------------------------------------------------------------------------
Settled == ticking = Idling /\ aborting = Idling /\ steering = Idling

(* A mission that was aborted or has completed leaves no goal behind, once *)
(* its halt is through; only a step that was entered before and set its    *)
(* goal after (lib.rs:410), or the operator's own navigate, does.          *)
StoppedHasNoGoal ==
  runner.status \in {"aborted", "completed"} /\ mission # <<>> /\ Settled /\ path # <<>>
    => late

(* The drive never runs without a goal: nothing would stop it any more, as *)
(* the navigation step is a no-op then.  What does it: a halt between a    *)
(* navigation step's read and its drive command, or a Stop the gate        *)
(* refuses after the goal is gone (obc-navigation/src/lib.rs:463, :497).   *)
DriveHasGoal ==
  Settled /\ robot.drive /\ path = <<>> => crossed

(* A running mission ends: every step completes or a guard aborts it.      *)
MissionEnds == Running ~> ~Running

(* A mission leaves no goal behind it and no drive without a goal. *)
GoalsFollowMission == StoppedHasNoGoal /\ DriveHasGoal
=============================================================================
