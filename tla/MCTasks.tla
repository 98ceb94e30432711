------------------------------- MODULE MCTasks -------------------------------
(***************************************************************************)
(* The scheduler, the fleet coordinator and the mission runner share no    *)
(* state, so one run checks them side by side: `part`, chosen at the       *)
(* start, names the one that moves, and the others stand still.            *)
(***************************************************************************)
EXTENDS Scheduler, Fleet, Mission, TLC

CONSTANTS t1, t2, rover1, rover2, j1, j2, west

VARIABLE part

KindsMC == {[type |-> "oneshot", at |-> 1], [type |-> "interval", secs |-> 1]}
NodeOrderMC == <<rover1, rover2>>
BidsMC == <<rover1, j1>> :> 1 @@ <<rover1, j2>> :> 2 @@ <<rover2, j2>> :> 3
NearMC == {<<west, west>>}
MissionsMC == {<<[kind |-> "navigate", to |-> "yard"], [kind |-> "wait"]>>,
               <<[kind |-> "effect"], [kind |-> "await"]>>}

vars == <<part, schedulerVars, fleetVars, missionVars>>

InScheduler(A) == part = "scheduler" /\ A /\ UNCHANGED <<part, fleetVars, missionVars>>
InFleet(A) == part = "fleet" /\ A /\ UNCHANGED <<part, schedulerVars, missionVars>>
InMission(A) == part = "mission" /\ A /\ UNCHANGED <<part, schedulerVars, fleetVars>>

Init ==
  /\ part \in {"scheduler", "fleet", "mission"}
  /\ SchedulerInit
  /\ FleetInit
  /\ MissionInit
  /\ part # "mission" => robot.fix  \* what stands still starts somewhere

Next ==
  \/ InScheduler(Passing)
  \/ InScheduler(ReadDue)
  \/ InScheduler(MarkRead)
  \/ InScheduler(MarkStore)
  \/ InScheduler(MarkFails)
  \/ InScheduler(Dispatch)
  \/ InScheduler(DispatchEnds)
  \/ InScheduler(Restart)
  \/ InScheduler(\E id \in TaskIds, kind \in Kinds : Create(id, kind))
  \/ InScheduler(\E id \in TaskIds : Pause(id))
  \/ InScheduler(\E id \in TaskIds : Remove(id))
  \/ InScheduler(\E id \in TaskIds : Lookup(id))
  \/ InScheduler(Resume)
  \/ InFleet(\E n \in Nodes : Heartbeat(n))
  \/ InFleet(\E n \in Nodes : GoStale(n))
  \/ InFleet(\E n \in Nodes : Release(n))
  \/ InFleet(\E t \in Jobs : AddTask(t))
  \/ InFleet(\E t \in Jobs : Complete(t))
  \/ InFleet(Broadcast)
  \/ InFleet(TickBegin)
  \/ InFleet(TickTask)
  \/ InFleet(TickDrained)
  \/ InFleet(TickClose)
  \/ InFleet(AuctionRead)
  \/ InFleet(AuctionClose)
  \/ InFleet(ExploreBegin)
  \/ InFleet(ExploreNode)
  \/ InFleet(ExploreEnd)
  \/ InMission(\E m \in Missions : StartMission(m))
  \/ InMission(TickAborts)
  \/ InMission(TickEnters)
  \/ InMission(TickAdvances)
  \/ InMission(TickCompletes)
  \/ InMission(EnterStep)
  \/ InMission(TickClearsGoal)
  \/ InMission(TickStops)
  \/ InMission(Abort)
  \/ InMission(AbortClearsGoal)
  \/ InMission(AbortStops)
  \/ InMission(NavRead)
  \/ InMission(NavPop)
  \/ InMission(NavStops)
  \/ InMission(NavDrive)
  \/ InMission(WaitOver)
  \/ InMission(\E f \in {"guard", "awaited"} : FactHolds(f))
  \/ InMission(Move)
  \/ InMission(FixComes)
  \/ InMission(NavigateTool)

Spec ==
  /\ Init
  /\ [][Next]_vars
  /\ WF_vars(InScheduler(LoopStep))
  /\ WF_vars(InMission(TickStep))
  /\ WF_vars(InMission(NavStep))
  /\ WF_vars(InMission(AbortStep))
  /\ WF_vars(InMission(WaitOver))
  /\ WF_vars(InMission(FixComes))
  /\ WF_vars(InMission(FactHolds("awaited")))
  /\ SF_vars(InMission(Move))
=============================================================================
