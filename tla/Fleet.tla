-------------------------------- MODULE Fleet --------------------------------
(***************************************************************************)
(* The fleet coordinator (crates/obc-fleet/src/lib.rs) and what reaches it: *)
(* the `fleet` and `fleet_status` tools (crates/obc-tools/src/builtin/      *)
(* fleet.rs), heartbeats over MQTT (obc-spine/src/fleet_bridge.rs) and over *)
(* the mesh (obc-spine/src/lora_mesh.rs).  Every field has a lock of its    *)
(* own, so a heartbeat, a new task or a completion comes between any two    *)
(* steps of an allocation.  Of two locks taken one after the other, nothing *)
(* comes between when it could as well have come before the first.          *)
(***************************************************************************)
EXTENDS Integers, Sequences, FiniteSets, InOrder

CONSTANTS Nodes, Jobs,   \* nodes, and ids of tasks
          NodeOrder,     \* the nodes, ordered by id
          Bids,          \* <<node, task>> -> cost, where battery and position allow it
          Targets,       \* frontier cells
          Near,          \* pairs of them closer than min_separation
          OutboxCap,     \* CAP of enqueue_assignment
          MaxAdds,       \* bound: tasks ever queued
          None

ASSUME FleetAssumption ==
  /\ None \notin Nodes /\ None \notin Targets
  /\ NodeOrder \in Seq(Nodes)
  /\ \A i, j \in DOMAIN NodeOrder : NodeOrder[i] = NodeOrder[j] => i = j
  /\ IsFiniteSet(DOMAIN Bids) /\ DOMAIN Bids \subseteq Nodes \X Jobs
  /\ \A p, q \in DOMAIN Bids : Bids[p] \in Nat /\ (Bids[p] = Bids[q] => p = q)
  /\ \A a, b \in Targets : <<a, a>> \in Near /\ (<<a, b>> \in Near => <<b, a>> \in Near)
  /\ OutboxCap \in Nat \ {0}

VARIABLES view,        \* registry: what the coordinator holds of a node
          pending,     \* the queue
          assignments, \* task -> node
          claims,      \* node -> target
          outbox,      \* assignments to broadcast
          round,       \* the allocation in progress
          adds,        \* how many tasks were queued
          accepted,    \* tasks ever queued
          done,        \* tasks completed since they were last queued
          overtaken,   \* tasks queued after a round had read the queue for the last time
          wiped        \* nodes whose `busy` a heartbeat or release cleared under a job

fleetVars ==
  <<view, pending, assignments, claims, outbox, round, adds, accepted, done,
    overtaken, wiped>>

NoRound == [op |-> "none", todo |-> <<>>, kept |-> <<>>]

Members(s) == {s[i] : i \in DOMAIN s}

JobsOf(n) == {t \in Jobs : assignments[t] = n} \cup ({claims[n]} \ {None})

Waiting == Members(pending) \cup Members(round.todo) \cup Members(round.kept)

(* online && !busy, of a node that has reported. *)
Idle(n) == view[n].online /\ ~view[n].busy

(* The pairs allocate and bid admit now. *)
Eligible(ts) == {p \in DOMAIN Bids : p[2] \in ts /\ Idle(p[1])}

(* auction_allocate: lowest bid first, each node and task at most once: a  *)
(* pair is awarded exactly when no cheaper award takes its node or task.   *)
Awards(ts) ==
  LET bids == Eligible(ts)
      Blocks(q, p) == (q[1] = p[1] \/ q[2] = p[2]) /\ Bids[q] < Bids[p]
  IN CHOOSE A \in SUBSET bids : \A p \in bids : p \in A <=> ~ \E q \in A : Blocks(q, p)

(* enqueue_assignment: the oldest intents go when the outbox is full. *)
Enqueued(box, s) ==
  LET all == box \o s
      excess == Len(all) - OutboxCap
  IN IF excess > 0 THEN SubSeq(all, excess + 1, Len(all)) ELSE all

FleetInit ==
  /\ view = [n \in Nodes |-> [online |-> FALSE, busy |-> FALSE]]
  /\ pending = <<>>
  /\ assignments = [t \in Jobs |-> None]
  /\ claims = [n \in Nodes |-> None]
  /\ outbox = <<>>
  /\ round = NoRound
  /\ adds = 0
  /\ accepted = {}
  /\ done = {}
  /\ overtaken = {}
  /\ wiped = {}

(* report: the state replaces what was held; every caller (the MQTT        *)
(* handler, the mesh bridge and fleet_status) reports `busy: false`.       *)
Heartbeat(n) ==
  /\ view' = [view EXCEPT ![n] = [online |-> TRUE, busy |-> FALSE]]
  /\ wiped' = wiped \cup (IF view[n].busy /\ JobsOf(n) # {} THEN {n} ELSE {})
  /\ UNCHANGED <<pending, assignments, claims, outbox, round, adds, accepted,
                 done, overtaken>>

(* stale_ms pass since the last heartbeat. *)
GoStale(n) ==
  /\ view[n].online
  /\ view' = [view EXCEPT ![n].online = FALSE]
  /\ UNCHANGED <<pending, assignments, claims, outbox, round, adds, accepted,
                 done, overtaken, wiped>>

(* add_task, from the fleet tool; an id may be queued anew. *)
AddTask(t) ==
  /\ t \notin Waiting
  /\ adds < MaxAdds
  /\ adds' = adds + 1
  /\ pending' = Append(pending, t)
  /\ accepted' = accepted \cup {t}
  /\ done' = done \ {t}
  /\ overtaken' = IF round.op \in {"closing", "auction"}
                  THEN overtaken \cup {t} ELSE overtaken \ {t}
  /\ UNCHANGED <<view, assignments, claims, outbox, round, wiped>>

(* complete: the node of the task is freed, whatever else it was given. *)
Complete(t) ==
  /\ assignments[t] # None
  /\ LET n == assignments[t]
     IN /\ assignments' = [assignments EXCEPT ![t] = None]
        /\ view' = [view EXCEPT ![n].busy = FALSE]
        /\ claims' = [claims EXCEPT ![n] = None]
        /\ wiped' = wiped \cup
             (IF {u \in Jobs : assignments[u] = n} # {t} THEN {n} ELSE {})
  /\ done' = done \cup {t}
  /\ UNCHANGED <<pending, outbox, round, adds, accepted, overtaken>>

(* release: of a node's claim, and of its `busy`. *)
Release(n) ==
  /\ claims[n] # None
  /\ claims' = [claims EXCEPT ![n] = None]
  /\ view' = [view EXCEPT ![n].busy = FALSE]
  /\ wiped' = wiped \cup (IF \E t \in Jobs : assignments[t] = n THEN {n} ELSE {})
  /\ UNCHANGED <<pending, assignments, outbox, round, adds, accepted, done,
                 overtaken>>

(* drain_outbox, for broadcast_outbox: what fails to be sent is gone too. *)
Broadcast ==
  /\ outbox # <<>>
  /\ outbox' = <<>>
  /\ UNCHANGED <<view, pending, assignments, claims, round, adds, accepted,
                 done, overtaken, wiped>>

----------------------------------------------------------------------------
(* tick: one task at a time to the cheapest eligible node. *)

TickBegin ==
  /\ round = NoRound
  /\ pending # <<>>
  /\ round' = [NoRound EXCEPT !.op = "tick"]
  /\ UNCHANGED <<view, pending, assignments, claims, outbox, adds, accepted,
                 done, overtaken, wiped>>

(* Mutant: a turn that forgets the task it cannot place. *)
TickTaskForgets ==
  /\ round.op = "tick"
  /\ pending # <<>>
  /\ pending' = Tail(pending)
  /\ LET able == Eligible({Head(pending)})
     IN IF able = {}
        THEN UNCHANGED <<view, assignments, outbox>>
        ELSE \E p \in able :
               /\ view' = [view EXCEPT ![p[1]].busy = TRUE]
               /\ assignments' = [assignments EXCEPT ![p[2]] = p[1]]
               /\ outbox' = Enqueued(outbox, <<p>>)
  /\ UNCHANGED <<claims, round, adds, accepted, done, overtaken, wiped>>

(* A turn of the loop: pop_front, allocate, and place or keep. *)
TickTask ==
  /\ round.op = "tick"
  /\ pending # <<>>
  /\ pending' = Tail(pending)
  /\ LET t == Head(pending)
         able == Eligible({t})
     IN IF able = {}
        THEN /\ round' = [round EXCEPT !.kept = Append(@, t)]
             /\ UNCHANGED <<view, assignments, outbox>>
        ELSE \E p \in able :
               /\ \A q \in able : Bids[p] <= Bids[q]
               /\ view' = [view EXCEPT ![p[1]].busy = TRUE]
               /\ assignments' = [assignments EXCEPT ![t] = p[1]]
               /\ outbox' = Enqueued(outbox, <<p>>)
               /\ UNCHANGED round
  /\ UNCHANGED <<claims, adds, accepted, done, overtaken, wiped>>

(* pop_front finds nothing: the loop is left... *)
TickDrained ==
  /\ round.op = "tick"
  /\ pending = <<>>
  /\ round' = [round EXCEPT !.op = "closing"]
  /\ UNCHANGED <<view, pending, assignments, claims, outbox, adds, accepted,
                 done, overtaken, wiped>>

(* ...and the queue replaced by what could not be placed. *)
TickClose ==
  /\ round.op = "closing"
  /\ pending' = round.kept
  /\ round' = NoRound
  /\ UNCHANGED <<view, assignments, claims, outbox, adds, accepted, done,
                 overtaken, wiped>>

(* auction_tick: a copy of the queue... *)
AuctionRead ==
  /\ round = NoRound
  /\ pending # <<>>
  /\ round' = [NoRound EXCEPT !.op = "auction", !.todo = pending]
  /\ UNCHANGED <<view, pending, assignments, claims, outbox, adds, accepted,
                 done, overtaken, wiped>>

(* ...the awards, and the queue replaced by the rest of the copy. *)
AuctionClose ==
  /\ round.op = "auction"
  /\ LET awards == Awards(Members(round.todo))
         placed == {p[2] : p \in awards}
     IN /\ view' = [n \in Nodes |->
                      [view[n] EXCEPT !.busy = @ \/ \E p \in awards : p[1] = n]]
        /\ assignments' = [t \in Jobs |->
             IF t \in placed THEN (CHOOSE p \in awards : p[2] = t)[1] ELSE assignments[t]]
        /\ \E s \in [1 .. Cardinality(awards) -> awards] :
             /\ \A i, j \in DOMAIN s : i < j => Bids[s[i]] < Bids[s[j]]
             /\ outbox' = Enqueued(outbox, s)
        /\ \E r \in Ascending({i \in DOMAIN round.todo : round.todo[i] \notin placed}) :
             pending' = [i \in DOMAIN r |-> round.todo[r[i]]]
  /\ round' = NoRound
  /\ UNCHANGED <<claims, adds, accepted, done, overtaken, wiped>>

----------------------------------------------------------------------------
(* assign_exploration: the idle nodes in order of id, and the targets      *)
(* claimed so far.                                                         *)
ExploreBegin ==
  /\ round = NoRound
  /\ \E frontiers \in SUBSET Targets, r \in Ascending({i \in DOMAIN NodeOrder : Idle(NodeOrder[i])}) :
       /\ frontiers # {}
       /\ round' = [op |-> "explore", todo |-> [i \in DOMAIN r |-> NodeOrder[r[i]]], kept |-> <<>>,
                    frontiers |-> frontiers,
                    claimed |-> {claims[n] : n \in Nodes} \ {None}]
  /\ UNCHANGED <<view, pending, assignments, claims, outbox, adds, accepted,
                 done, overtaken, wiped>>

(* The next node: a reachable frontier apart from every claimed one, if    *)
(* there is one.  Which of them is nearest and reachable is left open.     *)
ExploreNode ==
  /\ round.op = "explore"
  /\ round.todo # <<>>
  /\ LET n == Head(round.todo)
         options == {f \in round.frontiers : \A c \in round.claimed : <<f, c>> \notin Near}
     IN \/ /\ round' = [round EXCEPT !.todo = Tail(@)]
           /\ UNCHANGED <<view, claims, outbox>>
        \/ \E f \in options :
             /\ view' = [view EXCEPT ![n].busy = TRUE]
             /\ claims' = [claims EXCEPT ![n] = f]
             /\ outbox' = Enqueued(outbox, <<<<n, f>>>>)
             /\ round' = [round EXCEPT !.todo = Tail(@), !.claimed = @ \cup {f}]
  /\ UNCHANGED <<pending, assignments, adds, accepted, done, overtaken, wiped>>

ExploreEnd ==
  /\ round.op = "explore"
  /\ round.todo = <<>>
  /\ round' = NoRound
  /\ UNCHANGED <<view, pending, assignments, claims, outbox, adds, accepted,
                 done, overtaken, wiped>>

RoundStep ==
  \/ TickBegin \/ TickTask \/ TickDrained \/ TickClose
  \/ AuctionRead \/ AuctionClose
  \/ ExploreNode \/ ExploreEnd

FleetNext ==
  \/ \E n \in Nodes : Heartbeat(n) \/ GoStale(n) \/ Release(n)
  \/ \E t \in Jobs : AddTask(t) \/ Complete(t)
  \/ Broadcast
  \/ ExploreBegin
  \/ RoundStep

----------------------------------------------------------------------------
(* No task is lost: one that was queued waits, is in the hands of a round, *)
(* is assigned or was completed.  The tasks queued while a round is past   *)
(* its last look at the queue are the exception: lib.rs:407 and :448       *)
(* replace the queue over them.                                            *)
TasksKept ==
  \A t \in accepted :
    \/ t \in Waiting
    \/ assignments[t] # None
    \/ t \in done
    \/ t \in overtaken

(* A node has one job at a time, task or frontier, through heartbeats that *)
(* come late, ticks, auctions and exploration; only a node whose `busy`    *)
(* was cleared under its job is given another (lib.rs:272: a heartbeat     *)
(* always says idle).                                                      *)
OneJobPerNode ==
  \A n \in Nodes : Cardinality(JobsOf(n)) > 1 => n \in wiped

(* Two nodes are never sent to places closer than min_separation. *)
ClaimsApart ==
  \A m, n \in Nodes :
    m # n /\ claims[m] # None /\ claims[n] # None => <<claims[m], claims[n]>> \notin Near

(* Work is given out once, to one node, and never forgotten. *)
AssignmentsHold == TasksKept /\ OneJobPerNode /\ ClaimsApart
=============================================================================
