------------------------------ MODULE MeshFlood ------------------------------
(***************************************************************************)
(* Multi-hop flooding of fleet frames (crates/obc-spine/src/lora_mesh.rs,  *)
(* relay): a frame carries an id and the hops it has left; a host that     *)
(* hears an id it does not remember takes the frame in and sends it on     *)
(* with one hop less.  It remembers the last RelayCap ids.                 *)
(***************************************************************************)
EXTENDS Integers, Sequences, FiniteSets

CONSTANTS Hosts,
          Hears,     \* pairs: the second host hears the first
          RelayCap,  \* ids remembered (512)
          Ttl,       \* hops a frame starts with
          Ids        \* frames originated, each once

ASSUME FloodAssumption == Hears \subseteq Hosts \X Hosts /\ RelayCap \in Nat \ {0} /\ Ttl \in Nat

VARIABLES inFlight,  \* copies on their way: to whom, which id, hops left
          seen,      \* MeshRelay::seen
          ingested,  \* host -> the last RelayCap + 1 ids taken in
          origin     \* ids already sent out

floodVars == <<inFlight, seen, ingested, origin>>

FloodInit ==
  /\ inFlight = {}
  /\ seen = [h \in Hosts |-> <<>>]
  /\ ingested = [h \in Hosts |-> <<>>]
  /\ origin = {}

CopiesFrom(h, id, ttl) == {[to |-> g, id |-> id, ttl |-> ttl] : g \in {g \in Hosts : <<h, g>> \in Hears}}

(* send_assignment_frame: the sender does not mark its own id. *)
Originate(h, id) ==
  /\ id \notin origin
  /\ origin' = origin \cup {id}
  /\ inFlight' = inFlight \cup CopiesFrom(h, id, Ttl)
  /\ UNCHANGED <<seen, ingested>>

(* mark_seen, of an id that is new. *)
Marked(s, id) ==
  LET t == Append(s, id)
  IN IF Len(t) > RelayCap THEN Tail(t) ELSE t

Remembers(h, id) == \E i \in DOMAIN seen[h] : seen[h][i] = id

(* Mutant: a frame keeps its hops. *)
SentOnForever(h, f) == IF f.ttl > 0 THEN CopiesFrom(h, f.id, f.ttl) ELSE {}

SentOn(h, f) == IF f.ttl > 0 THEN CopiesFrom(h, f.id, f.ttl - 1) ELSE {}

Noted(log, id) ==
  LET t == Append(log, id)
  IN IF Len(t) > RelayCap + 1 THEN Tail(t) ELSE t

(* ingest_line_relayed. *)
Receive(f) ==
  /\ f \in inFlight
  /\ IF Remembers(f.to, f.id)
     THEN inFlight' = inFlight \ {f} /\ UNCHANGED <<seen, ingested>>
     ELSE /\ seen' = [seen EXCEPT ![f.to] = Marked(@, f.id)]
          /\ ingested' = [ingested EXCEPT ![f.to] = Noted(@, f.id)]
          /\ inFlight' = (inFlight \ {f}) \cup SentOn(f.to, f)
  /\ UNCHANGED origin

LoseFrame(f) ==
  /\ f \in inFlight
  /\ inFlight' = inFlight \ {f}
  /\ UNCHANGED <<seen, ingested, origin>>

FloodNext ==
  \/ \E h \in Hosts, id \in Ids : Originate(h, id)
  \/ \E f \in inFlight : Receive(f) \/ LoseFrame(f)

----------------------------------------------------------------------------
(* A host takes an id in again only after RelayCap others: whatever loops  *)
(* the mesh has, in whatever order the copies come.                        *)
TakenOnce ==
  \A h \in Hosts : \A i, j \in DOMAIN ingested[h] :
    ingested[h][i] = ingested[h][j] => i = j

(* A flood dies out, also when more ids are about than a host remembers.   *)
FloodEnds == <>[](inFlight = {})

\* A frame goes round once, and not for ever.
FloodIsFinite == []TakenOnce /\ FloodEnds
==============================================================================
