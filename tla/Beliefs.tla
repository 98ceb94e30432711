------------------------------- MODULE Beliefs -------------------------------
(***************************************************************************)
(* World memory (crates/obc-memory/src/world.rs) and the three ways a       *)
(* belief leaves it without being replaced: its author stops (liveness.rs),  *)
(* a retention policy says so (expiry.rs), or what it rested on is gone      *)
(* (the cascade both share).  Every statement takes the store's lock for     *)
(* itself, so writers, the operator and a sweep interleave between any two   *)
(* of the sweep's statements, and the process may end between them.          *)
(***************************************************************************)
EXTENDS Integers, Sequences

CONSTANTS
  Producers,   \* [entity, source, needs]: a component that computes one entity;
               \* needs: alternative sets of entities it computes it from
  Agent,       \* the source of claims made through the world_memory tool
  Liveness,    \* liveness::SOURCE
  Claimable,   \* the entities the agent makes claims about
  Withdrawable, \* the entities the operator withdraws
  Torn,        \* the entities whose write a crash may cut in two
  Stoppable,   \* the sources a sweep may be asked to stop
  Expiring,    \* the entities under the retention policy's prefix
  MaxAge,      \* its max_age_ms
  StaleAfter,  \* stale_ms
  MaxRows,     \* bound: rows ever written
  MaxTime      \* bound: the clock

Sources  == {p.source : p \in Producers} \cup {Agent, Liveness}
Entities == {p.entity : p \in Producers}
\* The entity that holds the liveness of source s bears its name.
Marker(s) == s
IsMarker(e) == e \in Sources

ASSUME NamesAssumption ==
  /\ Entities \cap Sources = {} /\ Agent # Liveness
  /\ Claimable \subseteq Entities /\ Stoppable \subseteq Sources
  /\ Withdrawable \cup Torn \subseteq Entities \cup Sources
ASSUME BoundsAssumption ==
  {MaxAge, StaleAfter} \subseteq Nat \ {0} /\ {MaxRows, MaxTime} \subseteq Nat

VARIABLES
  rows,    \* the table world_facts; a row's id is its position
  now,     \* the clock
  sweep    \* the sweep in progress

vars == <<rows, now, sweep>>

Open == -1
Ids  == 1 .. Len(rows)

\* A row's support is its set of alternative justifications.  Unknown support
\* and a premise are both {}: neither can fail and neither is anybody's
\* dependent.
Believed(i)   == rows[i].to = Open
OpenOf(e)     == {i \in Ids : rows[i].entity = e /\ Believed(i)}
OpenBy(s)     == {i \in Ids : rows[i].source = s /\ Believed(i)}
WrittenBy(s)  == {i \in Ids : rows[i].source = s}

\* support_status(f).has_failed(): no alternative has all its members.
HasFailed(i) ==
  /\ rows[i].support # {}
  /\ \A j \in rows[i].support : \E k \in j : ~Believed(k)

Dependents(k) == {i \in Ids : \E j \in rows[i].support : k \in j}

-----------------------------------------------------------------------------
(* Statements.                                                              *)

\* Mutant: a predecessor that started at the same instant stays open.
ClosedByStrict(e, from) ==
  [i \in Ids |-> IF rows[i].entity = e /\ Believed(i) /\ rows[i].from < from
                 THEN [rows[i] EXCEPT !.to = from] ELSE rows[i]]
\* insert's UPDATE: the open facts of e that started at or before `from`.
ClosedBy(e, from) ==
  [i \in Ids |-> IF rows[i].entity = e /\ Believed(i) /\ rows[i].from <= from
                 THEN [rows[i] EXCEPT !.to = from] ELSE rows[i]]

Row(e, from, s, support) ==
  [entity |-> e, from |-> from, to |-> Open, at |-> now, source |-> s,
   support |-> support, reason |-> "none"]

Insert(e, from, s, support) ==
  /\ Len(rows) < MaxRows
  /\ rows' = Append(ClosedBy(e, from), Row(e, from, s, support))

\* Mutant: a fact that is already closed is closed again.
CloseAnyhow(i, why) == [rows EXCEPT ![i] = [@ EXCEPT !.to = now, !.reason = why]]
\* close_fact, where the row may have been closed in the meantime.
Close(i, why) ==
  IF Believed(i) THEN [rows EXCEPT ![i] = [@ EXCEPT !.to = now, !.reason = why]] ELSE rows

-----------------------------------------------------------------------------
(* Writers.                                                                 *)

\* A component reads each entity it needs at some earlier moment, then writes
\* what it computed with the ids it read; it offers the alternatives it could.
Readings(es) == {f \in [es -> Ids] : \A e \in es : rows[f[e]].entity = e}
Offered(p) == IF p.needs = {} THEN {{}} ELSE (SUBSET p.needs) \ {{}}
Justified(alts, f) == {{f[e] : e \in j} : j \in alts}
Supports(p) ==
  UNION {{Justified(alts, f) : f \in Readings(UNION alts)} : alts \in Offered(p)}

Observe(p) ==
  /\ \E support \in Supports(p) : Insert(p.entity, now, p.source, support)
  /\ UNCHANGED <<now, sweep>>

\* The agent claims something, valid from whatever time it names.
Claim(e, from) == Insert(e, from, Agent, {}) /\ UNCHANGED <<now, sweep>>

\* The process ends between insert's UPDATE and its INSERT.
NoSweep == [phase |-> "idle", why |-> "none", source |-> Liveness, todo |-> {},
            queue |-> << >>, seen |-> {}, closed |-> {}, since |-> 0]
TornInsert(e) ==
  OpenOf(e) # {} /\ rows' = ClosedBy(e, now) /\ sweep' = NoSweep /\ UNCHANGED now
Crash == sweep.phase # "idle" /\ sweep' = NoSweep /\ UNCHANGED <<rows, now>>

\* withdraw_entity: the operator's path, which does not cascade.
Withdraw(e) ==
  /\ OpenOf(e) # {}
  /\ rows' = [i \in Ids |-> IF i \in OpenOf(e)
                            THEN [rows[i] EXCEPT !.to = now, !.reason = "operator"] ELSE rows[i]]
  /\ UNCHANGED <<now, sweep>>

Elapse == now < MaxTime /\ now' = now + 1 /\ UNCHANGED <<rows, sweep>>

-----------------------------------------------------------------------------
(* Sweeps: a source that stopped, or a policy's run.                         *)

LastWrite(s) == CHOOSE t \in {rows[i].at : i \in WrittenBy(s)} :
                  \A i \in WrittenBy(s) : rows[i].at <= t

\* sweep_silent's conditions on source s, checked before anything is written.
Judge(s) ==
  /\ sweep.phase = "idle"
  /\ s # Liveness /\ OpenBy(s) # {}
  /\ now - LastWrite(s) >= StaleAfter
  /\ OpenOf(Marker(s)) = {}
  /\ sweep' = [NoSweep EXCEPT !.phase = "judged", !.source = s]
  /\ UNCHANGED <<rows, now>>

\* The liveness source gets its marker and nothing more.
Marked(s) == IF s = Liveness THEN NoSweep ELSE [NoSweep EXCEPT !.phase = "marked", !.source = s]

\* stopped: the marker comes first.
Stopped(s) ==
  /\ Insert(Marker(s), now, Liveness, {})
  /\ sweep' = Marked(s)
  /\ UNCHANGED now
SweepSilent == sweep.phase = "judged" /\ Stopped(sweep.source)
Retire(s)   == sweep.phase = "idle" /\ Stopped(s)

Closing(ids, why) ==
  IF ids = {} THEN NoSweep
  ELSE [NoSweep EXCEPT !.phase = "closing", !.why = why, !.since = Len(rows),
                       !.todo = ids]

ListOwn ==
  /\ sweep.phase = "marked"
  /\ sweep' = Closing(OpenBy(sweep.source), "source-stopped")
  /\ UNCHANGED <<rows, now>>

\* Mutant: no entity is protected.
DueUnprotected(i) == Believed(i) /\ rows[i].entity \in Expiring /\ now - rows[i].at >= MaxAge
\* The policy's prefix and age, and never a marker.
Due(i) ==
  /\ Believed(i) /\ rows[i].entity \in Expiring /\ ~IsMarker(rows[i].entity)
  /\ now - rows[i].at >= MaxAge

Expire ==
  /\ sweep.phase = "idle" /\ {i \in Ids : Due(i)} # {}
  /\ sweep' = Closing({i \in Ids : Due(i)}, "expired")
  /\ UNCHANGED <<rows, now>>

\* One close of the list, in the order of ids; those it did close seed the
\* cascade.
CloseListed ==
  /\ sweep.phase = "closing"
  /\ \E i \in sweep.todo :
       LET hit == {k \in {i} : Believed(k)}
       IN  /\ \A k \in sweep.todo : i <= k
           /\ rows' = Close(i, sweep.why)
           /\ sweep' = [sweep EXCEPT !.todo = @ \ {i},
                          !.phase = IF sweep.todo = {i} THEN "walking" ELSE @,
                          !.queue = IF hit = {} THEN @ ELSE Append(@, i),
                          !.seen = @ \cup hit, !.closed = @ \cup hit]
  /\ UNCHANGED now

\* dependents(): the rows as they are at this moment.
Ask ==
  /\ sweep.phase = "walking" /\ sweep.todo = {} /\ sweep.queue # << >>
  /\ sweep' = [sweep EXCEPT !.queue = Tail(@),
                 !.todo = {[id |-> i, open |-> Believed(i)] : i \in Dependents(Head(sweep.queue))}]
  /\ UNCHANGED <<rows, now>>

\* Mutant: naming a dead fact is enough.
WithdrawsAny(dep) == dep.open /\ Believed(dep.id)
\* The belief is withdrawn: it was open when listed, is still, and has failed.
Withdraws(dep) == dep.open /\ Believed(dep.id) /\ HasFailed(dep.id)

\* Mutant: one hop.
FollowsClosed(dep) == ~dep.open
\* Its own dependents are visited in turn.
Follows(dep) == ~dep.open \/ Withdraws(dep)

Visit ==
  /\ sweep.phase = "walking"
  /\ \E dep \in sweep.todo :
       LET new == dep.id \notin sweep.seen
       IN  /\ \A other \in sweep.todo : dep.id <= other.id
           /\ rows' = IF new /\ Withdraws(dep) THEN Close(dep.id, "unsupported") ELSE rows
           /\ sweep' = [sweep EXCEPT !.todo = @ \ {dep}, !.seen = @ \cup {dep.id},
                          !.queue  = IF new /\ Follows(dep) THEN Append(@, dep.id) ELSE @,
                          !.closed = IF new /\ Withdraws(dep) THEN @ \cup {dep.id} ELSE @]
  /\ UNCHANGED now

SweepOver == sweep.phase = "walking" /\ sweep.todo = {} /\ sweep.queue = << >>
Finish == SweepOver /\ sweep' = NoSweep /\ UNCHANGED <<rows, now>>

-----------------------------------------------------------------------------
Init == rows = << >> /\ now = 0 /\ sweep = NoSweep

Next ==
  \/ \E p \in Producers : Observe(p)
  \/ \E e \in Claimable, from \in 0 .. MaxTime : Claim(e, from)
  \/ \E e \in Torn : TornInsert(e)
  \/ \E e \in Withdrawable : Withdraw(e)
  \/ Crash
  \/ Elapse
  \/ \E s \in Stoppable : Judge(s) \/ Retire(s)
  \/ SweepSilent
  \/ ListOwn
  \/ Expire
  \/ CloseListed
  \/ Ask
  \/ Visit
  \/ Finish

Spec == Init /\ [][Next]_vars

-----------------------------------------------------------------------------
(* Properties.                                                              *)

Reasons == {"none", "operator", "source-stopped", "expired", "unsupported"}

\* Rows and the sweep over them have their shape.
TypeOK ==
  /\ now \in 0 .. MaxTime
  /\ Len(rows) <= MaxRows
  /\ \A i \in Ids :
       /\ rows[i].entity \in Entities \cup Sources /\ rows[i].source \in Sources
       /\ rows[i].from \in 0 .. MaxTime /\ rows[i].to \in {Open} \cup 0 .. MaxTime
       /\ rows[i].at \in 0 .. MaxTime /\ rows[i].reason \in Reasons
       /\ UNION rows[i].support \subseteq 1 .. i - 1
  /\ sweep.phase \in {"idle", "judged", "marked", "closing", "walking"}
  /\ sweep.closed \cup sweep.seen \subseteq Ids

\* Writes are non-destructive: no row is ever removed, and once a row is
\* closed neither its interval nor the reason changes, whichever writer,
\* sweep or operator reaches it second.
ClosedForGood ==
  [][/\ Len(rows') >= Len(rows)
     /\ \A i \in Ids : \/ rows'[i] = rows[i]
                       \/ Believed(i) /\ rows'[i] = [rows[i] EXCEPT !.to = rows'[i].to,
                                                                    !.reason = rows'[i].reason]]_vars

\* An observation leaves no fact of its entity open that started at or before
\* it, so current() never has to choose between two of the same instant.
OneOpenInOrder ==
  \A i, k \in Ids :
    i < k /\ rows[i].entity = rows[k].entity /\ rows[i].from <= rows[k].from => ~Believed(i)

\* The cascade withdraws a belief only when it has recorded support and not
\* one of its justifications stands, whatever was written meanwhile.
OnlyUngroundedWithdrawn ==
  [][\A i \in Ids : Believed(i) /\ rows'[i].reason = "unsupported" => HasFailed(i)]_vars

\* What was believed, and why it no longer is, can be read back: rows are
\* final, and a cascade never withdraws what still has support.
HistoryKept == ClosedForGood /\ OnlyUngroundedWithdrawn

\* When a sweep is over, no belief with a single justification that existed
\* before it still stands on a fact the sweep closed, at any depth.
SingleChainsWithdrawn ==
  SweepOver =>
    \A i \in 1 .. sweep.since :
      rows[i].support # {} /\ (\A j \in rows[i].support : \A k \in rows[i].support : j = k)
        /\ (\E j \in rows[i].support : j \cap sweep.closed # {})
      => ~Believed(i)

\* A liveness marker is withdrawn by nothing but the operator: not by age,
\* not by a sweep of its own source, not by a cascade.
MarkersStand ==
  \A i \in Ids : IsMarker(rows[i].entity) => rows[i].reason \in {"none", "operator"}

\* The cascade's doc: everything that rested on the seeds is withdrawn,
\* transitively; a belief all of whose justifications the sweep broke is.
RestedIsWithdrawn ==
  SweepOver =>
    \A i \in 1 .. sweep.since :
      rows[i].support # {} /\ (\A j \in rows[i].support : j \cap sweep.closed # {}) => ~Believed(i)
=============================================================================
