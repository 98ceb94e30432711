-------------------------- MODULE LimitsHydration ---------------------------
(***************************************************************************)
(* How a node that boots deny-all gets its limits back: the node's side of   *)
(* the bargain (boot announcement, beacons that say "deny-all" until told,   *)
(* replies that carry the boot id; firmware/obc-esp32-s3) and the host's     *)
(* (boot_snapshot, limits_to_push, hydrate_limits of mesh_supervisor.rs),    *)
(* over a mesh that loses, delays and re-orders frames and a gateway link    *)
(* that comes and goes.  The host keeps nothing but facts in world memory.   *)
(***************************************************************************)
EXTENDS Integers, Sequences, InOrder, SequencesExt

CONSTANTS
  MaxBoots,     \* bound: runs of the node
  MaxFlight,    \* bound: frames on the air towards the host
  BeaconEvery,  \* BEACON_INTERVAL_MS
  RetryAfter    \* LIMITS_RETRY_MS

ASSUME IntervalsAssumption ==
  MaxBoots \in Nat \ {0} /\ MaxFlight \in Nat \ {0} /\ BeaconEvery \in Nat \ {0} /\ RetryAfter \in Nat \ {0}

VARIABLES
  config,     \* this node's [[safety.limits]]: "none", "fits" or "too_long"
  boot,       \* boot_id of the node's present run
  told,       \* it has taken limits in this run
  beaconAge,  \* age of its last beacon
  up,         \* frames on their way to the host
  down,       \* set_limits commands on their way to the node
  facts,      \* the boot evidence, one fact of a kind, the newest last
  pushed,     \* the limits_pushed fact, or NoPush
  pushAge,    \* its age
  link        \* the gateway link is open

node == <<boot, told, beaconAge>>
host == <<facts, pushed, pushAge>>
vars == <<config, node, up, down, host, link>>

Kinds == {"announce", "beacon", "reply"}
NoBoot == 0
NoPush == [boot |-> NoBoot, refused |-> FALSE]

-----------------------------------------------------------------------------
(* The host's reading of its facts.                                         *)

\* boot_snapshot: the boot the node named last, in any kind of frame.
Latest == IF facts = << >> THEN NoBoot ELSE Last(facts).boot

StillDenyAll == \E f \in ToSet(facts) : f.kind = "beacon" /\ f.deny /\ f.boot = Latest

\* Mutants: a boot once pushed against is never owed again; it is owed again
\* once the push is old, whatever the node says.
OwedOnce == Latest # NoBoot /\ config # "none" /\ pushed.boot # Latest
OwedUnasked ==
  /\ Latest # NoBoot /\ config # "none"
  /\ pushed.boot = Latest => ~pushed.refused /\ pushAge >= RetryAfter
\* limits_to_push: a boot not pushed against, or one whose beacon still says
\* deny-all long enough after the push.
Owed ==
  /\ Latest # NoBoot /\ config # "none"
  /\ pushed.boot = Latest => StillDenyAll /\ ~pushed.refused /\ pushAge >= RetryAfter

-----------------------------------------------------------------------------
\* One frame more than the air holds costs another.
Send(f) == IF Cardinality(up) < MaxFlight THEN up' = up \cup {f}
           ELSE \E g \in up : up' = (up \ {g}) \cup {f}
Frame(kind, b, deny) == [kind |-> kind, boot |-> b, deny |-> deny]

Init ==
  /\ config \in {"none", "fits", "too_long"}
  /\ boot = 1 /\ told = FALSE /\ beaconAge = 0
  /\ up = {Frame("announce", 1, TRUE)} /\ down = {}
  /\ facts = << >> /\ pushed = NoPush /\ pushAge = RetryAfter
  /\ link = TRUE

\* A reset of the node: a fresh boot id, deny-all, an announcement.
Reboot ==
  /\ boot < MaxBoots /\ boot' = boot + 1
  /\ told' = FALSE /\ beaconAge' = 0
  /\ Send(Frame("announce", boot', TRUE))
  /\ UNCHANGED <<config, down, host, link>>

Beacon ==
  /\ beaconAge >= BeaconEvery /\ beaconAge' = 0
  /\ Send(Frame("beacon", boot, ~told))
  /\ UNCHANGED <<config, boot, told, down, host, link>>

\* set_limits arrives: it is taken whichever boot it was pushed for, and
\* answered with the boot id of the run that took it.
TakeLimits(c) ==
  /\ c \in down /\ down' = down \ {c}
  /\ told' = TRUE
  /\ Send(Frame("reply", boot, FALSE))
  /\ UNCHANGED <<config, boot, beaconAge, host, link>>

\* The facts but that of a kind, in their order.
WithoutKind(k) ==
  {[n \in DOMAIN r |-> facts[r[n]]] : r \in Ascending({i \in DOMAIN facts : facts[i].kind # k})}

\* A frame reaches the host over an open link: its fact replaces the last of
\* its kind and is the newest.
Arrive(f) ==
  /\ f \in up /\ link /\ up' = up \ {f}
  /\ \E rest \in WithoutKind(f.kind) : facts' = Append(rest, f)
  /\ UNCHANGED <<config, node, down, pushed, pushAge, link>>

\* A reply to another command, with no boot id in it, replaces the fact.
OtherReply ==
  /\ link /\ \E f \in ToSet(facts) : f.kind = "reply"
  /\ facts' \in WithoutKind("reply")
  /\ UNCHANGED <<config, node, up, down, pushed, pushAge, link>>

LoseFrame(f) ==
  /\ f \in up /\ up' = up \ {f}
  /\ UNCHANGED <<config, node, down, host, link>>
LosePush(c) ==
  /\ c \in down /\ down' = down \ {c}
  /\ UNCHANGED <<config, node, up, host, link>>

LinkChanges ==
  /\ link' = ~link
  /\ UNCHANGED <<config, node, up, down, host>>

\* hydrate_limits, never over a lost link: an owed push is sent and recorded,
\* one too long for a frame only recorded, as refused.  A pass that owes
\* nothing, or whose sink fails, changes nothing.
Hydrate ==
  /\ link /\ Owed
  /\ pushed' = [boot |-> Latest, refused |-> config = "too_long"] /\ pushAge' = 0
  /\ down' = IF config = "fits" THEN down \cup {Latest} ELSE down
  /\ UNCHANGED <<config, node, up, facts, link>>

Elapse ==
  /\ beaconAge < BeaconEvery \* the node's loop beacons when it is due
  /\ beaconAge' = beaconAge + 1
  /\ pushAge' = IF pushAge < RetryAfter THEN pushAge + 1 ELSE pushAge
  /\ UNCHANGED <<config, boot, told, up, down, facts, pushed, link>>

Next ==
  \/ Reboot \/ Beacon \/ (\E c \in down : TakeLimits(c))
  \/ (\E f \in up : Arrive(f) \/ LoseFrame(f)) \/ (\E c \in down : LosePush(c))
  \/ OtherReply \/ LinkChanges \/ Hydrate \/ Elapse

Spec == Init /\ [][Next]_vars

\* The node's loop turns; the supervisor's ticks find a push owed again and
\* again and its sink sends one of them; a frame leaves the air, one way or
\* the other; and of the beacons and the pushes sent again and again some
\* get through.
Fairness ==
  /\ WF_vars(Beacon) /\ WF_vars(Elapse) /\ SF_vars(Hydrate)
  /\ WF_vars(\E f \in up : Arrive(f) \/ LoseFrame(f))
  /\ SF_vars(\E f \in up : f.kind = "beacon" /\ Arrive(f))
  /\ SF_vars(\E c \in down : TakeLimits(c))
FairSpec == Spec /\ Fairness

-----------------------------------------------------------------------------
(* Properties.                                                              *)

Frames == [kind : Kinds, boot : 1 .. MaxBoots, deny : BOOLEAN]
\* Every variable has its type, and there is one fact of a kind.
TypeOK ==
  /\ config \in {"none", "fits", "too_long"} /\ boot \in 1 .. MaxBoots
  /\ told \in BOOLEAN /\ beaconAge \in 0 .. BeaconEvery
  /\ up \subseteq Frames /\ down \subseteq 1 .. MaxBoots
  /\ ToSet(facts) \subseteq Frames
  /\ \A i, j \in DOMAIN facts : facts[i].kind = facts[j].kind => i = j
  /\ pushed \in [boot : 0 .. MaxBoots, refused : BOOLEAN] /\ pushAge \in 0 .. RetryAfter
  /\ link \in BOOLEAN

\* A node with limits that fit a frame ends up under them, whatever frames
\* are lost, however often it resets, once the link stays open.
EventuallyTold == (config = "fits" /\ <>[]link) => <>[]told

\* And the host then stops pushing: no node is re-armed for ever.
PushesStop == <>[]link => <>[][down' \subseteq down]_vars

\* The host never pushes what cannot be carried, and a push refused for its
\* size stays refused until the node names another boot.
OnlyFittingLimitsTravel ==
  [][/\ down' \subseteq down \/ config = "fits"
     /\ pushed.refused /\ Latest = pushed.boot => pushed' = pushed /\ pushAge' >= pushAge]_vars

\* The state is well formed, what is pushed fits, and pushing comes to an end.
PushesFitAndStop == []TypeOK /\ OnlyFittingLimitsTravel /\ PushesStop

\* The limits arrive, and then nobody is pushed to any more.
LimitsSettle == EventuallyTold /\ PushesFitAndStop
=============================================================================
