----------------------------- MODULE MCFirmware ------------------------------
(***************************************************************************)
(* The two boards of a node, which share nothing but frames the models      *)
(* take as given: `part`, chosen at the start, names the one that moves.    *)
(*   "radio"   the spine (SpineMesh): the node whose frames are modelled    *)
(*             and a bridge, both relaying, so that the node hears its own  *)
(*             frames come back; or a bench of three, with a base built     *)
(*             with `no-relay`                                              *)
(*   "node"    the node's reflexes (NodeReflex): one pin, a free and a slow *)
(*             policy, the bench's own kinds of host rule                   *)
(***************************************************************************)
EXTENDS SpineMesh, NodeReflex, TLC

CONSTANTS node, bridge, base

VARIABLE part

Pair  == {node, bridge}
Bench == {node, bridge, base}

\* The faults the sender and the receive path survive: a namespace that does
\* not open, a sending ceiling that is not written, a receive ceiling that is
\* not read.
SurvivedFaults == {"open", "seq_write", "rx_read"}
AllFaults      == Fault

Versions == Permutations(Firmwares)
AllPins == {1}
Pushed == {[pins |-> {1}, lo |-> 0, hi |-> 1, gap |-> 0],
           [pins |-> {1}, lo |-> 0, hi |-> 1, gap |-> 2]}
Readings == {[soc |-> 0, die |-> 0], [soc |-> 2, die |-> 0], [soc |-> 2, die |-> 1]}

Slotted(low, high) ==
  [kind |-> "slot", entity |-> "die", op |-> "le", slot |-> 0, min |-> low,
   max |-> high, default |-> 0]
\* die-cool of the bench: it drives the safe pin, once per run, when the die
\* is cool and has been for a while; the brain moves its threshold.
DieCool == Rule("die-cool", [kind |-> "and", all |-> {Slotted(0, 1), Sensor("soc", "ge", 0)}],
                Write(1, 1), 2, TRUE, 1)
BadSlot == Rule("die-cool", [Slotted(0, 1) EXCEPT !.slot = 9], Escalate, 0, FALSE, 0)

Sets == {<<DieCool>>, <<BadSlot>>}
CoolSets == {<<DieCool>>}
Descents == {{<<0, 1>>}, {<<0, 2>>}}

firmwareVars == <<part, vars, nodeVars>>

InRadio(A) == part = "radio" /\ A /\ UNCHANGED <<part, nodeVars>>
InNode(A)  == part = "node" /\ A /\ UNCHANGED <<part, vars>>

FirmwareInit == part \in {"radio", "node"} /\ Init /\ NodeInit

FirmwareNext ==
  \/ InRadio(Boot)
  \/ InRadio(Send)
  \/ InRadio(SendExtending)
  \/ InRadio(SendFailsClosed)
  \/ InRadio(Receive)
  \/ InNode(Elapse)
  \/ InNode(\E snap \in Snapshots, faulty \in {{}, {SafePin}} : Tick(snap, faulty))
  \/ InNode(\E p \in Pins, v \in 0 .. 1, faulty \in {{}, {SafePin}} : WriteCommand(Write(p, v), faulty))
  \/ InNode(\E snap \in Snapshots, faulty \in {{}, {SafePin}} : BenchTick(snap, faulty))
  \/ InNode(\E p \in Policies : SetLimits(p))
  \/ InNode(\E host \in HostRules, stored \in BOOLEAN : SetReflexRules(host, stored))
  \/ InNode(\E clear \in BOOLEAN, pairs \in Messages : Descend(clear, pairs))
  \/ InNode(OtherContact)
  \/ InNode(\E fw \in Firmwares, readable \in BOOLEAN : Reboot(fw, readable))

FirmwareSpec == FirmwareInit /\ [][FirmwareNext]_firmwareVars
=============================================================================
