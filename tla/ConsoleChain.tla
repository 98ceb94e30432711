----------------------------- MODULE ConsoleChain -----------------------------
(***************************************************************************)
(* The two windows a frame passes on its way in: the base station's, which *)
(* decides whether the frame is printed on the console                     *)
(* (firmware/heltec-lora-linktest), and the host's, which decides whether  *)
(* the printed line is ingested (LoraAuth). Every line here comes from an  *)
(* honest station under the right root, so the host has nothing to alarm   *)
(* about; frames reach the base in any order the mesh produces.            *)
(***************************************************************************)
EXTENDS LoraAuth

CONSTANT
  M   \* ReplayWindow::M of the firmware

ASSUME CeilingAssumption == M \in Nat \ {0}

\* Both bitmaps are 64 wide.
Base == INSTANCE ReceiveWindow WITH WIDTH <- WINDOW

VARIABLES
  ceil,   \* ceil[s]: `rx_<s>` in the base's flash
  heard,  \* heard[s]: the base's window for s, resumed at boot
  floor   \* floor[s]: the mark the running host process started from

baseVars == <<ceil, heard>>
chainVars == <<vars, baseVars, floor>>

ChainInit ==
  /\ Init
  /\ ceil = [s \in Station |-> 0]
  /\ heard = [s \in Station |-> Base!Resume(0)]
  /\ floor = mark

\* The base accepts a frame and prints it.
Hear(s, c) ==
  /\ Base!Accepts(heard[s], c)
  /\ heard' = [heard EXCEPT ![s] = Base!Marked(heard[s], c)]
  /\ ceil' = IF Base!StoreNeeded(heard[s], c)
             THEN [ceil EXCEPT ![s] = Base!NewCeiling(c)]
             ELSE ceil

\* The line reaches the host, or is lost on the serial port.
LineArrives(s, c) == Hear(s, c) /\ Admit(s, Signed(c)) /\ UNCHANGED floor
LineLost(s, c)    == Hear(s, c) /\ UNCHANGED <<vars, floor>>

BaseReboots ==
  /\ heard' = [s \in Station |-> Base!Resume(ceil[s])]
  /\ UNCHANGED <<ceil, vars, floor>>

HostReboots == Restart /\ floor' = mark /\ UNCHANGED baseVars

ChainNext ==
  \/ \E s \in Station, c \in Ctr : LineArrives(s, c)
  \/ \E s \in Station, c \in Ctr : LineLost(s, c)
  \/ BaseReboots
  \/ HostReboots

ChainSpec == ChainInit /\ [][ChainNext]_chainVars

-----------------------------------------------------------------------------

\* What the base took the host takes, above the mark it started from:
\* re-ordering that the first window tolerates, and the gaps its reboots make,
\* are not refused by the second.
LinesTaken ==
  [][\A s \in Station, c \in Ctr :
       LineArrives(s, c) /\ c > floor[s] => Ok(s, Signed(c))]_chainVars

===============================================================================
