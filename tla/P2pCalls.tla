------------------------------- MODULE P2pCalls -------------------------------
(***************************************************************************)
(* A tool call over the broker-free spine (invoke_tool, answer,            *)
(* run_for_peer and the TCP server of crates/obc-spine/src/p2p.rs) with    *)
(* the frame authentication it goes through (crates/obc-safety/src/        *)
(* frame_auth.rs).  One caller, one server; a signed request that has been *)
(* on the wire can be sent again by anyone.                                *)
(***************************************************************************)
EXTENDS Integers, FiniteSets

CONSTANTS Calls,       \* the calls the caller may make
          Slots,       \* MAX_INBOUND_CONNECTIONS (32)
          CallWindow,  \* WINDOW of the anti-replay window (64)
          LastSecond,  \* bound: the caller's clock
          MaxCallCtr,  \* bound: counters
          MaxCopies,   \* bound: requests sent again
          MaxEnds      \* bound: process ends, caller and server together

ASSUME CallsAssumption ==
  /\ Slots \in Nat \ {0}
  /\ CallWindow \in Nat \ {0}
  /\ MaxCallCtr \in Nat \ {0}
  /\ MaxCallCtr >= LastSecond + Cardinality(Calls)

Window == INSTANCE HostWindow WITH WINDOW <- CallWindow, MaxCtr <- MaxCallCtr

VARIABLES second,    \* the caller's clock
          nextCtr,   \* OutboundCounters of the caller; 0 before the first use
          calls,     \* call -> where it is, its counter, what the caller was told
          inWindow,    \* the server's window for the caller
          knows,     \* what the server has of the caller: key pinned, paired peer
          slots,     \* connections being handled
          runs,      \* call -> tool runs: started, and ended
          copies, ends,
          runsBefore \* runs of calls by servers that have ended since

callVars == <<second, nextCtr, calls, inWindow, knows, slots, runs, copies, ends, runsBefore>>

NotMade == [at |-> "none", ctr |-> 0, told |-> "nothing"]
NoConn  == [at |-> "free"]
NotRun  == [started |-> 0, ended |-> 0]

CallsInit ==
  /\ second = 1
  /\ nextCtr = 0
  /\ calls = [c \in Calls |-> NotMade]
  /\ inWindow = Window!Unheard
  /\ knows = [pinned |-> FALSE, peer |-> FALSE]
  /\ slots = [s \in 1 .. Slots |-> NoConn]
  /\ runs = [c \in Calls |-> NotRun]
  /\ copies = 0
  /\ ends = 0
  /\ runsBefore = [c \in Calls |-> NotRun]

----------------------------------------------------------------------------
(* The caller. *)

SecondPasses ==
  /\ second < LastSecond
  /\ second' = second + 1
  /\ UNCHANGED <<nextCtr, calls, inWindow, knows, slots, runs, copies, ends, runsBefore>>

(* OutboundCounters::next: seeded with the clock at its first use. *)
NextCounter == IF nextCtr = 0 THEN second ELSE nextCtr

(* invoke_tool: signed, and on its way. *)
Invoke(c) ==
  /\ calls[c] = NotMade
  /\ NextCounter < MaxCallCtr
  /\ nextCtr' = NextCounter + 1
  /\ calls' = [calls EXCEPT ![c] = [@ EXCEPT !.at = "connecting", !.ctr = NextCounter]]
  /\ UNCHANGED <<second, inWindow, knows, slots, runs, copies, ends, runsBefore>>

Tell(c, what) == [calls EXCEPT ![c] = [@ EXCEPT !.at = "told", !.told = what]]

(* No connection, the stream ends, or the wait is over: the outcome is unknown. *)
GiveUp(c) ==
  /\ calls[c].at \in {"connecting", "waiting"}
  /\ calls' = Tell(c, "unknown")
  /\ UNCHANGED <<second, nextCtr, inWindow, knows, slots, runs, copies, ends, runsBefore>>

CallerRestarts ==
  /\ ends < MaxEnds
  /\ ends' = ends + 1
  /\ nextCtr' = 0
  /\ calls' = [c \in Calls |-> IF calls[c].at \in {"connecting", "waiting"}
                               THEN [calls[c] EXCEPT !.at = "told", !.told = "unknown"]
                               ELSE calls[c]]
  /\ UNCHANGED <<second, inWindow, knows, slots, runs, copies, runsBefore>>

----------------------------------------------------------------------------
(* The server. *)

Free == {s \in DOMAIN slots : slots[s] = NoConn}

(* A connection takes a slot; without one it is closed at once. *)
Accept(c) ==
  /\ calls[c].at = "connecting"
  /\ Free # {}
  /\ \E s \in Free : slots' = [slots EXCEPT ![s] = [at |-> "read", call |-> c, asked |-> TRUE]]
  /\ calls' = [calls EXCEPT ![c].at = "waiting"]
  /\ UNCHANGED <<second, nextCtr, inWindow, knows, runs, copies, ends, runsBefore>>

(* A request seen before comes in again, from someone who gets no answer. *)
AcceptCopy(c) ==
  /\ calls[c] # NotMade
  /\ copies < MaxCopies
  /\ copies' = copies + 1
  /\ \E s \in Free : slots' = [slots EXCEPT ![s] = [at |-> "read", call |-> c, asked |-> FALSE]]
  /\ UNCHANGED <<second, nextCtr, calls, inWindow, knows, runs, ends, runsBefore>>

(* A connection on which nothing comes is closed after REQUEST_READ_TIMEOUT. *)
AcceptSilent ==
  /\ copies < MaxCopies
  /\ copies' = copies + 1
  /\ \E s \in Free : slots' = [slots EXCEPT ![s] = [at |-> "silent"]]
  /\ UNCHANGED <<second, nextCtr, calls, inWindow, knows, runs, ends, runsBefore>>

ReadTimesOut(s) ==
  /\ slots[s].at = "silent"
  /\ slots' = [slots EXCEPT ![s] = NoConn]
  /\ UNCHANGED <<second, nextCtr, calls, inWindow, knows, runs, copies, ends, runsBefore>>

(* The answer reaches the caller if it is the one who asked and still waits. *)
Answered(s, what) ==
  calls' = IF slots[s].asked /\ calls[slots[s].call].at = "waiting"
           THEN Tell(slots[s].call, what) ELSE calls

Closed(s) == slots' = [slots EXCEPT ![s] = NoConn]

SlotCtr(s) == calls[slots[s].call].ctr

(* answer, to a member whose key is not pinned yet: no counter moves. *)
AnswerUnpinned(s) ==
  /\ slots[s].at = "read"
  /\ ~knows.pinned
  /\ Answered(s, "unpinned")
  /\ Closed(s)
  /\ UNCHANGED <<second, nextCtr, inWindow, knows, runs, copies, ends, runsBefore>>

(* A frame that does not verify is dropped; the stream closes on its sender. *)
DropStale(s) ==
  /\ slots[s].at = "read"
  /\ knows.pinned
  /\ ~Window!Fresh(inWindow, SlotCtr(s))
  /\ Answered(s, "unknown")
  /\ Closed(s)
  /\ UNCHANGED <<second, nextCtr, inWindow, knows, runs, copies, ends, runsBefore>>

Verified(s) ==
  /\ slots[s].at = "read"
  /\ knows.pinned
  /\ Window!Fresh(inWindow, SlotCtr(s))
  /\ inWindow' = Window!Recorded(inWindow, SlotCtr(s))

(* Mutant: a refusal leaves the window as it was. *)
RefuseUnrecorded(s) ==
  /\ slots[s].at = "read"
  /\ knows.pinned
  /\ Window!Fresh(inWindow, SlotCtr(s))
  /\ ~knows.peer
  /\ Answered(s, "refused")
  /\ Closed(s)
  /\ UNCHANGED <<second, nextCtr, inWindow, knows, runs, copies, ends, runsBefore>>

(* run_for_peer refuses: nothing served, or not a paired peer now. *)
Refuse(s) ==
  /\ Verified(s)
  /\ ~knows.peer
  /\ Answered(s, "refused")
  /\ Closed(s)
  /\ UNCHANGED <<second, nextCtr, knows, runs, copies, ends, runsBefore>>

RunTool(s) ==
  /\ Verified(s)
  /\ knows.peer
  /\ slots' = [slots EXCEPT ![s].at = "run"]
  /\ runs' = [runs EXCEPT ![slots[s].call].started = @ + 1]
  /\ UNCHANGED <<second, nextCtr, calls, knows, copies, ends, runsBefore>>

Running(c) == runs[c].started > runs[c].ended

(* The tool ends; whoever still waits for it is told. *)
RunEnds(c) ==
  /\ Running(c)
  /\ runs' = [runs EXCEPT ![c].ended = @ + 1]
  /\ LET waiting == {s \in DOMAIN slots : slots[s].at = "run" /\ slots[s].call = c}
     IN IF waiting = {} THEN UNCHANGED <<calls, slots>>
        ELSE \E s \in waiting : Answered(s, "done") /\ Closed(s)
  /\ UNCHANGED <<second, nextCtr, inWindow, knows, copies, ends, runsBefore>>

(* Mutant: the connection is held until the tool ends. *)
ToolTimesOutHeld(s) ==
  /\ slots[s].at = "run"
  /\ Answered(s, "still running")
  /\ UNCHANGED <<second, nextCtr, inWindow, knows, slots, runs, copies, ends, runsBefore>>

(* tool_timeout_secs: the caller is told, the run goes on by itself. *)
ToolTimesOut(s) ==
  /\ slots[s].at = "run"
  /\ Answered(s, "still running")
  /\ Closed(s)
  /\ UNCHANGED <<second, nextCtr, inWindow, knows, runs, copies, ends, runsBefore>>

(* Discovery: the caller's announcement is taken, refused, or grows stale. *)
KnowsChange ==
  /\ \E peer \in BOOLEAN :
       /\ knows' = [pinned |-> knows.pinned \/ peer, peer |-> peer]
       /\ knows' # knows
  /\ UNCHANGED <<second, nextCtr, calls, inWindow, slots, runs, copies, ends, runsBefore>>

(* The window, the registry and what was running go; the pin stays. *)
ServerRestarts ==
  /\ ends < MaxEnds
  /\ ends' = ends + 1
  /\ inWindow' = Window!Unheard
  /\ knows' = [knows EXCEPT !.peer = FALSE]
  /\ slots' = [s \in DOMAIN slots |-> NoConn]
  /\ calls' = [c \in Calls |->
       CASE calls[c].at = "waiting" -> [calls[c] EXCEPT !.at = "told", !.told = "unknown"]
         [] calls[c].told = "refused" -> [calls[c] EXCEPT !.told = "refused before"]
         [] OTHER -> calls[c]]
  /\ runs' = [c \in Calls |-> NotRun]
  /\ runsBefore' = [c \in Calls |->
       [started |-> runsBefore[c].started + runs[c].started,
        ended |-> runsBefore[c].ended + runs[c].ended]]
  /\ UNCHANGED <<second, nextCtr, copies>>

CallsNext ==
  \/ SecondPasses \/ CallerRestarts \/ ServerRestarts \/ AcceptSilent \/ KnowsChange
  \/ \E c \in Calls : Invoke(c) \/ GiveUp(c) \/ Accept(c) \/ AcceptCopy(c) \/ RunEnds(c)
  \/ \E s \in 1 .. Slots :
       \/ ReadTimesOut(s) \/ AnswerUnpinned(s) \/ DropStale(s) \/ Refuse(s)
       \/ RunTool(s) \/ ToolTimesOut(s)

----------------------------------------------------------------------------
(* While a server lives a request runs at most once, sent again or not; a   *)
(* caller told "done" had it run to its end, and one whose verified request *)
(* was refused (p2p.rs:1047) has it not run later by that server, when the  *)
(* caller has become a peer.                                               *)
ToldIsTrue ==
  \A c \in Calls :
    /\ runs[c].started <= 1
    /\ calls[c].told = "done" => runs[c].ended + runsBefore[c].ended >= 1
    /\ calls[c].told = "refused" => runs[c].started = 0

(* Connections that never ask, tools that never end: there is always       *)
(* another free slot to come.                                              *)
SlotsReturn == []<>(Free # {})
=================================================================================
