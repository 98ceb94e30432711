------------------------------- MODULE MCLinks -------------------------------
(***************************************************************************)
(* What carries frames and calls to the host and back, and what it commands. *)
(* The components share no state, so one run checks them side by side:      *)
(* `part`, chosen at the start, names the one that moves.                   *)
(*   "console"  the two receive windows in series (ConsoleChain)            *)
(*   "air"      the bursts of refusals a base reports (AirWatch)            *)
(*   "calls"    a call between two hosts over TCP (P2pCalls)                *)
(*   "serial"   the gateway's serial link and its supervisor (SpineLink)    *)
(*   "flood"    frames relayed between hosts (MeshFlood)                    *)
(*   "mcp"      calls of an MCP server over stdio (McpClient)               *)
(*   "model"    completions asked of model providers (Providers)            *)
(*   "safing"   safing rules, their flags and the actuator (Safing)         *)
(***************************************************************************)
EXTENDS ConsoleChain, AirWatch, P2pCalls, SpineLink, MeshFlood,
        McpClient, Providers, Safing

CONSTANTS gwA, srcA, srcB, srcC, call1, call2, cmd1, cmd2, hostA, hostB, hostC,
          toolA, toolB

VARIABLE part

SuitesMC == {{"power"}, {"net"}}
HearsMC == {p \in {hostA, hostB, hostC} \X {hostA, hostB, hostC} : p[1] # p[2]}

\* Servers of before the stateless lifecycle, of between, and of after it.
ServersMC == {{"initialize"}, {"initialize", "listBare"}, {"callBare", "listBare"},
              {"discover", "callBare", "listBare"}}

linksVars ==
  <<part, chainVars, airVars, callVars, linkVars, floodVars, mcpVars, providerVars, safingVars>>

OnConsole(A) ==
  /\ part = "console" /\ A
  /\ UNCHANGED <<part, airVars, callVars, linkVars, floodVars, mcpVars, providerVars, safingVars>>
OnAir(A) ==
  /\ part = "air" /\ A
  /\ UNCHANGED <<part, chainVars, callVars, linkVars, floodVars, mcpVars, providerVars, safingVars>>
OnCalls(A) ==
  /\ part = "calls" /\ A
  /\ UNCHANGED <<part, chainVars, airVars, linkVars, floodVars, mcpVars, providerVars, safingVars>>
OnSerial(A) ==
  /\ part = "serial" /\ A
  /\ UNCHANGED <<part, chainVars, airVars, callVars, floodVars, mcpVars, providerVars, safingVars>>
OnFlood(A) ==
  /\ part = "flood" /\ A
  /\ UNCHANGED <<part, chainVars, airVars, callVars, linkVars, mcpVars, providerVars, safingVars>>
OnMcp(A) ==
  /\ part = "mcp" /\ A
  /\ UNCHANGED <<part, chainVars, airVars, callVars, linkVars, floodVars, providerVars, safingVars>>
OnModel(A) ==
  /\ part = "model" /\ A
  /\ UNCHANGED <<part, chainVars, airVars, callVars, linkVars, floodVars, mcpVars, safingVars>>
OnSafing(A) ==
  /\ part = "safing" /\ A
  /\ UNCHANGED <<part, chainVars, airVars, callVars, linkVars, floodVars, mcpVars, providerVars>>

LinksInit ==
  /\ part \in {"console", "air", "calls", "serial", "flood", "mcp", "model", "safing"}
  /\ ChainInit
  /\ AirInit
  /\ CallsInit
  /\ LinkInit
  /\ FloodInit
  /\ McpInit
  /\ ProvidersInit
  /\ SafingInit
  \* What stands still starts somewhere.
  /\ part # "serial" => port
  /\ part # "mcp" => pin = "stateless" /\ server.kind = {"initialize"}
  /\ part # "model" => retries /\ chain
  /\ part # "safing" => suites = {"power"}

LinksNext ==
  \/ OnConsole(\E s \in Station, k \in Ctr : LineArrives(s, k))
  \/ OnConsole(\E s \in Station, k \in Ctr : LineLost(s, k))
  \/ OnConsole(BaseReboots)
  \/ OnConsole(HostReboots)
  \/ OnAir(\E s \in Claimed : RefusalLine(s))
  \/ OnAir(FrameLine)
  \/ OnAir(OtherLine)
  \/ OnAir(AirRestart)
  \/ OnAir(CrashAtCount)
  \/ OnAir(AirTick)
  \/ OnCalls(SecondPasses)
  \/ OnCalls(CallerRestarts)
  \/ OnCalls(ServerRestarts)
  \/ OnCalls(AcceptSilent)
  \/ OnCalls(KnowsChange)
  \/ OnCalls(\E k \in Calls : Invoke(k))
  \/ OnCalls(\E k \in Calls : GiveUp(k))
  \/ OnCalls(\E k \in Calls : Accept(k))
  \/ OnCalls(\E k \in Calls : AcceptCopy(k))
  \/ OnCalls(\E k \in Calls : RunEnds(k))
  \/ OnCalls(\E s \in 1 .. Slots : ReadTimesOut(s))
  \/ OnCalls(\E s \in 1 .. Slots : AnswerUnpinned(s))
  \/ OnCalls(\E s \in 1 .. Slots : DropStale(s))
  \/ OnCalls(\E s \in 1 .. Slots : Refuse(s))
  \/ OnCalls(\E s \in 1 .. Slots : RunTool(s))
  \/ OnCalls(\E s \in 1 .. Slots : ToolTimesOut(s))
  \/ OnSerial(Unplug)
  \/ OnSerial(Plug)
  \/ OnSerial(IoWrites)
  \/ OnSerial(IoReads)
  \/ OnSerial(IoReadFails)
  \/ OnSerial(IoExits)
  \/ OnSerial(RxLine)
  \/ OnSerial(OutageBegins)
  \/ OnSerial(RecordLost)
  \/ OnSerial(Reopening)
  \/ OnSerial(AttemptFails)
  \/ OnSerial(AttemptOpens)
  \/ OnSerial(RecordOpen)
  \/ OnSerial(\E k \in Commands : TakeWriter(k))
  \/ OnSerial(\E k \in Commands : SendQueued(k))
  \/ OnSerial(\E k \in Commands : SendFails(k))
  \/ OnFlood(\E h \in Hosts, id \in Ids : Originate(h, id))
  \/ OnFlood(\E f \in inFlight : Receive(f))
  \/ OnFlood(\E f \in inFlight : LoseFrame(f))
  \/ OnMcp(\E c \in ToolCalls : CallTool(c))
  \/ OnMcp(WriteRequest)
  \/ OnMcp(WriteFails)
  \/ OnMcp(ReadReply)
  \/ OnMcp(SkipFrame)
  \/ OnMcp(ReadEnds)
  \/ OnMcp(Respawn)
  \/ OnMcp(RespawnFails)
  \/ OnMcp(Abandon)
  \/ OnMcp(ServerRuns)
  \/ OnMcp(ServerRefuses)
  \/ OnMcp(ServerSpeaks)
  \/ OnMcp(ServerEnds)
  \/ OnModel(StreamOpens)
  \/ OnModel(TextArrives)
  \/ OnModel(StreamCompletes)
  \/ OnModel(NextProvider)
  \/ OnModel(\E e \in Errors : BacksOff(e))
  \/ OnModel(Retry)
  \/ OnModel(\E e \in Errors : Surfaces(e))
  \/ OnSafing(\E e \in suites : \E m \in Modes[e] : ModeChanges(e, m))
  \/ OnSafing(SafingTime)
  \/ OnSafing(SafingTick)
  \/ OnSafing(Publish)
  \/ OnSafing(PublishFails)
  \/ OnSafing(Escalate)
  \/ OnSafing(EscalateFails)
  \/ OnSafing(\E cmd \in {"run", "stop"} : Plan("tool", cmd))
  \/ OnSafing(\E cmd \in {"run", "stop"} : PlanRefused("tool", cmd))
  \/ OnSafing(Plan("reflex", "stop"))
  \/ OnSafing(PlanRefused("reflex", "stop"))
  \/ OnSafing(\E m \in Movers : Drive(m))

\* A server answers whoever it let in, or gives up on it.
ServerStep ==
  \E s \in 1 .. Slots :
    \/ ReadTimesOut(s) \/ AnswerUnpinned(s) \/ DropStale(s) \/ Refuse(s)
    \/ RunTool(s) \/ ToolTimesOut(s)

LinksSpec ==
  /\ LinksInit
  /\ [][LinksNext]_linksVars
  /\ WF_linksVars(OnAir(AirTick))       \* time passes,
  /\ WF_linksVars(OnAir(FrameLine))     \* and frames of other stations arrive
  /\ WF_linksVars(OnCalls(ServerStep))
  /\ WF_linksVars(OnSerial(SupervisorStep))
  /\ WF_linksVars(OnSerial(IoStep))
  /\ WF_linksVars(OnFlood(\E f \in inFlight : Receive(f)))
  /\ WF_linksVars(OnSafing(SafingTime))
  /\ WF_linksVars(OnSafing(SafingTick))
  /\ WF_linksVars(OnSafing(DispatchStep))
  /\ WF_linksVars(OnSafing(Drive("tool")))
===============================================================================
