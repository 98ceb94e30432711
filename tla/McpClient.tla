------------------------------- MODULE McpClient -------------------------------
(***************************************************************************)
(* A connection to an MCP server over stdio (crates/obc-mcp/src/client.rs)  *)
(* and the tool that calls through it (McpRemoteTool of lib.rs): lifecycles *)
(* are negotiated when it opens, replies are told apart by their ids, and a *)
(* server found dead is started again, without the call that found it so.   *)
(* A caller may stop waiting at any await; a server may write what nobody   *)
(* asked for, say nothing, or end.                                          *)
(***************************************************************************)
EXTENDS Integers, Sequences, FiniteSets

CONSTANTS ToolCalls,   \* calls the agent may make, each once
          ServerKinds, \* what a server may answer: sets of Abilities
          FrameBound,  \* frames of others a request passes over (64)
          MaxNoise,    \* bound: frames nobody asked for
          MaxDeaths    \* bound: ends of the server's process

(* server/discover; initialize; tools/list, and tools/call, with no handshake. *)
Abilities == {"discover", "initialize", "listBare", "callBare"}

\* Whoever takes a call bare lists its tools bare, whoever knows
\* server/discover takes calls bare, and there is some way to call.
ASSUME McpAssumption ==
  /\ FrameBound \in Nat /\ MaxNoise \in Nat /\ MaxDeaths \in Nat
  /\ \A s \in ServerKinds :
       /\ s \subseteq Abilities
       /\ "callBare" \in s => "listBare" \in s
       /\ "discover" \in s => "callBare" \in s
       /\ {"initialize", "callBare"} \cap s # {}

VARIABLES server,   \* its kind, whether it lives, and whether it was initialized
          pin,      \* protocol_mode of the configuration, or "none"
          conn,     \* McpClient: its mode, its next id, and the request in it
          pipeIn,   \* stdin of the server: what it has yet to read
          pipeOut,  \* its stdout: lines the client has yet to read
          told,     \* call -> what its caller was told, and of which call
          ran,      \* call -> times a server ran it
          noise, deaths

mcpVars == <<server, pin, conn, pipeIn, pipeOut, told, ran, noise, deaths>>

NoCall  == "nobody"
\* The marks of what is no request are no calls.
ASSUME MarksAssumption == NoCall \notin ToolCalls /\ "half" \notin ToolCalls /\ "garbage" \notin ToolCalls
Frame(id, call) == [id |-> id, call |-> call]
Noise   == Frame(0, NoCall)   \* a notification, a log line, part of a line
Half    == Frame(0, "half")   \* a request cut off before its newline
Garbage == Frame(0, "garbage") \* the line that half became
Untold  == [what |-> "nothing", of |-> NoCall]

Idle(c) == [c EXCEPT !.at = "free", !.call = NoCall, !.id = 0, !.skipped = 0, !.sent = FALSE]
TellCaller(c, what, of) == told' = [told EXCEPT ![c] = [what |-> what, of |-> of]]

----------------------------------------------------------------------------
(* Opening a connection. *)

(* negotiate: server/discover, then initialize, then a bare tools/list. *)
Negotiated(s) ==
  IF "discover" \in s THEN "stateless"
  ELSE IF "initialize" \in s THEN "legacy"
  ELSE IF "listBare" \in s THEN "stateless" ELSE "neither"

(* establish: a pinned legacy lifecycle needs its handshake, a pinned         *)
(* stateless one is taken without an answer.                                  *)
Lifecycle(s) ==
  CASE pin = "none"   -> Negotiated(s)
    [] pin = "legacy" -> IF "initialize" \in s THEN "legacy" ELSE "neither"
    [] OTHER          -> "stateless"

Connection(s) ==
  [mode |-> Lifecycle(s), next |-> 1, at |-> "free", call |-> NoCall, id |-> 0,
   skipped |-> 0, sent |-> FALSE]
Process(s) == [kind |-> s, alive |-> TRUE, initialized |-> Lifecycle(s) = "legacy"]

McpInit ==
  /\ pin \in {"none", "legacy", "stateless"}
  /\ \E s \in ServerKinds : Lifecycle(s) # "neither" /\ conn = Connection(s) /\ server = Process(s)
  /\ pipeIn = <<>> /\ pipeOut = <<>>
  /\ told = [c \in ToolCalls |-> Untold]
  /\ ran = [c \in ToolCalls |-> 0]
  /\ noise = 0 /\ deaths = 0

----------------------------------------------------------------------------
(* A call, from the lock on the client to what its caller is told. *)

CallTool(c) ==
  /\ conn.at = "free" /\ told[c] = Untold
  /\ conn' = [conn EXCEPT !.at = "writing", !.call = c, !.id = conn.next, !.next = @ + 1]
  /\ UNCHANGED <<server, pin, pipeIn, pipeOut, told, ran, noise, deaths>>

CutOff == pipeIn # <<>> /\ pipeIn[Len(pipeIn)] = Half

(* request: the line is in the pipe; behind the half of one it is no request. *)
WriteRequest ==
  /\ conn.at = "writing" /\ server.alive
  /\ conn' = [conn EXCEPT !.at = "reading"]
  /\ pipeIn' = IF CutOff THEN [pipeIn EXCEPT ![Len(pipeIn)] = Garbage]
               ELSE Append(pipeIn, Frame(conn.id, conn.call))
  /\ UNCHANGED <<server, pin, pipeOut, told, ran, noise, deaths>>

(* ServerGone: the pipe is broken, and the server never saw this call. *)
WriteFails ==
  /\ conn.at = "writing" /\ ~server.alive
  /\ conn' = [conn EXCEPT !.at = "respawning", !.sent = FALSE]
  /\ UNCHANGED <<server, pin, pipeIn, pipeOut, told, ran, noise, deaths>>

(* Mutant: the next line is taken for the answer. *)
IsOursAnyhow(f) == f # Noise
(* The reply to this request, by its id. *)
IsOurs(f) == f.id = conn.id

ReadReply ==
  /\ conn.at = "reading" /\ pipeOut # <<>> /\ IsOurs(Head(pipeOut))
  /\ pipeOut' = Tail(pipeOut)
  /\ TellCaller(conn.call, IF Head(pipeOut).call = NoCall THEN "error" ELSE "result", Head(pipeOut).call)
  /\ conn' = Idle(conn)
  /\ UNCHANGED <<server, pin, pipeIn, ran, noise, deaths>>

(* Any other line is passed over, so many times. *)
SkipFrame ==
  /\ conn.at = "reading" /\ pipeOut # <<>> /\ ~IsOurs(Head(pipeOut))
  /\ pipeOut' = Tail(pipeOut)
  /\ IF conn.skipped < FrameBound
     THEN conn' = [conn EXCEPT !.skipped = @ + 1] /\ UNCHANGED told
     ELSE conn' = Idle(conn) /\ TellCaller(conn.call, "failed", NoCall)
  /\ UNCHANGED <<server, pin, pipeIn, ran, noise, deaths>>

(* ServerGone: the end of its stdout, with the request sent. *)
ReadEnds ==
  /\ conn.at = "reading" /\ pipeOut = <<>> /\ ~server.alive
  /\ conn' = [conn EXCEPT !.at = "respawning", !.sent = TRUE]
  /\ UNCHANGED <<server, pin, pipeIn, pipeOut, told, ran, noise, deaths>>

(* reconnect, in execute: a new process, new pipes, ids from 1; the caller is  *)
(* told whether its request had been sent, and repeats the call or does not.   *)
Respawn ==
  /\ conn.at = "respawning"
  /\ \E s \in ServerKinds :
       Lifecycle(s) # "neither" /\ conn' = Connection(s) /\ server' = Process(s)
  /\ pipeIn' = <<>> /\ pipeOut' = <<>>
  /\ TellCaller(conn.call, IF conn.sent THEN "unanswered" ELSE "undelivered", NoCall)
  /\ UNCHANGED <<pin, ran, noise, deaths>>

(* The server does not start, or answers neither lifecycle: the old, dead      *)
(* connection stays, and the next call tries again.                            *)
RespawnFails ==
  /\ conn.at = "respawning"
  /\ TellCaller(conn.call, "unavailable", NoCall)
  /\ conn' = Idle(conn)
  /\ UNCHANGED <<server, pin, pipeIn, pipeOut, ran, noise, deaths>>

(* The caller stops waiting: part of the request may be in the pipe, or part   *)
(* of a line out of it.                                                        *)
Abandon ==
  /\ conn.at # "free"
  /\ TellCaller(conn.call, "abandoned", NoCall)
  /\ conn' = Idle(conn)
  /\ IF conn.at = "writing" /\ server.alive
     THEN pipeIn' \in {pipeIn, IF CutOff THEN pipeIn ELSE Append(pipeIn, Half)} ELSE UNCHANGED pipeIn
  /\ IF conn.at = "reading" /\ pipeOut # <<>>
     THEN pipeOut' \in {pipeOut, [pipeOut EXCEPT ![1] = Noise]} ELSE UNCHANGED pipeOut
  /\ UNCHANGED <<server, pin, ran, noise, deaths>>

----------------------------------------------------------------------------
(* The server. *)

Takes == server.initialized \/ "callBare" \in server.kind

(* It runs the call it reads and replies, or does not reply. *)
ServerRuns ==
  /\ server.alive /\ pipeIn # <<>> /\ Head(pipeIn).call \in ToolCalls /\ Takes
  /\ pipeIn' = Tail(pipeIn)
  /\ ran' = [ran EXCEPT ![Head(pipeIn).call] = @ + 1]
  /\ pipeOut' \in {pipeOut, Append(pipeOut, Head(pipeIn))}
  /\ UNCHANGED <<server, pin, conn, told, noise, deaths>>

(* It refuses a call it cannot take, and what is no request. *)
ServerRefuses ==
  /\ server.alive /\ pipeIn # <<>> /\ Head(pipeIn) # Half
  /\ ~(Head(pipeIn).call \in ToolCalls /\ Takes)
  /\ pipeIn' = Tail(pipeIn)
  /\ pipeOut' \in {pipeOut, Append(pipeOut, Frame(Head(pipeIn).id, NoCall))}
  /\ UNCHANGED <<server, pin, conn, told, ran, noise, deaths>>

ServerSpeaks ==
  /\ server.alive /\ noise < MaxNoise
  /\ noise' = noise + 1
  /\ pipeOut' = Append(pipeOut, Noise)
  /\ UNCHANGED <<server, pin, conn, pipeIn, told, ran, deaths>>

ServerEnds ==
  /\ server.alive /\ deaths < MaxDeaths
  /\ deaths' = deaths + 1
  /\ server' = [server EXCEPT !.alive = FALSE]
  /\ pipeIn' = <<>>
  /\ UNCHANGED <<pin, conn, pipeOut, told, ran, noise>>

\* The client's own steps.
ClientStep ==
  WriteRequest \/ WriteFails \/ ReadReply \/ SkipFrame \/ ReadEnds \/ Respawn \/ RespawnFails

McpNext ==
  \/ \E c \in ToolCalls : CallTool(c)
  \/ ClientStep \/ Abandon
  \/ ServerRuns \/ ServerRefuses \/ ServerSpeaks \/ ServerEnds

McpSpec == McpInit /\ [][McpNext]_mcpVars

----------------------------------------------------------------------------
(* Properties. *)

\* What the model is told of a call is true of that call and of no other: a
\* result is its own, a call said not to have been delivered was never run,
\* and none is run twice, whoever stopped waiting before and whatever was
\* left in the pipes.  A connection that negotiated its lifecycle can call.
ResultsAreTheirOwn ==
  /\ \A c \in ToolCalls :
       /\ ran[c] <= 1
       /\ told[c].what = "result" => told[c].of = c /\ ran[c] = 1
       /\ told[c].what = "undelivered" => ran[c] = 0
  /\ pin = "none" => Takes
===============================================================================
