-------------------------------- MODULE Providers --------------------------------
(***************************************************************************)
(* A streamed completion asked of a model provider through its wrappers     *)
(* (crates/obc-providers): RetryProvider asks again after a transient       *)
(* error, FailoverProvider asks the next provider, and retry, where both    *)
(* are configured, is the outer one. Each piece of text reaches the         *)
(* operator as it arrives, through the sinks of both; a wrapper that starts *)
(* over after part of an answer was shown sends Restart, which clears it.   *)
(***************************************************************************)
EXTENDS Integers, Sequences

CONSTANTS Fallbacks,  \* providers behind the primary one, 0 for no failover
          MaxRetries, \* max_retries of the retry configuration
          MaxPieces   \* bound: pieces of text in one answer

ASSUME ProvidersAssumption == Fallbacks \in Nat /\ MaxRetries \in Nat /\ MaxPieces \in Nat

VARIABLES retries,  \* whether a retry policy is configured
          chain,    \* whether the fallbacks are
          attempt,  \* of RetryProvider, from 0
          provider, \* of FailoverProvider, from 0: the primary
          turn,     \* "asking", "streaming", "backoff", "ok" or "err"
          fold,     \* StreamFold of the provider being asked: its text so far
          view,     \* what the operator has been shown
          owed,     \* wrapper -> its `emitted` flag: it has let text through
          asks      \* requests sent

providerVars == <<retries, chain, attempt, provider, turn, fold, view, owed, asks>>

Wrappers == {"retry", "failover"}
Last == IF chain THEN Fallbacks ELSE 0

(* What is_transient tells apart: worth another try, a provider gone silent    *)
(* past IDLE_TIMEOUT, and any other error.                                     *)
Errors == {"transient", "silent", "hard"}

(* from_config_full: failover over the fallbacks, retry around it. *)
ProvidersInit ==
  /\ retries \in BOOLEAN /\ chain \in BOOLEAN
  /\ attempt = 0 /\ provider = 0 /\ turn = "asking"
  /\ fold = <<>> /\ view = <<>>
  /\ owed = [w \in Wrappers |-> FALSE]
  /\ asks = 0

(* The request is answered: a fresh StreamFold. *)
StreamOpens ==
  /\ turn = "asking"
  /\ turn' = "streaming"
  /\ fold' = <<>> /\ asks' = asks + 1
  /\ UNCHANGED <<retries, chain, attempt, provider, view, owed>>

(* Mutant: the text is noted by the inner wrapper alone. *)
EmittedByInner == [owed EXCEPT ![IF chain THEN "failover" ELSE "retry"] = TRUE]
(* `tracking` of both wrappers: each notes the text and hands it on. *)
EmittedAfter == [w \in Wrappers |-> IF w = "failover" THEN chain ELSE retries]

(* fold_event and fold_chunk: more text, to the answer and to the sink. *)
TextArrives ==
  /\ turn = "streaming" /\ Len(fold) < MaxPieces
  /\ LET piece == <<attempt, provider, Len(fold)>> IN
       fold' = Append(fold, piece) /\ view' = Append(view, piece)
  /\ owed' = EmittedAfter
  /\ UNCHANGED <<retries, chain, attempt, provider, turn, asks>>

(* message_stop, or a `done` chunk; also a stream cut off before either, whose *)
(* text so far is taken for the answer.                                        *)
StreamCompletes ==
  /\ turn = "streaming"
  /\ turn' = "ok"
  /\ UNCHANGED <<retries, chain, attempt, provider, fold, view, owed, asks>>

(* Restart goes through the sinks outside the wrapper that sends it.           *)
Restarted(w) == IF owed[w] THEN <<>> ELSE view

(* FailoverProvider: whatever the error, the next provider is asked.           *)
NextProvider ==
  /\ turn \in {"asking", "streaming"} /\ provider < Last
  /\ provider' = provider + 1 /\ turn' = "asking"
  /\ view' = Restarted("failover")
  /\ owed' = [owed EXCEPT !["failover"] = FALSE]
  /\ asks' = IF turn = "asking" THEN asks + 1 ELSE asks
  /\ UNCHANGED <<retries, chain, attempt, fold>>

(* RetryProvider: the last provider's error is judged, and slept on.           *)
BacksOff(e) ==
  /\ turn \in {"asking", "streaming"} /\ provider = Last
  /\ retries /\ attempt < MaxRetries /\ e = "transient"
  /\ turn' = "backoff"
  /\ asks' = IF turn = "asking" THEN asks + 1 ELSE asks
  /\ UNCHANGED <<retries, chain, attempt, provider, fold, view, owed>>

(* Awake, it asks the whole chain again, with the flags of failover fresh.     *)
Retry ==
  /\ turn = "backoff"
  /\ attempt' = attempt + 1 /\ provider' = 0 /\ turn' = "asking"
  /\ view' = Restarted("retry")
  /\ owed' = [w \in Wrappers |-> FALSE]
  /\ UNCHANGED <<retries, chain, fold, asks>>

Surfaces(e) ==
  /\ turn \in {"asking", "streaming"} /\ provider = Last
  /\ ~(retries /\ attempt < MaxRetries /\ e = "transient")
  /\ turn' = "err"
  /\ asks' = IF turn = "asking" THEN asks + 1 ELSE asks
  /\ UNCHANGED <<retries, chain, attempt, provider, fold, view, owed>>

ProvidersNext ==
  \/ StreamOpens
  \/ TextArrives
  \/ StreamCompletes
  \/ NextProvider
  \/ \E e \in Errors : BacksOff(e)
  \/ Retry
  \/ \E e \in Errors : Surfaces(e)

----------------------------------------------------------------------------
(* Properties. *)

\* What the operator sees of a completion is what its message says: the pieces
\* shown are those of the answer being streamed, in order, however many
\* providers failed part way before it and in whichever wrapper; and each is
\* asked at most once per attempt.
ShownIsTheAnswer ==
  /\ turn \in {"streaming", "ok"} => view = fold
  /\ asks <= (attempt + 1) * (Last + 1)
==================================================================================
