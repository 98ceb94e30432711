------------------------------ MODULE SpineMesh ------------------------------
(***************************************************************************)
(* One origin's frames on the LoRa spine: the counter it stamps them with, *)
(* the flood relay that repeats them, and the window every station judges  *)
(* them against (firmware/heltec-lora-linktest/src/spine.rs and main.rs).  *)
(*                                                                         *)
(* Windows, ceilings and keys are kept per source, so the sources do not   *)
(* interact and one of them is modelled; every station hears it, the       *)
(* origin included, because a relay echoes an origin's own frame back.     *)
(* Frames are verified before they are judged; the frames here are the     *)
(* ones whose tag verifies.                                                *)
(*                                                                         *)
(* `air` never shrinks: a frame in it may be heard any number of times, in *)
(* any order, arbitrarily late, or never.                                  *)
(***************************************************************************)
EXTENDS ReceiveWindow

CONSTANTS
  Station,    \* the radios
  Origin,     \* the one whose frames are modelled
  NoRelay,    \* stations built with the `no-relay` feature
  TTL,        \* SPINE_TTL, the hop budget
  RESERVE,    \* counters authorised per write of the sender's ceiling (32)
  NvsFault    \* the NVS operations that may fail: see Fault

Fault == {"open", "seq_write", "rx_read", "rx_write"}

ASSUME OriginAssumption  == Origin \in Station
ASSUME ReserveAssumption == RESERVE \in Nat \ {0}
ASSUME TtlAssumption     == TTL \in Nat
ASSUME FaultAssumption   == NvsFault \subseteq Fault

VARIABLES
  \* NVS: what a power cycle leaves.
  seqCeil,    \* `seq_ceil`, the origin's sending ceiling
  rxCeil,     \* rxCeil[s]: `rx_<origin>` at station s
  \* RAM.
  store,      \* stations whose NVS namespace opened at boot
  ready,      \* the origin holds a SeqCounter
  count, ceiling, failed,   \* SeqCounter's fields
  entry,      \* stations whose `windows` map has an entry for the origin
  window,     \* window[s], meaningful for s in entry
  \* The medium, and what happened.
  air,        \* frames transmitted so far
  issued,     \* issued[c]: frames with counter c sent by the origin
  deliveries  \* deliveries[s][c]: lines for c printed by station s

counterVars == <<seqCeil, ready, count, ceiling, failed>>
windowVars  == <<rxCeil, entry, window>>
vars == <<counterVars, windowVars, store, air, issued, deliveries>>

Frame == [ctr : Ctr, ttl : 0 .. TTL]

TypeOK ==
  /\ seqCeil \in Ctr
  /\ rxCeil \in [Station -> Ctr]
  /\ store \subseteq Station
  /\ ready \in BOOLEAN
  /\ count \in Ctr
  /\ ceiling \in Ctr
  /\ failed \in BOOLEAN
  /\ entry \subseteq Station
  /\ window \in [Station -> Window]
  /\ air \subseteq Frame
  /\ issued \in [Ctr -> Nat]
  /\ deliveries \in [Station -> [Ctr -> Nat]]

\* Whether an NVS operation of the given kind succeeds.
Outcome(kind) == IF kind \in NvsFault THEN BOOLEAN ELSE {TRUE}

-----------------------------------------------------------------------------
(* A new board: nothing in flash, nothing running. *)

Init ==
  /\ seqCeil = 0
  /\ rxCeil = [s \in Station |-> 0]
  /\ store = {}
  /\ ready = FALSE
  /\ count = 0
  /\ ceiling = 0
  /\ failed = FALSE
  /\ entry = {}
  /\ window = [s \in Station |-> Resume(0)]
  /\ air = {}
  /\ issued = [c \in Ctr |-> 0]
  /\ deliveries = [s \in Station |-> [c \in Ctr |-> 0]]

-----------------------------------------------------------------------------
(* Power-on, from any state: a reset loses RAM and runs `main` again. What   *)
(* RAM does not hold after it is given its initial value.                    *)

ForgetWindow(s) ==
  /\ entry' = entry \ {s}
  /\ window' = [window EXCEPT ![s] = Resume(0)]

ForgetCounter ==
  /\ ready' = FALSE
  /\ count' = 0
  /\ ceiling' = 0
  /\ failed' = FALSE

\* A station other than the origin: only its NVS handle matters here.
BootListener(s) ==
  /\ s # Origin
  /\ \E opened \in Outcome("open") :
       store' = IF opened THEN store \cup {s} ELSE store \ {s}
  /\ ForgetWindow(s)
  /\ UNCHANGED <<counterVars, rxCeil, air, issued, deliveries>>

\* The origin's window for itself starts at its own counter, so that frames
\* echoed back by a relay are dropped.
SeedOwnWindow ==
  /\ entry' = entry \cup {Origin}
  /\ window' = [window EXCEPT ![Origin] = Resume(seqCeil)]

\* The namespace opened and SeqCounter::boot authorised the next block.
BootOrigin ==
  /\ seqCeil + RESERVE <= MaxCtr
  /\ store' = store \cup {Origin}
  /\ seqCeil' = seqCeil + RESERVE
  /\ ready' = TRUE
  /\ count' = seqCeil
  /\ ceiling' = seqCeil + RESERVE
  /\ failed' = FALSE
  /\ SeedOwnWindow
  /\ UNCHANGED <<rxCeil, air, issued, deliveries>>

\* The namespace did not open: the station neither sends nor receives.
BootOriginDeaf ==
  /\ "open" \in NvsFault
  /\ store' = store \ {Origin}
  /\ ForgetCounter
  /\ ForgetWindow(Origin)
  /\ UNCHANGED <<seqCeil, rxCeil, air, issued, deliveries>>

\* SeqCounter::boot failed: the count is exhausted, or the write reported an
\* error, whether or not it reached the flash. The station still receives.
BootOriginMute ==
  /\ \/ seqCeil + RESERVE > MaxCtr /\ UNCHANGED seqCeil
     \/ /\ "seq_write" \in NvsFault
        /\ seqCeil + RESERVE <= MaxCtr
        /\ seqCeil' \in {seqCeil, seqCeil + RESERVE}
  /\ store' = store \cup {Origin}
  /\ ForgetCounter
  /\ ForgetWindow(Origin)
  /\ UNCHANGED <<rxCeil, air, issued, deliveries>>

-----------------------------------------------------------------------------
(* send_spine!: take the next counter, mark it in the local window, tag and *)
(* transmit.                                                                *)

CanIssue == ready /\ ~failed /\ count + 1 <= MaxCtr

\* Mutants: the test is made on the counter last issued; a block too early.
MustExtendAfter == count > ceiling
MustExtendEarly == count + 1 + RESERVE >= ceiling

MustExtend == count + 1 >= ceiling

\* The counter is issued; the radio then transmits or reports an error.
Transmit ==
  /\ count' = count + 1
  /\ entry' = entry \cup {Origin}
  /\ window' =
       LET w == IF Origin \in entry THEN window[Origin] ELSE Resume(0)
       IN  [window EXCEPT ![Origin] =
              IF Accepts(w, count + 1) THEN Marked(w, count + 1) ELSE w]
  /\ \/ /\ air' = air \cup {[ctr |-> count + 1, ttl |-> TTL]}
        /\ issued' = [issued EXCEPT ![count + 1] = @ + 1]
     \/ UNCHANGED <<air, issued>>

Send ==
  /\ CanIssue
  /\ ~MustExtend
  /\ Transmit
  /\ UNCHANGED <<seqCeil, ready, ceiling, failed, rxCeil, store, deliveries>>

\* The ceiling is moved in flash before the counter that would cross it is used.
SendExtending ==
  /\ CanIssue
  /\ MustExtend
  /\ ceiling + RESERVE <= MaxCtr
  /\ seqCeil' = ceiling + RESERVE
  /\ ceiling' = ceiling + RESERVE
  /\ Transmit
  /\ UNCHANGED <<ready, failed, rxCeil, store, deliveries>>

\* The extension was refused: nothing is sent now or again before a reset.
SendFailsClosed ==
  /\ "seq_write" \in NvsFault
  /\ CanIssue
  /\ MustExtend
  /\ ceiling + RESERVE <= MaxCtr
  /\ seqCeil' \in {seqCeil, ceiling + RESERVE}
  /\ failed' = TRUE
  /\ UNCHANGED <<ready, count, ceiling, windowVars, store, air, issued, deliveries>>

-----------------------------------------------------------------------------
(* Receiving: `judge`, then the console line, then the relay. *)

Entry(s) == IF s \in entry THEN window[s] ELSE Resume(rxCeil[s])

\* A station hears a frame on the air, but not its own transmission.
Hears(s, f) ==
  /\ s \in store
  /\ f \in air
  /\ s = Origin => f.ttl < TTL
  /\ s \in entry \/ TRUE \in Outcome("rx_read")

Refuse(s, f) ==
  /\ Hears(s, f)
  /\ ~Accepts(Entry(s), f.ctr)
  /\ window' = [window EXCEPT ![s] = Entry(s)]
  /\ entry' = entry \cup {s}
  /\ UNCHANGED <<counterVars, rxCeil, store, air, issued, deliveries>>

\* The line is printed and the frame relayed onward; or the relay's transmit
\* fails; or power is lost before either.
Forward(s, f) ==
  \/ /\ deliveries' = [deliveries EXCEPT ![s][f.ctr] = @ + 1]
     /\ \/ UNCHANGED air
        \/ /\ f.ttl > 0
           /\ s \notin NoRelay
           /\ air' = air \cup {[f EXCEPT !.ttl = @ - 1]}
  \/ UNCHANGED <<air, deliveries>>

Accept(s, f) ==
  /\ Hears(s, f)
  /\ Accepts(Entry(s), f.ctr)
  /\ rxCeil' = IF StoreNeeded(Entry(s), f.ctr)
               THEN [rxCeil EXCEPT ![s] = NewCeiling(f.ctr)]
               ELSE rxCeil
  /\ window' = [window EXCEPT ![s] = Marked(Entry(s), f.ctr)]
  /\ entry' = entry \cup {s}
  /\ Forward(s, f)
  /\ UNCHANGED <<counterVars, store, issued>>

\* The ceiling could not be written: this frame is refused, but the window
\* has already moved in memory.
AcceptStoreFails(s, f) ==
  /\ "rx_write" \in NvsFault
  /\ Hears(s, f)
  /\ Accepts(Entry(s), f.ctr)
  /\ StoreNeeded(Entry(s), f.ctr)
  /\ rxCeil' \in {rxCeil, [rxCeil EXCEPT ![s] = NewCeiling(f.ctr)]}
  /\ window' = [window EXCEPT ![s] = Marked(Entry(s), f.ctr)]
  /\ entry' = entry \cup {s}
  /\ UNCHANGED <<counterVars, store, air, issued, deliveries>>

-----------------------------------------------------------------------------

Boot ==
  \/ \E s \in Station : BootListener(s)
  \/ BootOrigin
  \/ BootOriginDeaf
  \/ BootOriginMute

Receive ==
  \E s \in Station, f \in air :
    \/ Refuse(s, f)
    \/ Accept(s, f)
    \/ AcceptStoreFails(s, f)

Next ==
  \/ Boot
  \/ Send
  \/ SendExtending
  \/ SendFailsClosed
  \/ Receive

Spec == Init /\ [][Next]_vars

-----------------------------------------------------------------------------
(* Properties *)

\* Every counter ever put on the air lies at or below the ceiling in flash,
\* so a reboot resumes above all of them; while the origin runs, the counter
\* it will issue next is above them too (SeqCounter: "never reissued across
\* reboots").
IssuedBehindCeiling ==
  /\ \A c \in Ctr : issued[c] > 0 => c <= seqCeil
  /\ ready => /\ \A c \in Ctr : issued[c] > 0 => c <= count
              /\ count < ceiling
              /\ ceiling <= seqCeil

\* A crash costs at most RESERVE counters; one more when the last write
\* reported an error and yet reached the flash (SeqCounter::RESERVE).
SkipBounded ==
  ready => seqCeil <= count + RESERVE + (IF failed THEN 1 ELSE 0)

\* A counter a station has accepted is at or below the ceiling it would
\* resume from: "h never passes it without the store first being moved"
\* (spine.rs, ReplayWindow::persisted).
DurableBeforeAccept ==
  \A s \in Station, c \in Ctr : deliveries[s][c] > 0 => c <= rxCeil[s]

\* A restart refuses at most M counters the origin has yet to send: the
\* persisted ceiling is within M of something already on the air
\* (ReplayWindow::M, "frames a receiver may reject after a restart").
RestartGapBounded ==
  \A s \in Station :
    rxCeil[s] > 0 => \E f \in air : rxCeil[s] <= f.ctr + M

\* While the origin holds a counter it takes no echo of its own frames.
OwnEchoDropped ==
  ready => \A f \in air : ~Accepts(Entry(Origin), f.ctr)

\* Nothing is on the air or on a console that the origin did not number, and
\* it numbers each frame afresh.
SenderInv ==
  /\ \A c \in Ctr : issued[c] <= 1
  /\ \A f \in air : issued[f.ctr] > 0
  /\ \A s \in Station, c \in Ctr : deliveries[s][c] > 0 => issued[c] > 0
  /\ IssuedBehindCeiling

\* A running station's window lies behind its ceiling, and both its window and
\* the one it would resume with refuse what it has accepted.
WindowInv ==
  /\ DurableBeforeAccept
  /\ \A s \in Station, c \in Ctr :
       /\ deliveries[s][c] <= 1
       /\ s \in entry /\ deliveries[s][c] > 0 => ~Accepts(window[s], c)
  /\ \A s \in entry :
       ~(s = Origin /\ ready) => /\ window[s].persisted = rxCeil[s]
                                /\ window[s].h <= rxCeil[s]
  /\ ready => /\ Origin \in entry
              /\ window[Origin].h = count
              /\ \A c \in Ctr : issued[c] > 0 => ~Accepts(window[Origin], c)

\* The inductive invariant behind ImplementsAtMostOnce.
IInv == TypeOK /\ SenderInv /\ WindowInv

\* What the whole mechanism is for.
Channel == INSTANCE AtMostOnce WITH Receiver <- Station, Counter <- Ctr
ImplementsAtMostOnce == Channel!Spec

\* Neither a reset of the origin nor one of a receiver costs more counters than
\* was persisted ahead.
GapsBounded == SkipBounded /\ RestartGapBounded
=============================================================================
