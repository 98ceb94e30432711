------------------------------ MODULE HostWindow ------------------------------
(***************************************************************************)
(* The host's anti-replay window for one source, as obc-safety computes it *)
(* (crates/obc-safety/src/replay.rs, ReplayWindow). Slot n of `seen` stands *)
(* for counter highest - n - 1; `highest` itself is accepted by definition. *)
(***************************************************************************)
EXTENDS Integers

CONSTANTS
  WINDOW,   \* slots below the highest counter (64)
  MaxCtr    \* u32::MAX

ASSUME WindowAssumption == WINDOW \in Nat \ {0}
ASSUME MaxCtrAssumption == MaxCtr \in Nat \ {0}

Ctr  == 0 .. MaxCtr
Slot == 0 .. (WINDOW - 1)

Tracked == [heard : {TRUE}, highest : Ctr, seen : SUBSET Slot]

\* A source the receiver has not heard from (no entry in `sources`).
Unheard == [heard |-> FALSE, highest |-> 0, seen |-> {}]

Source == Tracked \cup {Unheard}

\* `highest` and everything below it count as accepted.
Resume(highest) == [heard |-> TRUE, highest |-> highest, seen |-> Slot]

Back(w, c)   == w.highest - c

\* Mutant: a strict high-water mark.
TooOldStrict(w, c) == w.heard /\ c < w.highest

TooOld(w, c) == w.heard /\ c < w.highest /\ Back(w, c) > WINDOW
Duplicate(w, c) ==
  /\ w.heard
  /\ \/ c = w.highest
     \/ c < w.highest /\ Back(w, c) <= WINDOW /\ Back(w, c) - 1 \in w.seen
Fresh(w, c)  == ~TooOld(w, c) /\ ~Duplicate(w, c)

\* Mutant: an advance of exactly WINDOW forgets the old highest, too.
SlidShort(seen, advance) ==
  {n \in Slot : n - advance \in seen \/ (n = advance - 1 /\ advance < WINDOW)}

\* The slots after `highest` moves up: the old ones shift along, and the old
\* highest enters at its new offset if it is still inside.
Slid(seen, advance) == {n \in Slot : n - advance \in seen \/ n = advance - 1}

Recorded(w, c) ==
  IF ~w.heard \/ c > w.highest
  THEN [heard   |-> TRUE,
        highest |-> c,
        seen    |-> IF w.heard THEN Slid(w.seen, c - w.highest) ELSE {}]
  ELSE [w EXCEPT !.seen = @ \cup {Back(w, c) - 1}]

==============================================================================
