---------------------------- MODULE ReceiveWindow ----------------------------
(***************************************************************************)
(* The anti-replay window a station keeps for one source, as the firmware  *)
(* computes it (firmware/heltec-lora-linktest/src/spine.rs, ReplayWindow). *)
(* The u64 bitmap is the set of its one bits: bit b stands for counter     *)
(* h - b, so a left shift by n adds n to every member and drops those that *)
(* leave the word.                                                         *)
(***************************************************************************)
EXTENDS Integers

CONSTANTS
  WIDTH,    \* bits in the bitmap (64)
  M,        \* how far above an accepted counter the ceiling is persisted (8)
  MaxCtr    \* u32::MAX

ASSUME WidthAssumption  == WIDTH \in Nat \ {0}
ASSUME MAssumption      == M \in Nat \ {0}
ASSUME MaxCtrAssumption == MaxCtr \in Nat \ {0}

Ctr == 0 .. MaxCtr
Bit == 0 .. (WIDTH - 1)

Window == [h : Ctr, bitmap : SUBSET Bit, persisted : Ctr]

\* Mutant: the bitmap starts empty.
ResumeEmpty(ceiling) == [h |-> ceiling, bitmap |-> {}, persisted |-> ceiling]

\* Everything at or below the ceiling counts as seen: the bitmap starts full.
Resume(ceiling) == [h |-> ceiling, bitmap |-> Bit, persisted |-> ceiling]

Newer(w, c)   == c > w.h
Back(w, c)    == w.h - c
TooOld(w, c)  == ~Newer(w, c) /\ Back(w, c) >= WIDTH
Seen(w, c)    == ~Newer(w, c) /\ Back(w, c) < WIDTH /\ Back(w, c) \in w.bitmap
Accepts(w, c) == ~TooOld(w, c) /\ ~Seen(w, c)

\* u64 << n for n < WIDTH; the code sets the word to 0 for larger shifts.
Shifted(bitmap, n) == {b \in Bit : b - n \in bitmap}

\* ctr.saturating_add(M)
NewCeiling(c) == IF c + M <= MaxCtr THEN c + M ELSE MaxCtr

\* Mutant: the ceiling follows only once the window is M beyond it.
StoreNeededLate(w, c) == Newer(w, c) /\ c >= w.persisted + M

\* The caller must persist NewCeiling(c) before it acts on the frame.
StoreNeeded(w, c) == Newer(w, c) /\ c >= w.persisted

\* The window after an accepted counter. `persisted` moves here, in memory,
\* before the caller has written anything.
Marked(w, c) ==
  IF Newer(w, c)
  THEN [h         |-> c,
        bitmap    |-> Shifted(w.bitmap, c - w.h) \cup {0},
        persisted |-> IF StoreNeeded(w, c) THEN NewCeiling(c) ELSE w.persisted]
  ELSE [w EXCEPT !.bitmap = @ \cup {Back(w, c)}]

==============================================================================
