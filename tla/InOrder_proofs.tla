---------------------------- MODULE InOrder_proofs ----------------------------
(* What a filtered sequence holds: used by the proofs about every module that  *)
(* filters one.                                                                *)
EXTENDS InOrder, Sequences, FiniteSetTheorems, TLAPS

\* The indices of a part of a sequence, in order, are all of them, each once.
LEMMA AscendingCovers ==
  ASSUME NEW S, NEW s \in Seq(S), NEW is, is \subseteq DOMAIN s, NEW r \in Ascending(is)
  PROVE  /\ [i \in DOMAIN r |-> s[r[i]]] \in Seq(S)
         /\ \A k \in is : \E i \in DOMAIN r : r[i] = k
         /\ \A i \in DOMAIN r : r[i] \in is
         /\ \A i, j \in DOMAIN r : r[i] = r[j] => i = j
<1>1. DOMAIN s = 1 .. Len(s) /\ Len(s) \in Nat
  OBVIOUS
<1>2. IsFiniteSet(is) /\ Cardinality(is) \in Nat
  <2>1. IsFiniteSet(1 .. Len(s))
    BY <1>1, FS_Interval
  <2> QED
    BY <1>1, <2>1, FS_Subset, FS_CardinalityType
<1>3. PICK n \in Nat : n = Cardinality(is)
  BY <1>2
<1>4. r \in [1 .. n -> is] /\ DOMAIN r = 1 .. n /\ \A i, j \in 1 .. n : i < j => r[i] < r[j]
  BY <1>3 DEF Ascending
<1>5. \A i \in 1 .. n : r[i] \in is /\ r[i] \in Int
  BY <1>1, <1>4
<1>6. \A i, j \in 1 .. n : r[i] = r[j] => i = j
  <2> SUFFICES ASSUME NEW i \in 1 .. n, NEW j \in 1 .. n, i # j
               PROVE  r[i] # r[j]
    OBVIOUS
  <2>1. CASE i < j
    BY <1>4, <1>5, <2>1
  <2>2. CASE j < i
    BY <1>4, <1>5, <2>2
  <2> QED
    BY <2>1, <2>2
<1>7. r \in Injection(1 .. n, is)
  BY <1>4, <1>6 DEF Injection, IsInjective
<1>8. IsFiniteSet(1 .. n) /\ Cardinality(1 .. n) = n
  BY FS_Interval
<1>9. r \in Surjection(1 .. n, is)
  BY <1>2, <1>3, <1>7, <1>8, FS_Injection
<1>10. \A k \in is : \E i \in 1 .. n : r[i] = k
  BY <1>9 DEF Surjection
<1>11. [i \in DOMAIN r |-> s[r[i]]] \in Seq(S)
  BY <1>1, <1>4, <1>5
<1> QED
  BY <1>4, <1>5, <1>6, <1>10, <1>11
===============================================================================
