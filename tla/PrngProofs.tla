----------------------------- MODULE PrngProofs -----------------------------
(***************************************************************************)
(* What the generator guarantees for words and shifts of every length.     *)
(* The argument: x ^= x << k keeps the lowest one of x and x ^= x >> k the *)
(* highest, so neither turns a word into zero unless it is zero; and both  *)
(* are linear, so neither makes two words the same unless they are.        *)
(***************************************************************************)
EXTENDS Prng, WellFoundedInduction, TLAPS

LEMMA LowestOne ==
  ASSUME NEW x \in Words, x # {}
  PROVE  \E low \in x : \A bit \in x : low <= bit
<1>1. x \subseteq Nat
  BY PrngAssumption DEF Words, Bits
<1>2. PICK low \in x : \A bit \in x : ~ (<<bit, low>> \in OpToRel(<, Nat))
  BY <1>1, NatLessThanWellFounded, WFMin
<1>3. \A bit \in x : ~ (bit < low)
  BY <1>1, <1>2, Zenon DEF OpToRel
<1> QED
  BY <1>1, <1>3

(* The highest one of a word is the lowest one of its mirror image.        *)
LEMMA HighestOne ==
  ASSUME NEW x \in Words, x # {}
  PROVE  \E high \in x : \A bit \in x : bit <= high
<1> DEFINE mirror == {Width - 1 - bit : bit \in x}
<1>1. \A bit \in x : bit \in 0..Width - 1
  BY DEF Words, Bits
<1>2. \A bit \in x : Width - 1 - bit \in 0..Width - 1
  BY <1>1, PrngAssumption
<1>3. mirror \subseteq 0..Width - 1
  BY <1>2
<1>4. mirror \in Words /\ mirror # {}
  BY <1>3 DEF Words, Bits
<1>5. PICK low \in mirror : \A bit \in mirror : low <= bit
  BY <1>4, LowestOne
<1>6. PICK high \in x : low = Width - 1 - high
  OBVIOUS
<1>7. \A bit \in x : Width - 1 - high <= Width - 1 - bit
  BY <1>5, <1>6
<1> QED
  BY <1>1, <1>6, <1>7, PrngAssumption

LEMMA WordsStayWords ==
  ASSUME NEW x \in Words, NEW y \in Words, NEW k \in Nat \ {0}
  PROVE  /\ Xor(x, y) \in Words
         /\ XorLeft(x, k) \in Words
         /\ XorRight(x, k) \in Words
BY DEF Words, Xor, XorLeft, XorRight, ShiftLeft, ShiftRight

-----------------------------------------------------------------------------
(* Neither shift step turns a word with a one into zero.                   *)
LEMMA XorLeftKeepsOnes ==
  ASSUME NEW x \in Words, x # {}, NEW k \in Nat \ {0}
  PROVE  XorLeft(x, k) # {}
<1>1. PICK low \in x : \A bit \in x : low <= bit
  BY LowestOne
<1>2. x \subseteq Int
  BY PrngAssumption DEF Words, Bits
<1>3. \A bit \in x : low # bit + k
  BY <1>1, <1>2
<1>4. low \notin ShiftLeft(x, k)
  BY <1>3 DEF ShiftLeft
<1> QED
  BY <1>4 DEF XorLeft, Xor

LEMMA XorRightKeepsOnes ==
  ASSUME NEW x \in Words, x # {}, NEW k \in Nat \ {0}
  PROVE  XorRight(x, k) # {}
<1>1. PICK high \in x : \A bit \in x : bit <= high
  BY HighestOne
<1>2. x \subseteq Int
  BY PrngAssumption DEF Words, Bits
<1>3. \A bit \in x : high # bit - k
  BY <1>1, <1>2
<1>4. high \notin ShiftRight(x, k)
  BY <1>3 DEF ShiftRight
<1> QED
  BY <1>4 DEF XorRight, Xor

(* A step of a difference is the difference of the steps.                  *)
LEMMA XorIsEqualOnlyOfEquals ==
  ASSUME NEW x, NEW y
  PROVE  Xor(x, y) = {} <=> x = y
BY DEF Xor

LEMMA XorLeftIsLinear ==
  ASSUME NEW x \in Words, NEW y \in Words, NEW k \in Nat \ {0}
  PROVE  XorLeft(Xor(x, y), k) = Xor(XorLeft(x, k), XorLeft(y, k))
<1>1. x \subseteq Int /\ y \subseteq Int
  BY PrngAssumption DEF Words, Bits
<1>2. ShiftLeft(Xor(x, y), k) = Xor(ShiftLeft(x, k), ShiftLeft(y, k))
  BY <1>1 DEF ShiftLeft, Xor
<1> HIDE DEF ShiftLeft
<1> QED
  BY <1>2 DEF XorLeft, Xor

LEMMA XorRightIsLinear ==
  ASSUME NEW x \in Words, NEW y \in Words, NEW k \in Nat \ {0}
  PROVE  XorRight(Xor(x, y), k) = Xor(XorRight(x, k), XorRight(y, k))
<1>1. x \subseteq Int /\ y \subseteq Int
  BY PrngAssumption DEF Words, Bits
<1>2. ShiftRight(Xor(x, y), k) = Xor(ShiftRight(x, k), ShiftRight(y, k))
  BY <1>1 DEF ShiftRight, Xor
<1> QED
  BY <1>2 DEF XorRight, Xor

LEMMA XorLeftIsInjective ==
  ASSUME NEW x \in Words, NEW y \in Words, NEW k \in Nat \ {0}, x # y
  PROVE  XorLeft(x, k) # XorLeft(y, k)
<1>1. Xor(x, y) \in Words /\ Xor(x, y) # {}
  BY WordsStayWords, XorIsEqualOnlyOfEquals
<1>2. XorLeft(Xor(x, y), k) # {}
  BY <1>1, XorLeftKeepsOnes
<1> QED
  BY <1>2, XorLeftIsLinear, XorIsEqualOnlyOfEquals

LEMMA XorRightIsInjective ==
  ASSUME NEW x \in Words, NEW y \in Words, NEW k \in Nat \ {0}, x # y
  PROVE  XorRight(x, k) # XorRight(y, k)
<1>1. Xor(x, y) \in Words /\ Xor(x, y) # {}
  BY WordsStayWords, XorIsEqualOnlyOfEquals
<1>2. XorRight(Xor(x, y), k) # {}
  BY <1>1, XorRightKeepsOnes
<1> QED
  BY <1>2, XorRightIsLinear, XorIsEqualOnlyOfEquals

(***************************************************************************)
(* next_u64 keeps a state within its width and away from zero, and never   *)
(* takes two states to one.                                                *)
(***************************************************************************)
LEMMA NextU64Facts ==
  ASSUME NEW x \in Words
  PROVE  /\ NextU64(x) \in Words
         /\ x # {} => NextU64(x) # {}
         /\ \A y \in Words : x # y => NextU64(x) # NextU64(y)
<1>1. A \in Nat \ {0} /\ B \in Nat \ {0} /\ C \in Nat \ {0}
  BY PrngAssumption
<1> DEFINE first(w) == XorLeft(w, A)
           second(w) == XorRight(first(w), B)
<1>2. \A w \in Words : first(w) \in Words /\ second(w) \in Words
  BY <1>1, WordsStayWords
<1>3. NextU64(x) \in Words
  BY <1>1, <1>2, WordsStayWords DEF NextU64
<1>4. ASSUME x # {} PROVE NextU64(x) # {}
  <2>1. first(x) # {}
    BY <1>1, <1>4, XorLeftKeepsOnes
  <2>2. second(x) # {}
    BY <1>1, <1>2, <2>1, XorRightKeepsOnes
  <2> QED
    BY <1>1, <1>2, <2>2, XorLeftKeepsOnes DEF NextU64
<1>5. ASSUME NEW y \in Words, x # y PROVE NextU64(x) # NextU64(y)
  <2>1. first(x) # first(y)
    BY <1>1, <1>5, XorLeftIsInjective
  <2>2. second(x) # second(y)
    BY <1>1, <1>2, <2>1, XorRightIsInjective
  <2> QED
    BY <1>1, <1>2, <2>2, XorLeftIsInjective DEF NextU64
<1> QED
  BY <1>3, <1>4, <1>5

-----------------------------------------------------------------------------
(* The inductive invariant is the conjunction of the properties.           *)
IInv == TypeOK /\ NeverZero /\ StreamsStayApart

LEMMA InitEstablishesIInv == Init => IInv
<1> SUFFICES ASSUME Init PROVE IInv
  OBVIOUS
<1>1. seeds \in [1..2 -> Words]
  BY PrngAssumption DEF Init
<1>2. \A g \in 1..2 : New(seeds[g]) \in Words /\ New(seeds[g]) # {}
  BY <1>1, PrngAssumption DEF New, Words, Bits
<1>3. \A g \in 1..2 : generators[g] = New(seeds[g])
  BY DEF Init
<1>4. TypeOK
  BY <1>1, <1>2, PrngAssumption DEF Init, TypeOK
<1> QED
  BY <1>2, <1>3, <1>4 DEF IInv, NeverZero, StreamsStayApart

LEMMA StepKeepsIInv == IInv /\ [Draw]_vars => IInv'
<1> SUFFICES ASSUME IInv, [Draw]_vars PROVE IInv'
  OBVIOUS
<1>1. CASE Draw
  <2>1. \A g \in 1..2 : generators[g] \in Words /\ generators'[g] = NextU64(generators[g])
    BY <1>1 DEF IInv, TypeOK, Draw
  <2>2. TypeOK'
    BY <1>1, <2>1, NextU64Facts, PrngAssumption DEF IInv, TypeOK, Draw
  <2>3. NeverZero'
    BY <2>1, NextU64Facts DEF IInv, NeverZero
  <2>4. StreamsStayApart'
    BY <1>1, <2>1, NextU64Facts DEF IInv, StreamsStayApart, Draw
  <2> QED
    BY <2>2, <2>3, <2>4 DEF IInv
<1>2. CASE UNCHANGED vars
  BY <1>2 DEF vars, IInv, TypeOK, NeverZero, StreamsStayApart
<1> QED
  BY <1>1, <1>2

THEOREM PrngInvariant == Spec => []IInv
BY InitEstablishesIInv, StepKeepsIInv, PTL DEF Spec

(***************************************************************************)
(* Xorshift64 keeps its state within the width of its words.               *)
(***************************************************************************)
THEOREM PrngTypeCorrect == Spec => []TypeOK
<1>1. IInv => TypeOK
  BY DEF IInv
<1> QED
  BY <1>1, PrngInvariant, PTL

(***************************************************************************)
(* Whatever the seed, zero included, next_u64 never returns zero.          *)
(***************************************************************************)
THEOREM ZeroIsNeverDrawn == Spec => []NeverZero
<1>1. IInv => NeverZero
  BY DEF IInv
<1> QED
  BY <1>1, PrngInvariant, PTL

(***************************************************************************)
(* Two generators whose seeds new tells apart never draw the same number   *)
(* at the same draw, for all 2^64 states as for those of any other width.  *)
(***************************************************************************)
THEOREM StreamsNeverMerge == Spec => []StreamsStayApart
<1>1. IInv => StreamsStayApart
  BY DEF IInv
<1> QED
  BY <1>1, PrngInvariant, PTL
=============================================================================
