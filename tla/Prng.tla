-------------------------------- MODULE Prng --------------------------------
(***************************************************************************)
(* The random number generator of src/prng.rs, an xorshift, and the seeds  *)
(* that derive_seed of the lorawan adapter makes for it.                   *)
(*                                                                         *)
(* A word is the set of the positions of its ones.  The width of a word    *)
(* and the three shifts are parameters; in the code they are 64, 13, 7 and *)
(* 17.  Two generators draw in step: what matters of two nodes is whether  *)
(* they see the same sequence.                                             *)
(***************************************************************************)
EXTENDS Integers, Sequences, FiniteSetsExt

CONSTANTS
  Width,      \* bits of a word
  A, B, C,    \* the shifts: left, right and left
  SeedPairs,  \* the seeds that two nodes may have
  MaxDraws    \* bound: numbers drawn

Bits  == 0..Width - 1
Words == SUBSET Bits

ASSUME PrngAssumption ==
  /\ Width \in Nat \ {0} /\ {A, B, C} \subseteq Nat \ {0}
  /\ SeedPairs \subseteq [1..2 -> Words]
  /\ MaxDraws \in Nat

VARIABLES
  seeds,       \* the seeds of the two
  generators,  \* the states of the two
  drawn        \* how many numbers each has drawn

vars == <<seeds, generators, drawn>>

-----------------------------------------------------------------------------
Xor(x, y) == (x \ y) \cup (y \ x)

ShiftLeft(x, k)  == {bit + k : bit \in x} \cap Bits
ShiftRight(x, k) == {bit - k : bit \in x} \cap Bits

(* Mutation of XorLeft: the word grows.                                    *)
XorLeftWide(x, k) == Xor(x, {bit + k : bit \in x})

XorLeft(x, k)  == Xor(x, ShiftLeft(x, k))

(* Mutation of XorRight: |= for ^=.                                        *)
OrRight(x, k) == x \cup ShiftRight(x, k)

XorRight(x, k) == Xor(x, ShiftRight(x, k))

(* Mutation of New: the seed zero stays zero, a fixed point.               *)
NewVerbatim(seed) == seed

(* Xorshift64::new maps the seed 0 to 1.                                   *)
New(seed) == IF seed = {} THEN {0} ELSE seed

(* next_u64, whose result is also the new state.                           *)
NextU64(x) == XorLeft(XorRight(XorLeft(x, A), B), C)

-----------------------------------------------------------------------------
(* The bits that an addition carries into: a lower one is in both words,   *)
(* and each between them in one at least.                                  *)
Carries(x, y) ==
  {bit \in Bits : \E low \in x \cap y :
     low < bit /\ \A between \in (low + 1)..(bit - 1) : between \in x \/ between \in y}

(* wrapping_add and wrapping_mul: what does not fit the word is lost.      *)
Plus(x, y)  == Xor(Xor(x, y), Carries(x, y))
Times(x, y) == FoldSet(LAMBDA bit, sum : Plus(sum, ShiftLeft(y, bit)), {}, x)

(* A word from its hexadecimal digits.                                     *)
Hex(digits) ==
  UNION {{4 * (Len(digits) - n) + bit :
            bit \in {b \in 0..3 : (digits[n] \div 2^b) % 2 = 1}} : n \in DOMAIN digits}

Multiplier == Hex(<<9, 14, 3, 7, 7, 9, 11, 9, 7, 15, 4, 10, 7, 12, 1, 5>>)

(* Mutation of DeriveSeed: the identifier is not mixed in.                 *)
DeriveSeedUnmixed(master, id) == Xor(master, Multiplier)

DeriveSeed(master, id) == Xor(master, Times(id, Multiplier))

-----------------------------------------------------------------------------
Init ==
  /\ seeds \in SeedPairs
  /\ generators = [g \in 1..2 |-> New(seeds[g])]
  /\ drawn = 0

Draw ==
  /\ drawn < MaxDraws
  /\ generators' = [g \in 1..2 |-> NextU64(generators[g])]
  /\ drawn' = drawn + 1
  /\ UNCHANGED seeds

Spec == Init /\ [][Draw]_vars

-----------------------------------------------------------------------------
TypeOK ==
  /\ seeds \in [1..2 -> Words]
  /\ generators \in [1..2 -> Words]
  /\ drawn \in 0..MaxDraws

(***************************************************************************)
(* Zero is a fixed point of the generator that only new keeps it out of:   *)
(* whatever the seed, no number drawn is zero, however many are drawn.     *)
(***************************************************************************)
NeverZero == \A g \in 1..2 : generators[g] # {}

(***************************************************************************)
(* Two generators that start apart never draw the same number at once: no  *)
(* step loses information, so two sequences that differ never merge.       *)
(***************************************************************************)
StreamsStayApart ==
  New(seeds[1]) # New(seeds[2]) => generators[1] # generators[2]
=============================================================================
