------------------------------- MODULE MCPrng -------------------------------
(* The generator and derive_seed at the code's width, shifts and           *)
(* multiplier: the generators of two LoRaWAN nodes of one simulation, and  *)
(* some whose ones lie a shift apart, so that shifts bring them together.  *)
EXTENDS Prng

MultiplierInverse == Hex(<<15, 1, 13, 14, 8, 3, 14, 1, 9, 9, 3, 7, 7, 3, 3, 13>>)
One == {0}

(* Identifiers are those of a u32: small ones, as main has, and the ends.  *)
NodeIds == {{}, {0}, {1}, {0, 1}, {31}, 0..31}

Mixed == [id \in NodeIds |-> Times(id, Multiplier)]

(* The masters at the ends, and those that give some node the seed 0 or 1, *)
(* of which new makes one sequence.                                        *)
Masters == {{}, 0..63} \cup {Mixed[id] : id \in NodeIds}
                       \cup {Xor(Mixed[id], One) : id \in NodeIds}

NodePairs ==
  {[g \in 1..2 |-> DeriveSeed(master, ids[g])] :
     master \in Masters, ids \in {pair \in [1..2 -> NodeIds] : pair[1] # pair[2]}}

(* The ones of a word at the first shift's distance, from a lowest one.    *)
Stripe(bit) == {bit + n * A : n \in 0..Width} \cap Bits

StripedPairs == [1..2 -> {UNION {Stripe(bit) : bit \in low} : low \in SUBSET {0, B, 2 * B}}]

Pairs == NodePairs \cup StripedPairs

(***************************************************************************)
(* Two nodes of one simulation never draw the same number at once: from    *)
(* one master seed derive_seed makes two seeds of two identifiers, not     *)
(* even 0 and 1, which new makes one of, and the sequences do not merge.   *)
(***************************************************************************)
NodesHaveTheirOwnStreams == seeds \in NodePairs => generators[1] # generators[2]

(***************************************************************************)
(* No two identifiers of 32 bits can get the seeds 0 and 1: their products *)
(* with the multiplier would differ by one, so the identifiers would be    *)
(* the multiplier's inverse apart, which is more than 32 bits either way.  *)
(***************************************************************************)
ASSUME SeedsZeroAndOneAreFarApart ==
  /\ Times(Multiplier, MultiplierInverse) = One
  /\ MultiplierInverse \cap (32..63) # {}
  /\ (32..63) \ MultiplierInverse # {}
=============================================================================
