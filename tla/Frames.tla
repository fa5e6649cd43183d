------------------------------- MODULE Frames -------------------------------
(***************************************************************************)
(* Frames on the air, and what two of them do to each other.               *)
(*                                                                         *)
(* A frame keeps the fields of ActiveTransmission that decide its fate.    *)
(* Its payload is left out.  The spreading factor and the frequency are    *)
(* only ever compared together, so the pair is one value, its band.        *)
(***************************************************************************)
EXTENDS Integers, Sequences

CONSTANTS
  Bands,      \* (sf, frequency) pairs
  Powers,     \* tx_power_dbm, an i8
  Durations,  \* duration_us
  Rejection   \* co_channel_rejection_db

(***************************************************************************)
(* The threshold is an f32, but the differences compared with it are those *)
(* of two i8 values: rounding it up to a whole dB changes no comparison.   *)
(* With a threshold of zero or less the three cases of begin_transmission  *)
(* overlap and the later of two equal frames would win.                    *)
(***************************************************************************)
ASSUME FramesAssumption ==
  /\ Powers \subseteq Int
  /\ Durations \subseteq Nat
  /\ Rejection \in Nat \ {0}

(* What a node or an interferer hands over to be sent.                     *)
Transmissions == [band : Bands, power : Powers, duration : Durations]

FrameOf(sender, tx, time) ==
  [sender |-> sender, band |-> tx.band, power |-> tx.power,
   start  |-> time,   end  |-> time + tx.duration]

(* fn overlaps: half-open intervals, so touching frames do not meet.       *)
Overlaps(f, g) == f.start < g.end /\ g.start < f.end

Meet(f, g) == Overlaps(f, g) /\ f.band = g.band

-----------------------------------------------------------------------------
(***************************************************************************)
(* The outcome of a frame, told from all the frames there ever were and    *)
(* from nothing else: frame g destroys frame f when they meet and f is not *)
(* the stronger by the rejection threshold.                                *)
(***************************************************************************)
Destroys(g, f) == Meet(f, g) /\ f.power - g.power < Rejection

IsDestroyed(frames, id) ==
  \E other \in DOMAIN frames \ {id} : Destroys(frames[other], frames[id])

IsMet(frames, id) ==
  \E other \in DOMAIN frames \ {id} : Meet(frames[id], frames[other])

Outcome(frames, id) ==
  IF IsDestroyed(frames, id) THEN "collided"
  ELSE IF IsMet(frames, id)  THEN "captured"
  ELSE "clear"
=============================================================================
