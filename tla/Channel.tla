------------------------------ MODULE Channel -------------------------------
(***************************************************************************)
(* The wireless channel of src/channel.rs: which frames are on the air,    *)
(* and the two flags it keeps up to date on each of them as further frames *)
(* begin.                                                                  *)
(*                                                                         *)
(* Frames are numbered in the order in which they begin.  The two vectors  *)
(* of the code hold their frames in that order, so a set of numbers stands *)
(* for each: the frame the scheduler takes next is the least of them.      *)
(***************************************************************************)
EXTENDS Frames, FiniteSets

CONSTANTS
  Senders,    \* node and interferer identifiers
  MaxFrames,  \* bound: frames in a behaviour
  MaxTime     \* bound: the latest time of a call

ASSUME ChannelAssumption == MaxFrames \in Nat /\ MaxTime \in Nat

VARIABLES
  now,        \* the time of the latest call (the scheduler's current_time)
  frames,     \* every frame ever begun; the code forgets the drained ones
  active,     \* active: the frames on the air
  completed,  \* completed: resolved, and not drained yet
  collided,   \* the frames whose collided flag is set
  captured    \* the frames whose captured flag is set

vars == <<now, frames, active, completed, collided, captured>>

FrameIds == DOMAIN frames

Frame == [sender : Senders, band : Bands, power : Powers, start : Nat, end : Nat]

TypeOK ==
  /\ now \in 0..MaxTime
  /\ frames \in Seq(Frame)
  /\ active \subseteq FrameIds
  /\ completed \subseteq FrameIds \ active
  /\ collided \subseteq FrameIds
  /\ captured \subseteq FrameIds

Init ==
  /\ now = 0
  /\ frames = << >>
  /\ active = {}
  /\ completed = {}
  /\ collided = {}
  /\ captured = {}

-----------------------------------------------------------------------------
(* The frames on the air that the new frame meets, split by the three      *)
(* cases of the power difference new - active.                             *)
Hit(new) == {id \in active : Meet(frames[id], new)}

(* Mutation of Beaten: a difference at the threshold does not capture.     *)
BeatenAbove(new) == {id \in Hit(new) : new.power - frames[id].power > Rejection}

Beaten(new) == {id \in Hit(new) : new.power - frames[id].power >= Rejection}

Stronger(new) ==
  {id \in Hit(new) \ Beaten(new) : new.power - frames[id].power <= -Rejection}

Level(new) == Hit(new) \ (Beaten(new) \cup Stronger(new))

(* The new frame is lost to a stronger one or to one of about its power.   *)
NewCollides(new) == Stronger(new) \cup Level(new) # {}

(* Mutation of NewCaptures: true of a frame that had nothing to beat.      *)
NewCapturesAll(new) == Beaten(new) = active

(* The new frame comes through although it met others.                     *)
NewCaptures(new) == Beaten(new) # {} /\ ~ NewCollides(new)

(***************************************************************************)
(* begin_transmission.  A frame that is beaten, or level with the new one, *)
(* is marked collided; a level one also loses its captured flag, a beaten  *)
(* one keeps it.                                                           *)
(***************************************************************************)
BeginTransmission(sender, tx, time) ==
  LET new == FrameOf(sender, tx, time)
      id  == Len(frames) + 1
  IN  /\ Len(frames) < MaxFrames
      /\ now' = time
      /\ frames' = Append(frames, new)
      /\ active' = active \cup {id}
      /\ collided' = collided \cup Beaten(new) \cup Level(new)
                       \cup {n \in {id} : NewCollides(new)}
      /\ captured' = ((captured \cup Stronger(new)) \ Level(new))
                       \cup {n \in {id} : NewCaptures(new)}
      /\ UNCHANGED completed

(* Mutation of Over: a frame ends after its last instant.                  *)
OverBefore(time) == {id \in active : frames[id].end < time}

(* Mutation of Over: one completion takes every frame off the air.         *)
OverAll(time) == active

Over(time) == {id \in active : frames[id].end <= time}

(* Mutation of ResolveAt: the frames that are over also stay on the air.   *)
ResolveAtCopying(time) ==
  /\ now' = time
  /\ completed' = completed \cup Over(time)
  /\ UNCHANGED <<frames, active, collided, captured>>

(* resolve_at: the frames that are over leave the air.                     *)
ResolveAt(time) ==
  /\ now' = time
  /\ active' = active \ Over(time)
  /\ completed' = completed \cup Over(time)
  /\ UNCHANGED <<frames, collided, captured>>

(* drain_completed: the caller takes the completed frames, flags included. *)
DrainCompleted ==
  /\ completed' = {}
  /\ UNCHANGED <<now, frames, active, collided, captured>>

(* The caller's clock moves without a call to the channel.                 *)
TimePasses(time) ==
  /\ now' = time
  /\ UNCHANGED <<frames, active, completed, collided, captured>>

(* The channel takes its caller's word for the time: calls come in the     *)
(* order of time, which is the scheduler's to keep.                        *)
Next ==
  \/ \E time \in now..MaxTime :
       \/ \E sender \in Senders, tx \in Transmissions :
            BeginTransmission(sender, tx, time)
       \/ ResolveAt(time)
       \/ TimePasses(time)
  \/ DrainCompleted

Spec == Init /\ [][Next]_vars

-----------------------------------------------------------------------------
(***************************************************************************)
(* The collided flags, set pair by pair as frames begin, are at every      *)
(* moment exactly what all frames begun so far justify.  For a resolved    *)
(* frame this also says that no frame begun since would have changed the   *)
(* verdict that begin_transmission left it with.                           *)
(***************************************************************************)
CollidedIffDestroyed ==
  \A id \in FrameIds : id \in collided <=> IsDestroyed(frames, id)

(***************************************************************************)
(* A frame that did not collide carries the captured flag exactly when it  *)
(* met another frame: begin_transmission neither loses the flag of a frame *)
(* that came through nor leaves one on a frame that was alone.             *)
(***************************************************************************)
CapturedIffSurvived ==
  \A id \in FrameIds \ collided : id \in captured <=> IsMet(frames, id)

(* The verdict of a frame as the caller of drain_completed reads it.       *)
Verdict(id) ==
  IF id \in active        THEN "pending"
  ELSE IF id \in collided THEN "collided"
  ELSE IF id \in captured THEN "captured"
  ELSE "clear"

Verdicts == [id \in FrameIds |-> Verdict(id)]

M == INSTANCE Medium WITH verdict <- Verdicts

(***************************************************************************)
(* The channel implements the abstract medium: however begin_transmission, *)
(* resolve_at and drain_completed interleave, each frame gets one verdict, *)
(* once, when resolve_at moves it, and it is the verdict all frames give.  *)
(***************************************************************************)
ImplementsMedium == M!Spec
=============================================================================
