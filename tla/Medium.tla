------------------------------- MODULE Medium -------------------------------
(***************************************************************************)
(* What the channel promises.  A frame starts, and at some moment after    *)
(* its end it is given a verdict, for good.  The verdict is the one that   *)
(* all frames together justify: it depends neither on the order in which   *)
(* the frames started nor on what was on the air when it was given.        *)
(***************************************************************************)
EXTENDS Frames

CONSTANTS Senders, MaxFrames, MaxTime

VARIABLES
  now,      \* the time of the latest call
  frames,   \* every frame started so far, in order
  verdict   \* for each of them, "pending" or its outcome

mediumVars == <<now, frames, verdict>>

Init ==
  /\ now = 0
  /\ frames = << >>
  /\ verdict = << >>

Start(sender, tx, time) ==
  /\ Len(frames) < MaxFrames
  /\ now' = time
  /\ frames' = Append(frames, FrameOf(sender, tx, time))
  /\ verdict' = Append(verdict, "pending")

Decide(time) ==
  /\ now' = time
  /\ verdict' = [id \in DOMAIN frames |->
                   IF verdict[id] = "pending" /\ frames[id].end <= time
                   THEN Outcome(frames, id)
                   ELSE verdict[id]]
  /\ UNCHANGED frames

TimePasses(time) ==
  /\ now' = time
  /\ UNCHANGED <<frames, verdict>>

Next ==
  \E time \in now..MaxTime :
    \/ \E sender \in Senders, tx \in Transmissions : Start(sender, tx, time)
    \/ Decide(time)
    \/ TimePasses(time)

Spec == Init /\ [][Next]_mediumVars
=============================================================================
