---------------------------- MODULE ChannelProofs ---------------------------
(***************************************************************************)
(* What the channel guarantees for every set of bands, powers, durations   *)
(* and senders and for every bound.  The argument: calls come in the order *)
(* of time, so a frame that has been resolved is over before any later     *)
(* frame starts and cannot meet it; begin_transmission may therefore leave *)
(* the resolved frames alone and compare the new one with the active ones. *)
(***************************************************************************)
EXTENDS Channel, SequenceTheorems, TLAPS

(* A frame off the air is over, and no frame starts in the future.         *)
InOrder ==
  \A id \in FrameIds :
    /\ frames[id].start <= now
    /\ id \notin active => frames[id].end <= now

(* The inductive invariant.                                                *)
IInv == TypeOK /\ InOrder /\ CollidedIffDestroyed /\ CapturedIffSurvived

-----------------------------------------------------------------------------
(* Frames on the air in half-open intervals overlap, by the strict test of *)
(* fn overlaps, exactly when some instant belongs to both.                 *)
LEMMA OverlapsMeansCommonInstant ==
  ASSUME NEW f, NEW g,
         f.start \in Nat, f.end \in Nat, f.start < f.end,
         g.start \in Nat, g.end \in Nat, g.start < g.end
  PROVE  Overlaps(f, g) <=>
           \E t \in Nat : /\ f.start <= t /\ t < f.end
                          /\ g.start <= t /\ t < g.end
<1>1. ASSUME Overlaps(f, g)
      PROVE  \E t \in Nat : f.start <= t /\ t < f.end /\ g.start <= t /\ t < g.end
  <2>1. CASE f.start <= g.start
    <3>1. f.start <= g.start /\ g.start < f.end /\ g.start <= g.start /\ g.start < g.end
      BY <1>1, <2>1 DEF Overlaps
    <3> QED
      BY <3>1
  <2>2. CASE g.start <= f.start
    <3>1. f.start <= f.start /\ f.start < f.end /\ g.start <= f.start /\ f.start < g.end
      BY <1>1, <2>2 DEF Overlaps
    <3> QED
      BY <3>1
  <2> QED
    BY <2>1, <2>2
<1>2. ASSUME NEW t \in Nat, f.start <= t, t < f.end, g.start <= t, t < g.end
      PROVE  Overlaps(f, g)
  BY <1>2 DEF Overlaps
<1> QED
  BY <1>1, <1>2

(* The new frame of begin_transmission has the type of a frame.            *)
LEMMA FrameOfType ==
  ASSUME NEW sender \in Senders, NEW tx \in Transmissions, NEW time \in Nat
  PROVE  /\ FrameOf(sender, tx, time) \in Frame
         /\ FrameOf(sender, tx, time).start = time
<1>1. tx.band \in Bands /\ tx.power \in Powers /\ tx.duration \in Nat
  BY FramesAssumption DEF Transmissions
<1>2. time + tx.duration \in Nat
  BY <1>1
<1> QED
  BY <1>1, <1>2 DEF FrameOf, Frame

(* What pushing the new frame does to the history of frames.               *)
LEMMA HistoryGrows ==
  ASSUME NEW fs \in Seq(Frame), NEW new \in Frame
  PROVE  /\ Append(fs, new) \in Seq(Frame)
         /\ DOMAIN Append(fs, new) = DOMAIN fs \cup {Len(fs) + 1}
         /\ Len(fs) + 1 \notin DOMAIN fs
         /\ Append(fs, new)[Len(fs) + 1] = new
         /\ \A id \in DOMAIN fs : Append(fs, new)[id] = fs[id]
<1>1. DOMAIN fs = 1..Len(fs) /\ Len(fs) \in Nat
  OBVIOUS
<1>2. DOMAIN Append(fs, new) = 1..(Len(fs) + 1)
  OBVIOUS
<1>3. 1..(Len(fs) + 1) = 1..Len(fs) \cup {Len(fs) + 1}
  BY <1>1
<1> QED
  BY <1>1, <1>2, <1>3

-----------------------------------------------------------------------------
(* A call that names a time: all but drain_completed.                      *)
CallAt(time) ==
  \/ \E sender \in Senders, tx \in Transmissions : BeginTransmission(sender, tx, time)
  \/ ResolveAt(time)
  \/ TimePasses(time)

(* Such a call keeps the types, also when its time is in the past.         *)
LEMMA CallKeepsType ==
  ASSUME TypeOK, NEW time \in 0..MaxTime, CallAt(time)
  PROVE  TypeOK'
<1>1. ASSUME NEW sender \in Senders, NEW tx \in Transmissions,
             BeginTransmission(sender, tx, time)
      PROVE  TypeOK'
  <2> DEFINE new == FrameOf(sender, tx, time)
  <2>1. time \in Nat
    BY ChannelAssumption
  <2>2. new \in Frame
    BY <2>1, FrameOfType
  <2>3. frames' = Append(frames, new) /\ frames \in Seq(Frame)
    BY <1>1 DEF BeginTransmission, TypeOK
  <2>4. /\ frames' \in Seq(Frame)
        /\ FrameIds' = FrameIds \cup {Len(frames) + 1}
        /\ Len(frames) + 1 \notin FrameIds
    BY <2>2, <2>3, HistoryGrows DEF FrameIds
  <2>5. Beaten(new) \subseteq FrameIds /\ Level(new) \subseteq FrameIds
          /\ Stronger(new) \subseteq FrameIds
    BY DEF Beaten, Level, Stronger, Hit, TypeOK
  <2> QED
    BY <1>1, <2>1, <2>4, <2>5 DEF BeginTransmission, TypeOK
<1>2. CASE ResolveAt(time)
  BY <1>2 DEF ResolveAt, Over, TypeOK, FrameIds
<1>3. CASE TimePasses(time)
  BY <1>3 DEF TimePasses, TypeOK, FrameIds
<1> QED
  BY <1>1, <1>2, <1>3 DEF CallAt

(* No call to the channel breaks its types: TypeOK is inductive by itself.  *)
LEMMA StepKeepsType == TypeOK /\ [Next]_vars => TypeOK'
<1> SUFFICES ASSUME TypeOK, [Next]_vars
             PROVE  TypeOK'
  OBVIOUS
<1>1. now..MaxTime \subseteq 0..MaxTime
  BY ChannelAssumption DEF TypeOK
<1>2. ASSUME NEW time \in now..MaxTime, CallAt(time)
      PROVE  TypeOK'
  BY <1>1, <1>2, CallKeepsType
<1>3. CASE DrainCompleted
  BY <1>3 DEF DrainCompleted, TypeOK, FrameIds
<1>4. CASE UNCHANGED vars
  BY <1>4 DEF vars, TypeOK, FrameIds
<1> QED
  BY <1>2, <1>3, <1>4 DEF Next, CallAt

(* The vectors and flags of the channel keep their types in every behaviour. *)
THEOREM TypeCorrect == Spec => []TypeOK
<1>1. Init => TypeOK
  BY ChannelAssumption DEF Init, TypeOK, FrameIds
<1> QED
  BY <1>1, StepKeepsType, PTL DEF Spec

-----------------------------------------------------------------------------
(***************************************************************************)
(* What one call of begin_transmission does to the flags, read off against *)
(* the history: the new frame meets none of the frames that are off the    *)
(* air, and the three cases mark exactly the frames that it destroys.      *)
(***************************************************************************)
LEMMA MeetIsSymmetric ==
  ASSUME NEW f, NEW g
  PROVE  Meet(f, g) <=> Meet(g, f)
BY DEF Meet, Overlaps

LEMMA OnlyActiveFramesMeet ==
  ASSUME TypeOK, InOrder, NEW new \in Frame, now <= new.start,
         NEW id \in FrameIds, Meet(frames[id], new)
  PROVE  id \in Hit(new)
<1>1. frames[id] \in Frame
  BY DEF TypeOK, FrameIds
<1>2. new.start < frames[id].end
  BY DEF Meet, Overlaps
<1>3. id \in active
  BY <1>1, <1>2 DEF InOrder, TypeOK, Frame
<1> QED
  BY <1>3 DEF Hit

LEMMA FlagsMarkTheDestroyed ==
  ASSUME TypeOK, InOrder, NEW new \in Frame, now <= new.start,
         NEW id \in FrameIds
  PROVE  /\ id \in Beaten(new) \cup Level(new) <=> Destroys(new, frames[id])
         /\ id \in Stronger(new) \cup Level(new) <=> Destroys(frames[id], new)
         /\ id \in Hit(new) <=> Meet(frames[id], new)
<1>1. id \in Hit(new) <=> Meet(frames[id], new)
  BY OnlyActiveFramesMeet DEF Hit
<1>2. frames[id].power \in Int /\ new.power \in Int
  <2>1. frames[id] \in Frame
    BY DEF TypeOK, FrameIds
  <2>2. frames[id].power \in Powers /\ new.power \in Powers
    BY <2>1 DEF Frame
  <2> QED
    BY <2>2, FramesAssumption
<1>3. Rejection \in Nat /\ Rejection > 0
  BY FramesAssumption
<1>4. id \in Beaten(new) \cup Level(new)
        <=> id \in Hit(new) /\ frames[id].power - new.power < Rejection
  BY <1>2, <1>3 DEF Beaten, Level, Stronger
<1>5. id \in Stronger(new) \cup Level(new)
        <=> id \in Hit(new) /\ new.power - frames[id].power < Rejection
  BY <1>2, <1>3 DEF Beaten, Level, Stronger
<1> QED
  BY <1>1, <1>4, <1>5, MeetIsSymmetric DEF Destroys

(* The indices of the others, once the new frame is in the history.        *)
LEMMA IsDestroyedGrows ==
  ASSUME NEW fs \in Seq(Frame), NEW new \in Frame
  PROVE  /\ \A id \in DOMAIN fs :
              IsDestroyed(Append(fs, new), id)
                <=> IsDestroyed(fs, id) \/ Destroys(new, fs[id])
         /\ IsDestroyed(Append(fs, new), Len(fs) + 1)
              <=> \E id \in DOMAIN fs : Destroys(fs[id], new)
BY HistoryGrows DEF IsDestroyed

LEMMA IsMetGrows ==
  ASSUME NEW fs \in Seq(Frame), NEW new \in Frame
  PROVE  /\ \A id \in DOMAIN fs :
              IsMet(Append(fs, new), id) <=> IsMet(fs, id) \/ Meet(fs[id], new)
         /\ IsMet(Append(fs, new), Len(fs) + 1)
              <=> \E id \in DOMAIN fs : Meet(fs[id], new)
BY HistoryGrows, MeetIsSymmetric DEF IsMet

-----------------------------------------------------------------------------
LEMMA Initially == Init => IInv
<1>1. Init => TypeOK
  BY ChannelAssumption DEF Init, TypeOK, FrameIds
<1> QED
  BY <1>1 DEF Init, IInv, InOrder, CollidedIffDestroyed, CapturedIffSurvived, FrameIds

(* begin_transmission keeps the invariant.                                 *)
LEMMA BeginKeepsIInv ==
  ASSUME IInv, TypeOK', NEW time \in now..MaxTime, NEW sender \in Senders,
         NEW tx \in Transmissions, BeginTransmission(sender, tx, time)
  PROVE  IInv'
<1> DEFINE new  == FrameOf(sender, tx, time)
           last == Len(frames) + 1
<1>1. now \in Nat /\ time \in Nat /\ now <= time
  BY ChannelAssumption DEF IInv, TypeOK
<1>2. /\ new \in Frame
      /\ new.start = time
  BY <1>1, FrameOfType
<1>3. frames \in Seq(Frame) /\ frames' = Append(frames, new)
  BY DEF IInv, TypeOK, BeginTransmission
<1>4. /\ FrameIds' = FrameIds \cup {last}
      /\ last \notin FrameIds
      /\ frames'[last] = new
      /\ \A id \in FrameIds : frames'[id] = frames[id]
  BY <1>2, <1>3, HistoryGrows DEF FrameIds
<1>5. \A id \in FrameIds :
        /\ id \in Beaten(new) \cup Level(new) <=> Destroys(new, frames[id])
        /\ id \in Stronger(new) \cup Level(new) <=> Destroys(frames[id], new)
        /\ id \in Hit(new) <=> Meet(frames[id], new)
  BY <1>1, <1>2, FlagsMarkTheDestroyed DEF IInv
<1>6. Hit(new) = Beaten(new) \cup Stronger(new) \cup Level(new)
        /\ Hit(new) \subseteq active /\ active \subseteq FrameIds
  BY DEF Hit, Beaten, Stronger, Level, IInv, TypeOK
<1>7. NewCollides(new) <=> \E id \in FrameIds : Destroys(frames[id], new)
  BY <1>5, <1>6 DEF NewCollides
<1>8. ~ NewCollides(new) =>
        (NewCaptures(new) <=> \E id \in FrameIds : Meet(frames[id], new))
  BY <1>5, <1>6 DEF NewCollides, NewCaptures
<1>9. InOrder'
  <2>1. ASSUME NEW id \in FrameIds
        PROVE  /\ frames'[id].start <= now'
               /\ id \notin active' => frames'[id].end <= now'
    <3>1. frames[id] \in Frame
      BY <1>3 DEF FrameIds
    <3>2. frames[id].start \in Nat /\ frames[id].end \in Nat
      BY <3>1 DEF Frame
    <3>3. frames[id].start <= now /\ (id \notin active => frames[id].end <= now)
      BY DEF IInv, InOrder
    <3>4. now' = time /\ (id \notin active' => id \notin active)
      BY DEF BeginTransmission
    <3>5. frames'[id] = frames[id]
      BY <1>4
    <3>6. frames[id].start <= time /\ (id \notin active => frames[id].end <= time)
      BY <1>1, <3>2, <3>3
    <3> QED
      BY <3>4, <3>5, <3>6
  <2>2. frames'[last].start <= now' /\ last \in active'
    BY <1>1, <1>2, <1>4 DEF BeginTransmission
  <2> QED
    BY <1>4, <2>1, <2>2 DEF InOrder
<1>10. CollidedIffDestroyed'
  <2>1. ASSUME NEW id \in FrameIds
        PROVE  id \in collided' <=> IsDestroyed(frames', id)
    <3>1. id \in collided' <=> id \in collided \/ id \in Beaten(new) \cup Level(new)
      BY <1>4 DEF BeginTransmission
    <3>2. IsDestroyed(frames', id) <=> IsDestroyed(frames, id) \/ Destroys(new, frames[id])
      BY <1>2, <1>3, IsDestroyedGrows DEF FrameIds
    <3> QED
      BY <1>5, <3>1, <3>2 DEF IInv, CollidedIffDestroyed
  <2>2. last \in collided' <=> IsDestroyed(frames', last)
    <3>1. last \in collided' <=> NewCollides(new)
      BY <1>4, <1>6 DEF BeginTransmission, IInv, TypeOK
    <3>2. IsDestroyed(frames', last) <=> \E id \in FrameIds : Destroys(frames[id], new)
      BY <1>2, <1>3, IsDestroyedGrows DEF FrameIds
    <3> QED
      BY <1>7, <3>1, <3>2
  <2> QED
    BY <1>4, <2>1, <2>2 DEF CollidedIffDestroyed
<1>11. CapturedIffSurvived'
  <2>1. ASSUME NEW id \in FrameIds, id \notin collided'
        PROVE  id \in captured' <=> IsMet(frames', id)
    <3>1. id \notin collided /\ id \notin Beaten(new) /\ id \notin Level(new)
      BY <2>1 DEF BeginTransmission
    <3>2. id \in captured' <=> id \in captured \/ id \in Hit(new)
      BY <1>4, <1>6, <3>1 DEF BeginTransmission
    <3>3. IsMet(frames', id) <=> IsMet(frames, id) \/ Meet(frames[id], new)
      BY <1>2, <1>3, IsMetGrows DEF FrameIds
    <3> QED
      BY <1>5, <3>1, <3>2, <3>3 DEF IInv, CapturedIffSurvived
  <2>2. ASSUME last \notin collided'
        PROVE  last \in captured' <=> IsMet(frames', last)
    <3>1. ~ NewCollides(new)
      BY <2>2 DEF BeginTransmission
    <3>2. last \in captured' <=> NewCaptures(new)
      BY <1>4, <1>6 DEF BeginTransmission, IInv, TypeOK
    <3>3. IsMet(frames', last) <=> \E id \in FrameIds : Meet(frames[id], new)
      BY <1>2, <1>3, IsMetGrows DEF FrameIds
    <3> QED
      BY <1>8, <3>1, <3>2, <3>3
  <2> QED
    BY <1>4, <2>1, <2>2 DEF CapturedIffSurvived
<1> QED
  BY <1>9, <1>10, <1>11 DEF IInv

(* The calls that touch neither the history nor the flags keep it too.     *)
LEMMA OthersKeepIInv ==
  ASSUME IInv, TypeOK', now' \in now..MaxTime,
         UNCHANGED <<frames, collided, captured>>,
         \A id \in active \ active' : frames[id].end <= now'
  PROVE  IInv'
<1>1. now \in Nat /\ now' \in Nat /\ now <= now'
  BY ChannelAssumption DEF IInv, TypeOK
<1>2. InOrder'
  <2> SUFFICES ASSUME NEW id \in FrameIds
               PROVE  /\ frames[id].start <= now'
                      /\ id \notin active' => frames[id].end <= now'
    BY DEF InOrder, FrameIds
  <2>1. frames[id] \in Frame
    BY DEF IInv, TypeOK, FrameIds
  <2>2. frames[id].start \in Nat /\ frames[id].end \in Nat
    BY <2>1 DEF Frame
  <2>3. frames[id].start <= now /\ (id \notin active => frames[id].end <= now)
    BY DEF IInv, InOrder
  <2> QED
    BY <1>1, <2>2, <2>3
<1>3. CollidedIffDestroyed' /\ CapturedIffSurvived'
  BY DEF IInv, CollidedIffDestroyed, CapturedIffSurvived, FrameIds
<1> QED
  BY <1>2, <1>3 DEF IInv

THEOREM Inductive == Spec => []IInv
<1>1. IInv /\ TypeOK' /\ [Next]_vars => IInv'
  <2> SUFFICES ASSUME IInv, TypeOK', [Next]_vars
               PROVE  IInv'
    OBVIOUS
  <2>0. now \in now..MaxTime
    BY ChannelAssumption DEF IInv, TypeOK
  <2>1. ASSUME NEW time \in now..MaxTime, NEW sender \in Senders,
               NEW tx \in Transmissions, BeginTransmission(sender, tx, time)
        PROVE  IInv'
    BY <2>1, BeginKeepsIInv
  <2>2. ASSUME NEW time \in now..MaxTime, ResolveAt(time)
        PROVE  IInv'
    BY <2>2, OthersKeepIInv DEF ResolveAt, Over
  <2>3. ASSUME NEW time \in now..MaxTime, TimePasses(time)
        PROVE  IInv'
    BY <2>3, OthersKeepIInv DEF TimePasses
  <2>4. CASE DrainCompleted
    BY <2>0, <2>4, OthersKeepIInv DEF DrainCompleted
  <2>5. CASE UNCHANGED vars
    BY <2>0, <2>5, OthersKeepIInv DEF vars
  <2> QED
    BY <2>1, <2>2, <2>3, <2>4, <2>5 DEF Next
<1> QED
  BY <1>1, Initially, TypeCorrect, PTL DEF Spec

(***************************************************************************)
(* The collided flag of every frame is the one all frames justify.         *)
(***************************************************************************)
THEOREM VerdictsAreTrue == Spec => []CollidedIffDestroyed
<1>1. IInv => CollidedIffDestroyed
  BY DEF IInv
<1> QED
  BY <1>1, Inductive, PTL

(* So is the captured flag of every frame that came through.               *)
THEOREM CapturesAreTrue == Spec => []CapturedIffSurvived
<1>1. IInv => CapturedIffSurvived
  BY DEF IInv
<1> QED
  BY <1>1, Inductive, PTL

-----------------------------------------------------------------------------
(***************************************************************************)
(* The channel implements the medium.                                      *)
(***************************************************************************)

(* The flags of a frame are its outcome, so leaving the air decides it.    *)
LEMMA FlagsGiveOutcome ==
  ASSUME IInv, NEW id \in FrameIds
  PROVE  Outcome(frames, id) = IF id \in collided THEN "collided"
                               ELSE IF id \in captured THEN "captured" ELSE "clear"
BY DEF IInv, CollidedIffDestroyed, CapturedIffSurvived, Outcome

LEMMA BeginIsStart ==
  ASSUME IInv, NEW time \in now..MaxTime, NEW sender \in Senders,
         NEW tx \in Transmissions, BeginTransmission(sender, tx, time)
  PROVE  M!Start(sender, tx, time)
<1> DEFINE new  == FrameOf(sender, tx, time)
           last == Len(frames) + 1
<1>1. time \in Nat
  BY ChannelAssumption DEF IInv, TypeOK
<1>2. new \in Frame
  BY <1>1, FrameOfType
<1>3. frames \in Seq(Frame) /\ frames' = Append(frames, new)
  BY DEF IInv, TypeOK, BeginTransmission
<1>4. /\ FrameIds = 1..Len(frames) /\ Len(frames) \in Nat
      /\ FrameIds' = 1..last
      /\ last \notin FrameIds
  BY <1>2, <1>3, HistoryGrows DEF FrameIds
<1>5. Beaten(new) \subseteq active /\ Level(new) \subseteq active
        /\ Stronger(new) \subseteq active
  BY DEF Beaten, Level, Stronger, Hit
<1>6. \A id \in FrameIds : Verdict(id)' = Verdict(id)
  BY <1>4, <1>5 DEF Verdict, BeginTransmission
<1>7. \A id \in {last} : Verdict(id)' = "pending"
  BY DEF Verdict, BeginTransmission
<1>8. Verdicts' = Append(Verdicts, "pending")
  <2> DEFINE V == {"pending", "collided", "captured", "clear"}
  <2>1. Verdicts \in Seq(V) /\ Len(Verdicts) = Len(frames)
    BY <1>4 DEF Verdicts, Verdict
  <2>2. /\ Append(Verdicts, "pending") \in Seq(V)
        /\ Len(Append(Verdicts, "pending")) = last
        /\ \A id \in FrameIds : Append(Verdicts, "pending")[id] = Verdict(id)
        /\ \A id \in {last} : Append(Verdicts, "pending")[id] = "pending"
    BY <1>4, <2>1, AppendProperties DEF Verdicts
  <2>3. /\ Verdicts' \in Seq(V) /\ Len(Verdicts') = last
        /\ \A id \in FrameIds \cup {last} : Verdicts'[id] = Verdict(id)'
    BY <1>4 DEF Verdicts, Verdict
  <2>4. 1..last = FrameIds \cup {last}
    BY <1>4
  <2>5. \A id \in 1..last : Verdicts'[id] = Append(Verdicts, "pending")[id]
    BY <1>6, <1>7, <2>2, <2>3, <2>4
  <2> HIDE DEF V
  <2> QED
    BY <2>2, <2>3, <2>5, SeqEqual
<1> QED
  BY <1>8 DEF M!Start, M!FrameOf, BeginTransmission, FrameOf

LEMMA ResolveIsDecide ==
  ASSUME IInv, NEW time \in now..MaxTime, ResolveAt(time)
  PROVE  M!Decide(time)
<1>1. FrameIds' = FrameIds
  BY DEF ResolveAt, FrameIds
<1>2. ASSUME NEW id \in FrameIds
      PROVE  Verdict(id)' =
               IF Verdict(id) = "pending" /\ frames[id].end <= time
               THEN Outcome(frames, id) ELSE Verdict(id)
  BY FlagsGiveOutcome DEF Verdict, ResolveAt, Over
<1>3. Verdicts' = [id \in DOMAIN frames |->
                     IF Verdicts[id] = "pending" /\ frames[id].end <= time
                     THEN Outcome(frames, id) ELSE Verdicts[id]]
  BY <1>1, <1>2 DEF Verdicts, FrameIds
<1>4. \A id : M!Outcome(frames, id) = Outcome(frames, id)
  BY DEF M!Outcome, Outcome, M!IsDestroyed, IsDestroyed, M!IsMet, IsMet,
         M!Destroys, Destroys, M!Meet, Meet, M!Overlaps, Overlaps
<1> QED
  BY <1>3, <1>4 DEF M!Decide, ResolveAt

THEOREM ChannelImplementsMedium == Spec => ImplementsMedium
<1>1. Init => M!Init
  BY DEF Init, M!Init, Verdicts, FrameIds
<1>2. IInv /\ [Next]_vars => [M!Next]_(M!mediumVars)
  <2> SUFFICES ASSUME IInv, [Next]_vars
               PROVE  [M!Next]_(M!mediumVars)
    OBVIOUS
  <2>1. ASSUME NEW time \in now..MaxTime, NEW sender \in Senders,
               NEW tx \in Transmissions, BeginTransmission(sender, tx, time)
        PROVE  M!Next
    BY <2>1, BeginIsStart DEF M!Next, M!Transmissions, Transmissions
  <2>2. ASSUME NEW time \in now..MaxTime, ResolveAt(time)
        PROVE  M!Next
    BY <2>2, ResolveIsDecide DEF M!Next
  <2>3. ASSUME NEW time \in now..MaxTime, TimePasses(time)
        PROVE  M!Next
    <3>1. Verdicts' = Verdicts
      BY <2>3 DEF TimePasses, Verdicts, Verdict, FrameIds
    <3> QED
      BY <2>3, <3>1 DEF M!Next, M!TimePasses, TimePasses
  <2>4. CASE DrainCompleted \/ UNCHANGED vars
    <3>1. Verdicts' = Verdicts
      BY <2>4 DEF DrainCompleted, vars, Verdicts, Verdict, FrameIds
    <3> QED
      BY <2>4, <3>1 DEF M!mediumVars, DrainCompleted, vars
  <2> QED
    BY <2>1, <2>2, <2>3, <2>4 DEF Next
<1> QED
  BY <1>1, <1>2, Inductive, PTL DEF Spec, ImplementsMedium, M!Spec
=============================================================================
