----------------------------- MODULE Broadcast ------------------------------
(***************************************************************************)
(* What the simulator promises to the nodes and to the reader of its       *)
(* counters.  Time never passes the end of a frame that is not settled.    *)
(* At its end, and when no other is before it, a frame is settled: if      *)
(* another one destroys it nobody hears it and it is counted as lost, and  *)
(* otherwise each node that was there when it began, its sender apart,     *)
(* hears it once, before time or any other frame goes on.  A node answers  *)
(* what it hears at the very instant, or not at all.                       *)
(*                                                                         *)
(* There is no queue of events here, no list of the frames on the air, no  *)
(* batch and no flag of a frame: what destroys a frame is told from all    *)
(* the frames that ever began.                                             *)
(***************************************************************************)
EXTENDS Frames

CONSTANTS NodeIds, Senders, MaxNodes, MaxFrames, EndTime

VARIABLES
  now,        \* the time
  frames,     \* every frame begun so far, in order
  nodes,      \* the identifiers of the registered nodes
  joined,     \* how many frames had begun when each node was registered
  settled,    \* the frames that are done with
  heardBy,    \* <<f, i>>: the node in place i has heard frame f
  tx, rx,     \* what was sent and heard under each identifier
  collisions  \* how many frames were lost

broadcastVars ==
  <<now, frames, nodes, joined, settled, heardBy, tx, rx, collisions>>

Pending == DOMAIN frames \ settled

(* A frame comes before another by its end and, of one end, by its start.  *)
Precedes(f, g) ==
  frames[f].end < frames[g].end \/ (frames[f].end = frames[g].end /\ f < g)

(* The frame to settle now.                                                *)
IsNextToSettle(f) ==
  /\ f \in Pending
  /\ frames[f].end = now
  /\ \A g \in Pending \ {f} : Precedes(f, g)

Audience(f) ==
  {i \in DOMAIN nodes : joined[i] < f /\ nodes[i] # frames[f].sender}

(* What a sender sends is counted if it is a node.                         *)
Sends(sender, time) ==
  /\ Len(frames) < MaxFrames
  /\ \E sent \in Transmissions :
       frames' = Append(frames, FrameOf(sender, sent, time))
  /\ tx' = IF \E i \in DOMAIN nodes : nodes[i] = sender
           THEN [tx EXCEPT ![sender] = @ + 1] ELSE tx

Silence == UNCHANGED <<frames, tx>>

-----------------------------------------------------------------------------
Init ==
  /\ now = 0
  /\ frames = << >>
  /\ nodes = << >>
  /\ joined = << >>
  /\ settled = {}
  /\ heardBy = {}
  /\ tx = [id \in NodeIds |-> 0]
  /\ rx = [id \in NodeIds |-> 0]
  /\ collisions = 0

(* A node is registered and will hear what begins from now on.             *)
Join(id) ==
  /\ Len(nodes) < MaxNodes
  /\ nodes' = Append(nodes, id)
  /\ joined' = Append(joined, Len(frames))
  /\ UNCHANGED <<now, frames, settled, heardBy, tx, rx, collisions>>

(* Time goes on, and some sender may begin a frame.                        *)
Turn(time) ==
  /\ \A f \in Pending : time <= frames[f].end
  /\ now' = time
  /\ Silence \/ \E sender \in Senders : Sends(sender, time)
  /\ UNCHANGED <<nodes, joined, settled, heardBy, rx, collisions>>

(* A node hears the frame that came through, and may answer it.            *)
Hear(f, i) ==
  /\ IsNextToSettle(f)
  /\ ~ IsDestroyed(frames, f)
  /\ i \in Audience(f)
  /\ <<f, i>> \notin heardBy
  /\ heardBy' = heardBy \cup {<<f, i>>}
  /\ rx' = [rx EXCEPT ![nodes[i]] = @ + 1]
  /\ Silence \/ Sends(nodes[i], now)
  /\ UNCHANGED <<now, nodes, joined, settled, collisions>>

(* Nobody hears the frame.                                                 *)
Lose(f) ==
  /\ IsNextToSettle(f)
  /\ IsDestroyed(frames, f)
  /\ settled' = settled \cup {f}
  /\ collisions' = collisions + 1
  /\ UNCHANGED <<now, frames, nodes, joined, heardBy, tx, rx>>

(* Everybody has heard it.                                                 *)
Pass(f) ==
  /\ IsNextToSettle(f)
  /\ ~ IsDestroyed(frames, f)
  /\ {f} \X Audience(f) \subseteq heardBy
  /\ settled' = settled \cup {f}
  /\ UNCHANGED <<now, frames, nodes, joined, heardBy, tx, rx, collisions>>

Next ==
  \/ \E id \in NodeIds : Join(id)
  \/ \E time \in now..EndTime : Turn(time)
  \/ \E f \in Pending :
       \/ \E i \in DOMAIN nodes : Hear(f, i)
       \/ Lose(f)
       \/ Pass(f)

Spec == Init /\ [][Next]_broadcastVars
=============================================================================
