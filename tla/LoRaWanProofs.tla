---------------------------- MODULE LoRaWanProofs ---------------------------
(***************************************************************************)
(* Theorems about the LoRaWAN sender, for every file, chunk size and       *)
(* interval, every choice of timeouts and any number of bands.             *)
(***************************************************************************)
EXTENDS LoRaWan, SequenceTheorems, TLAPS

(* The chunks cut off so far.                                              *)
Cut == sent + refused

(* The end of the first receive window, after the start of an uplink.      *)
FirstWindow == TimeoutOf["close rx1"] * MicrosPerMilli

(* Which timeout is pending follows from the step of the device.           *)
TimeoutIsOfStep ==
  pendingTimeout = IF device = "idle" THEN << >> ELSE <<TimeoutOf[device]>>

(* Chunks make up the file from its beginning; only the last may be short. *)
ChunksFromStart ==
  /\ offset <= Chunk * Cut /\ Chunk * Cut < offset + Chunk
  /\ ~ Done => offset = Chunk * Cut

(* A device that does not reask has one wake queued at most.               *)
OneWake == ~ reasks => Len(wakes) <= 1

(* A wake left over while the device is idle comes after a window's end.   *)
IdleWakesAreLate ==
  ~ reasks /\ device = "idle" /\ offset > 0 =>
    \A n \in DOMAIN wakes : wakes[n] >= txStart + FirstWindow

(* Once a chunk was cut off, the next is due an interval later.            *)
NextIsDue == offset > 0 => nextSend = txStart + interval

IInv ==
  /\ TypeOK
  /\ interval \in Intervals
  /\ ~ pendingTx
  /\ TimeoutIsOfStep
  /\ ChunksFromStart
  /\ OneWake
  /\ TimeoutFiresOnTime
  /\ IdleWakesAreLate
  /\ NextIsDue
  /\ SilentOnlyWhenDone

-----------------------------------------------------------------------------
(* Arithmetic: the quotient of a number between two multiples.             *)
LEMMA QuotientBetween ==
  ASSUME NEW c \in Nat \ {0}, NEW k \in Nat, NEW a \in Nat,
         c * k <= a, a < c * k + c
  PROVE  a \div c = k
<1> DEFINE q == a \div c
           r == a % c
<1>1. q \in Int /\ r \in Int /\ a = c * q + r /\ 0 <= r /\ r < c
  OBVIOUS
<1> HIDE DEF q, r
<1>2. CASE q > k
  <2>1. c * q >= c * (k + 1)
    BY <1>1, <1>2
  <2>2. c * (k + 1) = c * k + c
    OBVIOUS
  <2> QED BY <1>1, <2>1, <2>2
<1>3. CASE q < k
  <2>1. c * k >= c * (q + 1)
    BY <1>1, <1>3
  <2>2. c * (q + 1) = c * q + c
    BY <1>1
  <2> QED BY <1>1, <2>1, <2>2
<1>4. q = k
  BY <1>1, <1>2, <1>3
<1> QED BY <1>4 DEF q

LEMMA ProductIsMonotonic ==
  ASSUME NEW a \in Nat, NEW b \in Nat, NEW m \in Nat, a <= b
  PROVE  a * m \in Nat /\ b * m \in Nat /\ a * m <= b * m
OBVIOUS

(* The timeouts in microseconds; the end of a window is not before that of *)
(* the first.                                                              *)
LEMMA WindowsInOrder ==
  /\ \A step \in Steps : TimeoutOf[step] \in Nat /\ TimeoutOf[step] * MicrosPerMilli \in Nat
  /\ FirstWindow \in Nat
  /\ \A step \in {"close rx1", "close rx2"} :
       FirstWindow <= TimeoutOf[step] * MicrosPerMilli
<1>1. /\ MicrosPerMilli \in Nat
      /\ \A step \in Steps : TimeoutOf[step] \in Nat
      /\ TimeoutOf["close rx1"] <= TimeoutOf["close rx2"]
  <2>1. MicrosPerMilli \in Nat /\ \A step \in Steps : TimeoutOf[step] \in Nat
    BY LoRaWanAssumption DEF LoRaWanAssumption
  <2>2. /\ TimeoutOf["close rx1"] \in Nat /\ TimeoutOf["open rx2"] \in Nat
        /\ TimeoutOf["close rx2"] \in Nat
    BY <2>1 DEF Steps
  <2>3. /\ TimeoutOf["close rx1"] <= TimeoutOf["open rx2"]
        /\ TimeoutOf["open rx2"] <= TimeoutOf["close rx2"]
    BY LoRaWanAssumption DEF LoRaWanAssumption
  <2>4. TimeoutOf["close rx1"] <= TimeoutOf["close rx2"]
    <3> DEFINE a == TimeoutOf["close rx1"]
               b == TimeoutOf["open rx2"]
               c == TimeoutOf["close rx2"]
    <3>1. a \in Nat /\ b \in Nat /\ c \in Nat /\ a <= b /\ b <= c
      BY <2>2, <2>3
    <3> HIDE DEF a, b, c
    <3>2. a <= c
      BY <3>1
    <3> QED BY <3>2 DEF a, c
  <2> QED BY <2>1, <2>4
<1>2. \A step \in Steps : TimeoutOf[step] * MicrosPerMilli \in Nat
  <2> TAKE step \in Steps
  <2> TimeoutOf[step] \in Nat /\ MicrosPerMilli \in Nat
    BY <1>1
  <2> QED BY ProductIsMonotonic
<1>3. TimeoutOf["close rx1"] * MicrosPerMilli <= TimeoutOf["close rx2"] * MicrosPerMilli
  <2>1. TimeoutOf["close rx1"] \in Nat /\ TimeoutOf["close rx2"] \in Nat
    BY <1>1 DEF Steps
  <2> QED BY <1>1, <2>1, ProductIsMonotonic
<1>4. FirstWindow \in Nat
  BY <1>2 DEF Steps, FirstWindow
<1>5. FirstWindow = TimeoutOf["close rx1"] * MicrosPerMilli
  BY DEF FirstWindow
<1>6. FirstWindow <= FirstWindow
  BY <1>4
<1> QED BY <1>1, <1>2, <1>3, <1>4, <1>5, <1>6

(* What is left of the queue when one wake was popped.                     *)
LEMMA OthersOf ==
  ASSUME wakes \in Seq(Nat), NEW n \in DOMAIN wakes
  PROVE  /\ Others(n) \in Seq(Nat)
         /\ Len(Others(n)) = Len(wakes) - 1
         /\ wakes[n] \in Nat
         /\ Len(wakes) <= 1 => n = 1 /\ Others(n) = << >>
<1>1. /\ n \in 1 .. Len(wakes) /\ Len(wakes) \in Nat
      /\ \A i \in 1 .. Len(wakes) : wakes[i] \in Nat
  BY LenProperties, ElementOfSeq
<1> DEFINE before == SubSeq(wakes, 1, n - 1)
           after  == SubSeq(wakes, n + 1, Len(wakes))
<1>2. before \in Seq(Nat) /\ Len(before) = n - 1
  <2>1. \A i \in 1 .. (n - 1) : wakes[i] \in Nat
    BY <1>1
  <2> QED BY <1>1, <2>1, SubSeqProperties
<1>3. after \in Seq(Nat) /\ Len(after) = Len(wakes) - n
  <2>1. \A i \in (n + 1) .. Len(wakes) : wakes[i] \in Nat
    BY <1>1
  <2>2. after \in Seq(Nat)
        /\ Len(after) = IF n + 1 <= Len(wakes) THEN Len(wakes) - (n + 1) + 1 ELSE 0
    BY <1>1, <2>1, SubSeqProperties
  <2> QED BY <1>1, <2>2
<1>4. Others(n) = before \o after
  BY DEF Others, RemoveAt
<1> HIDE DEF before, after
<1>5. Others(n) \in Seq(Nat) /\ Len(Others(n)) = Len(wakes) - 1
  BY <1>1, <1>2, <1>3, <1>4, ConcatProperties
<1>6. Len(wakes) <= 1 => n = 1 /\ Others(n) = << >>
  BY <1>1, <1>5, EmptySeq
<1> QED BY <1>1, <1>5, <1>6

-----------------------------------------------------------------------------
(* What the invariant says of the constants and the variables, as numbers. *)
LEMMA Facts ==
  ASSUME IInv
  PROVE  /\ Size \in Nat /\ Chunk \in Nat \ {0} /\ MaxWakes \in Nat \ {0}
         /\ offset \in Nat /\ nextSend \in Nat /\ txStart \in Nat
         /\ sent \in Nat /\ refused \in Nat /\ interval \in Nat
         /\ wakes \in Seq(Nat) /\ Len(wakes) \in Nat
BY LoRaWanAssumption, LenProperties DEF LoRaWanAssumption, IInv, TypeOK

LEMMA CutFacts ==
  ASSUME IInv
  PROVE  /\ Cut \in Nat /\ Chunk * Cut \in Nat
         /\ Chunk * (Cut + 1) = Chunk * Cut + Chunk
<1>1. Cut \in Nat
  BY Facts DEF Cut
<1> QED BY <1>1, Facts

(* A payload is cut from where the last one ended.                         *)
LEMMA TakingAChunk ==
  ASSUME IInv, NEW time \in Nat, HasPayload(time), TakePayload(time),
         Cut' = Cut + 1
  PROVE  /\ offset' \in Nat /\ offset' <= Size /\ offset' > 0 /\ offset' # offset
         /\ nextSend' \in Nat /\ nextSend' = time + interval
         /\ ChunksFromStart'
<1>1. offset = Chunk * Cut /\ offset < Size /\ offset \in Nat
  BY Facts DEF IInv, ChunksFromStart, HasPayload, Done
<1>2. offset' = IF offset + Chunk <= Size THEN offset + Chunk ELSE Size
  BY DEF TakePayload
<1>3. Chunk * Cut' = offset + Chunk
  BY <1>1, CutFacts
<1>4. /\ Size \in Nat /\ Chunk \in Nat \ {0} /\ interval \in Nat
      /\ offset' \in Nat /\ nextSend' = time + interval
  <2>1. Size \in Nat /\ Chunk \in Nat \ {0} /\ interval \in Nat
    BY Facts
  <2>2. offset' \in Nat
    BY <1>1, <1>2, <2>1
  <2>3. nextSend' = time + interval
    BY DEF TakePayload
  <2> QED BY <2>1, <2>2, <2>3
<1>5. offset' <= Size /\ offset' > offset
  BY <1>1, <1>2, <1>4
<1>6. /\ offset' <= offset + Chunk
      /\ offset + Chunk < offset' + Chunk
      /\ ~ (offset' >= Size) => offset' = offset + Chunk
  BY <1>1, <1>2, <1>4
<1>7. ChunksFromStart'
  <2> DEFINE end == Chunk * Cut'
  <2>1. end = offset + Chunk /\ end \in Nat
    BY <1>1, <1>3, <1>4
  <2>2. ChunksFromStart' <=>
          /\ offset' <= end /\ end < offset' + Chunk
          /\ ~ (offset' >= Size) => offset' = end
    BY DEF ChunksFromStart, Done
  <2> HIDE DEF end
  <2> QED BY <1>6, <2>1, <2>2
<1>8. offset' > 0 /\ offset' # offset /\ nextSend' \in Nat
  BY <1>1, <1>4, <1>5
<1> QED BY <1>4, <1>5, <1>7, <1>8

(* Asking for a timeout puts one more wake, at its time, in the queue.     *)
LEMMA Asking ==
  ASSUME NEW step \in Steps, NEW start \in Nat, NEW queue \in Seq(Nat),
         AskFor(step, start, queue)
  PROVE  /\ pendingTimeout' = <<TimeoutOf[step]>>
         /\ wakes' \in Seq(Nat) /\ Len(wakes') = Len(queue) + 1 /\ wakes' # << >>
         /\ queue = << >> => wakes' = <<start + TimeoutOf[step] * MicrosPerMilli>>
<1>1. TimeoutOf[step] \in Nat /\ TimeoutOf[step] * MicrosPerMilli \in Nat
  BY WindowsInOrder
<1> DEFINE at == start + TimeoutOf[step] * MicrosPerMilli
<1>2. at \in Nat
  BY <1>1
<1>3. wakes' = Append(queue, at) /\ pendingTimeout' = <<TimeoutOf[step]>>
  BY DEF AskFor, Wake
<1> HIDE DEF at
<1>4. queue = << >> => wakes' = <<at>>
  BY <1>3
<1> QED BY <1>2, <1>3, <1>4, AppendProperties DEF at

-----------------------------------------------------------------------------
(***************************************************************************)
(* The two ways in which update goes on: with a fragment, or with the next *)
(* step of the exchange.                                                   *)
(***************************************************************************)
WindowPassed(time) == ~ reasks /\ offset > 0 => time >= txStart + FirstWindow

(* What UplinksApart says of a step.                                       *)
ApartStep ==
  offset' # offset /\ offset > 0 =>
    /\ txStart' >= txStart + interval
    /\ ~ reasks => txStart' >= txStart + TimeoutOf["close rx1"] * MicrosPerMilli

LEMMA SendingKeepsInvariant ==
  ASSUME IInv, NEW n \in DOMAIN wakes, SendFragment(wakes[n], Others(n)),
         WindowPassed(wakes[n]), listening' \in Bands \cup {NoBand},
         UNCHANGED parameters
  PROVE  IInv' /\ ApartStep
<1> DEFINE time == wakes[n]
<1>1. /\ time \in Nat /\ Others(n) \in Seq(Nat) /\ Len(Others(n)) = Len(wakes) - 1
      /\ Len(wakes) <= 1 => Others(n) = << >>
  BY Facts, OthersOf
<1> HIDE DEF time
<1>2. /\ HasPayload(time) /\ TakePayload(time) /\ txStart' = time
      /\ sent' = sent + 1 /\ pendingTx' = FALSE /\ refused' = refused
      /\ device' = "open rx1" /\ AskFor("open rx1", time, Others(n))
      /\ interval' = interval /\ reasks' = reasks
  BY DEF SendFragment, PollTransmit, parameters, time
<1>3. sent' \in Nat /\ refused' \in Nat /\ Cut' = Cut + 1
  <2>1. sent \in Nat /\ refused \in Nat /\ sent' = sent + 1 /\ refused' = refused
    BY <1>2, Facts
  <2> QED BY <2>1 DEF Cut
<1>4. /\ offset' \in Nat /\ offset' <= Size /\ nextSend' \in Nat
      /\ nextSend' = time + interval /\ ChunksFromStart'
  BY <1>1, <1>2, <1>3, TakingAChunk
<1>5. "open rx1" \in Steps
  BY DEF Steps
<1>6. /\ pendingTimeout' = <<TimeoutOf["open rx1"]>>
      /\ wakes' \in Seq(Nat) /\ Len(wakes') = Len(wakes) /\ wakes' # << >>
      /\ Others(n) = << >> => wakes' = <<time + TimeoutOf["open rx1"] * MicrosPerMilli>>
  <2>1. Len(Others(n)) + 1 = Len(wakes)
    BY <1>1, Facts
  <2> QED BY <1>1, <1>2, <1>5, <2>1, Asking
<1>7. TypeOK'
  <2>1. interval' \in Nat /\ reasks' \in BOOLEAN /\ Len(wakes') <= MaxWakes
    BY <1>2, <1>6 DEF IInv, TypeOK
  <2>2. pendingTimeout' \in {<<TimeoutOf[step]>> : step \in Steps}
    BY <1>5, <1>6
  <2>3. device' \in Steps \cup {"idle"}
    BY <1>2, <1>5
  <2> QED BY <1>1, <1>2, <1>3, <1>4, <1>6, <2>1, <2>2, <2>3 DEF TypeOK
<1>8. interval' \in Intervals /\ ~ pendingTx' /\ NextIsDue' /\ SilentOnlyWhenDone'
  BY <1>2, <1>4, <1>6 DEF IInv, NextIsDue, SilentOnlyWhenDone
<1>9. TimeoutIsOfStep' /\ IdleWakesAreLate'
  BY <1>2, <1>6 DEF TimeoutIsOfStep, IdleWakesAreLate
<1>10. OneWake' /\ TimeoutFiresOnTime'
  <2>1. ~ reasks => Len(wakes) <= 1
    BY DEF IInv, OneWake
  <2>2. ~ reasks => wakes' = <<time + TimeoutOf["open rx1"] * MicrosPerMilli>>
    BY <1>1, <1>6, <2>1
  <2>3. pendingTimeout'[1] = TimeoutOf["open rx1"]
    BY <1>6
  <2>4. OneWake'
    BY <1>2, <1>6, <2>1 DEF OneWake
  <2> QED BY <1>2, <2>2, <2>3, <2>4 DEF TimeoutFiresOnTime
<1>11. ApartStep
  <2>1. offset > 0 => time >= txStart + interval
    BY <1>2 DEF IInv, NextIsDue, HasPayload
  <2>2. ~ reasks /\ offset > 0 => time >= txStart + FirstWindow
    BY DEF WindowPassed, time
  <2> QED BY <1>2, <2>1, <2>2 DEF ApartStep, FirstWindow
<1> QED BY <1>4, <1>7, <1>8, <1>9, <1>10, <1>11 DEF IInv

(* The fragment is lost: the queue is left without the wake.               *)
LEMMA LosingKeepsInvariant ==
  ASSUME IInv, NEW n \in DOMAIN wakes, LoseFragment(wakes[n], Others(n)),
         WindowPassed(wakes[n]), listening' \in Bands \cup {NoBand},
         UNCHANGED parameters
  PROVE  IInv' /\ ApartStep
<1> DEFINE time == wakes[n]
<1>1. /\ time \in Nat /\ Others(n) \in Seq(Nat) /\ Len(Others(n)) = Len(wakes) - 1
      /\ Len(wakes) <= 1 => Others(n) = << >>
  BY Facts, OthersOf
<1> HIDE DEF time
<1>2. /\ HasPayload(time) /\ TakePayload(time) /\ txStart' = time
      /\ pendingTimeout' = << >> /\ device' = "idle" /\ wakes' = Others(n)
      /\ refused' = refused + 1 /\ PollTransmit(pendingTx)
      /\ interval' = interval /\ reasks' = reasks
  BY DEF LoseFragment, parameters, time
<1>3. sent' = sent /\ pendingTx' = FALSE
  BY <1>2 DEF PollTransmit, IInv
<1>4. sent' \in Nat /\ refused' \in Nat /\ refused' > 0 /\ Cut' = Cut + 1
  <2>1. /\ sent \in Nat /\ refused \in Nat /\ sent' = sent /\ refused' = refused + 1
    BY <1>2, <1>3, Facts
  <2> QED BY <2>1 DEF Cut
<1>5. /\ offset' \in Nat /\ offset' <= Size /\ nextSend' \in Nat
      /\ nextSend' = time + interval /\ ChunksFromStart'
  BY <1>1, <1>2, <1>4, TakingAChunk
<1>6. wakes' \in Seq(Nat) /\ Len(wakes') <= MaxWakes
  <2>1. Len(wakes) \in Nat /\ Len(wakes) <= MaxWakes /\ MaxWakes \in Nat
    BY Facts DEF IInv, TypeOK
  <2> QED BY <1>1, <1>2, <2>1
<1>7. TypeOK'
  <2>1. interval' \in Nat /\ reasks' \in BOOLEAN
    BY <1>2 DEF IInv, TypeOK
  <2> QED BY <1>1, <1>2, <1>3, <1>4, <1>5, <1>6, <2>1 DEF TypeOK
<1>8. /\ interval' \in Intervals /\ ~ pendingTx' /\ NextIsDue' /\ SilentOnlyWhenDone'
      /\ TimeoutIsOfStep' /\ TimeoutFiresOnTime'
  BY <1>2, <1>3, <1>4, <1>5
  DEF IInv, NextIsDue, SilentOnlyWhenDone, TimeoutIsOfStep, TimeoutFiresOnTime
<1>9. ~ reasks => wakes' = << >> /\ Len(wakes') = 0
  BY <1>1, <1>2, EmptySeq DEF IInv, OneWake
<1>10. OneWake' /\ IdleWakesAreLate'
  <2>1. ~ reasks => DOMAIN wakes' = {}
    BY <1>6, <1>9, LenProperties
  <2>2. OneWake'
    BY <1>2, <1>9 DEF OneWake
  <2> QED BY <1>2, <2>1, <2>2 DEF IdleWakesAreLate
<1>11. ApartStep
  <2>1. offset > 0 => time >= txStart + interval
    BY <1>2 DEF IInv, NextIsDue, HasPayload
  <2>2. ~ reasks /\ offset > 0 => time >= txStart + FirstWindow
    BY DEF WindowPassed, time
  <2> QED BY <1>2, <2>1, <2>2 DEF ApartStep, FirstWindow
<1> QED BY <1>5, <1>7, <1>8, <1>10, <1>11 DEF IInv

(* A wake asked for is not before the present.                             *)
LEMMA AvailableLater ==
  ASSUME IInv, NEW time \in Nat
  PROVE  /\ NextAvailable(time) \in Seq(Nat) /\ Len(NextAvailable(time)) <= 1
         /\ NextAvailable(time) = << >> => Done
         /\ \A n \in DOMAIN NextAvailable(time) : NextAvailable(time)[n] >= time
<1>1. nextSend \in Nat
  BY Facts
<1>2. CASE Done
  BY <1>2 DEF NextAvailable
<1>3. CASE ~ Done /\ time < nextSend
  BY <1>1, <1>3 DEF NextAvailable
<1>4. CASE ~ Done /\ ~ (time < nextSend)
  BY <1>4 DEF NextAvailable
<1> QED BY <1>2, <1>3, <1>4

(* Nothing is due: the node asks for a later wake, or for none.            *)
LEMMA WaitingKeepsInvariant ==
  ASSUME IInv, NEW n \in DOMAIN wakes, WaitForFile(wakes[n], Others(n)),
         WindowPassed(wakes[n]), listening' \in Bands \cup {NoBand},
         UNCHANGED parameters
  PROVE  IInv' /\ ApartStep
<1> DEFINE time == wakes[n]
           asked == NextAvailable(time)
<1>1. /\ time \in Nat /\ Others(n) \in Seq(Nat) /\ Len(Others(n)) = Len(wakes) - 1
      /\ Len(wakes) <= 1 => Others(n) = << >>
  BY Facts, OthersOf
<1>2. /\ asked \in Seq(Nat) /\ Len(asked) \in Nat /\ Len(asked) <= 1
      /\ asked = << >> => Done
      /\ \A i \in DOMAIN asked : asked[i] \in Nat /\ asked[i] >= time
  BY <1>1, AvailableLater, LenProperties, ElementOfSeq
<1>3. /\ pendingTimeout' = << >> /\ device' = "idle" /\ wakes' = Others(n) \o asked
      /\ PollTransmit(pendingTx) /\ txStart' = txStart /\ refused' = refused
      /\ offset' = offset /\ nextSend' = nextSend
      /\ interval' = interval /\ reasks' = reasks
  BY DEF WaitForFile, parameters, fileVars
<1>4. WindowPassed(time)
  OBVIOUS
<1> HIDE DEF time, asked
<1>5. sent' = sent /\ pendingTx' = FALSE
  BY <1>3 DEF PollTransmit, IInv
<1>6. wakes' \in Seq(Nat) /\ Len(wakes') <= MaxWakes /\ (wakes' = << >> => asked = << >>)
  <2>1. Len(wakes) \in Nat /\ Len(wakes) <= MaxWakes /\ MaxWakes \in Nat
    BY Facts DEF IInv, TypeOK
  <2>2. /\ wakes' \in Seq(Nat) /\ Len(wakes') = Len(Others(n)) + Len(asked)
        /\ wakes' = << >> => asked = << >>
    BY <1>1, <1>2, <1>3, ConcatProperties, ConcatEqualIffEmpty
  <2> QED BY <1>1, <1>2, <2>1, <2>2
<1>7. TypeOK'
  <2>1. /\ offset \in Nat /\ nextSend \in Nat /\ txStart \in Nat /\ sent \in Nat
        /\ refused \in Nat /\ interval \in Nat /\ reasks \in BOOLEAN /\ offset <= Size
    BY Facts DEF IInv, TypeOK
  <2> QED BY <1>3, <1>5, <1>6, <2>1 DEF TypeOK
<1>8. ~ reasks => wakes' = asked
  BY <1>1, <1>2, <1>3, ConcatEmptySeq DEF IInv, OneWake
<1>9. interval' \in Intervals /\ ~ pendingTx' /\ TimeoutIsOfStep' /\ TimeoutFiresOnTime'
  BY <1>3, <1>5 DEF IInv, TimeoutIsOfStep, TimeoutFiresOnTime
<1>10. ChunksFromStart' /\ NextIsDue'
  BY <1>3, <1>5 DEF IInv, ChunksFromStart, Cut, Done, NextIsDue
<1>11. SilentOnlyWhenDone' /\ OneWake'
  BY <1>2, <1>3, <1>6, <1>8 DEF SilentOnlyWhenDone, Done, OneWake
<1>12. IdleWakesAreLate'
  <2>1. SUFFICES ASSUME ~ reasks, offset > 0, NEW i \in DOMAIN asked
                 PROVE  asked[i] >= txStart + FirstWindow
    BY <1>3, <1>8 DEF IdleWakesAreLate
  <2>2. time >= txStart + FirstWindow
    BY <1>4, <2>1 DEF WindowPassed
  <2>3. txStart \in Nat /\ FirstWindow \in Nat
    BY Facts, WindowsInOrder
  <2> QED BY <1>1, <1>2, <2>2, <2>3
<1>13. ApartStep
  BY <1>3 DEF ApartStep
<1> QED BY <1>7, <1>9, <1>10, <1>11, <1>12, <1>13 DEF IInv

(* The device goes on to its next step, and asks for the timeout of it.    *)
LEMMA GoingOnKeepsInvariant ==
  ASSUME IInv, NEW n \in DOMAIN wakes, NEW step \in Steps, GoesOn(n, step),
         listening' \in Bands \cup {NoBand}, UNCHANGED parameters
  PROVE  IInv' /\ ApartStep
<1>1. /\ Others(n) \in Seq(Nat) /\ Len(Others(n)) = Len(wakes) - 1
      /\ Len(wakes) <= 1 => Others(n) = << >>
  BY Facts, OthersOf
<1>2. /\ device' = step /\ AskFor(step, txStart, Others(n)) /\ PollTransmit(pendingTx)
      /\ txStart' = txStart /\ refused' = refused
      /\ offset' = offset /\ nextSend' = nextSend
      /\ interval' = interval /\ reasks' = reasks
  BY DEF GoesOn, parameters, fileVars
<1>3. sent' = sent /\ pendingTx' = FALSE
  BY <1>2 DEF PollTransmit, IInv
<1>4. /\ pendingTimeout' = <<TimeoutOf[step]>>
      /\ wakes' \in Seq(Nat) /\ Len(wakes') = Len(wakes) /\ wakes' # << >>
      /\ Others(n) = << >> => wakes' = <<txStart + TimeoutOf[step] * MicrosPerMilli>>
  <2>1. Len(Others(n)) + 1 = Len(wakes) /\ txStart \in Nat
    BY <1>1, Facts
  <2> QED BY <1>1, <1>2, <2>1, Asking
<1>5. step # "idle"
  BY DEF Steps
<1>6. TypeOK'
  <2>1. /\ offset \in Nat /\ nextSend \in Nat /\ txStart \in Nat /\ sent \in Nat
        /\ refused \in Nat /\ interval \in Nat /\ reasks \in BOOLEAN /\ offset <= Size
        /\ Len(wakes) <= MaxWakes
    BY Facts DEF IInv, TypeOK
  <2>2. pendingTimeout' \in {<<TimeoutOf[s]>> : s \in Steps}
    BY <1>4
  <2>3. device' \in Steps \cup {"idle"}
    BY <1>2
  <2> QED BY <1>2, <1>3, <1>4, <2>1, <2>2, <2>3 DEF TypeOK
<1>7. /\ interval' \in Intervals /\ ~ pendingTx' /\ TimeoutIsOfStep' /\ OneWake'
      /\ IdleWakesAreLate' /\ SilentOnlyWhenDone'
  BY <1>2, <1>3, <1>4, <1>5
  DEF IInv, TimeoutIsOfStep, OneWake, IdleWakesAreLate, SilentOnlyWhenDone
<1>8. ChunksFromStart' /\ NextIsDue'
  BY <1>2, <1>3 DEF IInv, ChunksFromStart, Cut, Done, NextIsDue
<1>9. TimeoutFiresOnTime'
  <2>1. ~ reasks => wakes' = <<txStart + TimeoutOf[step] * MicrosPerMilli>>
    BY <1>1, <1>4 DEF IInv, OneWake
  <2>2. pendingTimeout'[1] = TimeoutOf[step]
    BY <1>4
  <2> QED BY <1>2, <2>1, <2>2 DEF TimeoutFiresOnTime
<1>10. ApartStep
  BY <1>2 DEF ApartStep
<1> QED BY <1>6, <1>7, <1>8, <1>9, <1>10 DEF IInv

(***************************************************************************)
(* update: each of its five arms ends in one of the four ways above.  When *)
(* a fragment is tried, the first window of the last one has ended.        *)
(***************************************************************************)
LEMMA TryingKeepsInvariant ==
  ASSUME IInv, NEW n \in DOMAIN wakes, TrySendFragment(wakes[n], Others(n)),
         WindowPassed(wakes[n]), listening' \in Bands \cup {NoBand},
         UNCHANGED parameters
  PROVE  IInv' /\ ApartStep
<1>1. CASE SendFragment(wakes[n], Others(n))
  BY <1>1, SendingKeepsInvariant
<1>2. CASE LoseFragment(wakes[n], Others(n))
  BY <1>2, LosingKeepsInvariant
<1>3. CASE WaitForFile(wakes[n], Others(n))
  BY <1>3, WaitingKeepsInvariant
<1> QED BY <1>1, <1>2, <1>3 DEF TrySendFragment

LEMMA UpdateKeepsInvariant ==
  ASSUME IInv, NEW n \in DOMAIN wakes, Update(n), UNCHANGED parameters
  PROVE  IInv' /\ ApartStep
<1>1. listening \in Bands \cup {NoBand}
  BY DEF IInv, TypeOK
<1>2. CASE UpdateIdle(n)
  <2>1. device = "idle" /\ TrySendFragment(wakes[n], Others(n)) /\ listening' = listening
    BY <1>2 DEF UpdateIdle
  <2>2. WindowPassed(wakes[n])
    BY <2>1 DEF IInv, IdleWakesAreLate, WindowPassed
  <2> QED BY <1>1, <2>1, <2>2, TryingKeepsInvariant
<1>3. CASE OpenRx1(n)
  <2>1. GoesOn(n, "close rx1") /\ "close rx1" \in Steps /\ listening' \in Bands
    BY <1>3 DEF OpenRx1, Steps
  <2> QED BY <2>1, GoingOnKeepsInvariant
<1>4. CASE CloseRx1(n)
  <2>1. GoesOn(n, "open rx2") /\ "open rx2" \in Steps /\ listening' = NoBand
    BY <1>4 DEF CloseRx1, Steps
  <2> QED BY <2>1, GoingOnKeepsInvariant
<1>5. CASE OpenRx2(n)
  <2>1. GoesOn(n, "close rx2") /\ "close rx2" \in Steps /\ listening' \in Bands
    BY <1>5 DEF OpenRx2, Steps
  <2> QED BY <2>1, GoingOnKeepsInvariant
<1>6. CASE CloseRx2(n)
  <2>1. /\ device = "close rx2" /\ pendingTimeout # << >> /\ listening' = NoBand
        /\ TrySendFragment(wakes[n], Others(n))
    BY <1>6 DEF CloseRx2, TimeoutFired
  <2>2. WindowPassed(wakes[n])
    <3>1. SUFFICES ASSUME ~ reasks
                   PROVE  wakes[n] >= txStart + FirstWindow
      BY DEF WindowPassed
    <3>2. pendingTimeout = <<TimeoutOf["close rx2"]>>
      BY <2>1 DEF IInv, TimeoutIsOfStep
    <3>3. wakes = <<txStart + TimeoutOf["close rx2"] * MicrosPerMilli>>
      BY <2>1, <3>1, <3>2 DEF IInv, TimeoutFiresOnTime
    <3>4. n = 1
      BY <3>1, Facts, OthersOf DEF IInv, OneWake
    <3> DEFINE window == TimeoutOf["close rx2"] * MicrosPerMilli
    <3>5. wakes[n] = txStart + window
      BY <3>3, <3>4
    <3>6. FirstWindow <= window /\ FirstWindow \in Nat /\ window \in Nat
      BY WindowsInOrder DEF Steps
    <3>7. txStart \in Nat
      BY Facts
    <3> HIDE DEF window
    <3> QED BY <3>5, <3>6, <3>7
  <2> QED BY <2>1, <2>2, TryingKeepsInvariant
<1> QED BY <1>2, <1>3, <1>4, <1>5, <1>6 DEF Update

-----------------------------------------------------------------------------
(***************************************************************************)
(* on_receive leaves the file and the uplink alone.                        *)
(***************************************************************************)
LEMMA HearingKeepsFile ==
  ASSUME IInv, Hears, UNCHANGED parameters
  PROVE  /\ sent' = sent /\ pendingTx' = FALSE /\ txStart' = txStart
         /\ refused' = refused /\ offset' = offset /\ nextSend' = nextSend
         /\ interval' = interval /\ reasks' = reasks
         /\ interval' \in Intervals /\ ~ pendingTx'
         /\ ChunksFromStart' /\ NextIsDue' /\ ApartStep
<1>1. /\ sent' = sent /\ pendingTx' = FALSE /\ txStart' = txStart
      /\ refused' = refused /\ offset' = offset /\ nextSend' = nextSend
      /\ interval' = interval /\ reasks' = reasks
  BY DEF Hears, PollTransmit, IInv, parameters, fileVars
<1> QED
  BY <1>1 DEF IInv, ChunksFromStart, Cut, Done, NextIsDue, ApartStep

LEMMA NothingHeardKeepsInvariant ==
  ASSUME IInv, Hears, UNCHANGED parameters, UNCHANGED exchange
  PROVE  IInv' /\ ApartStep
<1>1. /\ wakes' = wakes /\ device' = device /\ listening' = listening
      /\ pendingTimeout' = pendingTimeout
  BY DEF exchange
<1>2. /\ sent' = sent /\ pendingTx' = FALSE /\ txStart' = txStart
      /\ refused' = refused /\ offset' = offset /\ nextSend' = nextSend
      /\ interval' = interval /\ reasks' = reasks
      /\ interval' \in Intervals /\ ~ pendingTx'
      /\ ChunksFromStart' /\ NextIsDue' /\ ApartStep
  BY HearingKeepsFile
<1>3. TypeOK'
  BY <1>1, <1>2 DEF IInv, TypeOK
<1> QED
  BY <1>1, <1>2, <1>3
  DEF IInv, TimeoutIsOfStep, OneWake, TimeoutFiresOnTime, IdleWakesAreLate,
      SilentOnlyWhenDone, Done

(* A device that reasks gets a second wake for the end of its window.      *)
LEMMA ReaskingKeepsInvariant ==
  ASSUME IInv, NEW band \in Bands, StrayFrameReask(band), UNCHANGED parameters
  PROVE  IInv' /\ ApartStep
<1>1. /\ reasks /\ Len(wakes) < MaxWakes /\ Hears
      /\ device \in {"close rx1", "close rx2"} /\ AskFor(device, txStart, wakes)
      /\ device' = device /\ listening' = listening
  BY DEF StrayFrameReask, InWindow
<1>2. /\ sent' = sent /\ pendingTx' = FALSE /\ txStart' = txStart
      /\ refused' = refused /\ offset' = offset /\ nextSend' = nextSend
      /\ interval' = interval /\ reasks' = reasks
      /\ interval' \in Intervals /\ ~ pendingTx'
      /\ ChunksFromStart' /\ NextIsDue' /\ ApartStep
  BY <1>1, HearingKeepsFile
<1>3. device \in Steps /\ device # "idle"
  BY <1>1 DEF Steps
<1>4. /\ pendingTimeout' = <<TimeoutOf[device]>>
      /\ wakes' \in Seq(Nat) /\ Len(wakes') = Len(wakes) + 1 /\ wakes' # << >>
  BY <1>1, <1>3, Facts, Asking
<1>5. TypeOK'
  <2>1. /\ offset \in Nat /\ nextSend \in Nat /\ txStart \in Nat /\ sent \in Nat
        /\ refused \in Nat /\ interval \in Nat /\ reasks \in BOOLEAN /\ offset <= Size
        /\ listening \in Bands \cup {NoBand}
    BY Facts DEF IInv, TypeOK
  <2>2. Len(wakes') <= MaxWakes
    <3>1. Len(wakes) \in Nat /\ MaxWakes \in Nat
      BY Facts
    <3>2. Len(wakes) < MaxWakes /\ Len(wakes') = Len(wakes) + 1
      BY <1>1, <1>4
    <3> QED BY <3>1, <3>2
  <2>3. pendingTimeout' \in {<<TimeoutOf[step]>> : step \in Steps}
    BY <1>3, <1>4
  <2>4. device' \in Steps \cup {"idle"}
    BY <1>1, <1>3
  <2> QED BY <1>1, <1>2, <1>4, <2>1, <2>2, <2>3, <2>4 DEF TypeOK
<1>6. TimeoutIsOfStep' /\ SilentOnlyWhenDone'
  BY <1>1, <1>3, <1>4 DEF TimeoutIsOfStep, SilentOnlyWhenDone
<1>7. OneWake' /\ TimeoutFiresOnTime' /\ IdleWakesAreLate'
  BY <1>1, <1>2 DEF OneWake, TimeoutFiresOnTime, IdleWakesAreLate
<1> QED BY <1>2, <1>5, <1>6, <1>7 DEF IInv

(* The wake left over comes at the end of the window that it was for.      *)
LEMMA DownlinkKeepsInvariant ==
  ASSUME IInv, NEW band \in Bands, Downlink(band), UNCHANGED parameters
  PROVE  IInv' /\ ApartStep
<1>1. /\ Hears /\ device \in {"close rx1", "close rx2"} /\ device' = "idle"
      /\ pendingTimeout' = << >> /\ listening' \in {listening, NoBand}
      /\ wakes' = wakes
  BY DEF Downlink, InWindow
<1>2. /\ sent' = sent /\ pendingTx' = FALSE /\ txStart' = txStart
      /\ refused' = refused /\ offset' = offset /\ nextSend' = nextSend
      /\ interval' = interval /\ reasks' = reasks
      /\ interval' \in Intervals /\ ~ pendingTx'
      /\ ChunksFromStart' /\ NextIsDue' /\ ApartStep
  BY <1>1, HearingKeepsFile
<1>3. TypeOK'
  BY <1>1, <1>2 DEF IInv, TypeOK
<1>4. TimeoutIsOfStep' /\ SilentOnlyWhenDone' /\ OneWake' /\ TimeoutFiresOnTime'
  BY <1>1, <1>2
  DEF IInv, TimeoutIsOfStep, SilentOnlyWhenDone, Done, OneWake, TimeoutFiresOnTime
<1>5. IdleWakesAreLate'
  <2>1. SUFFICES ASSUME ~ reasks, NEW n \in DOMAIN wakes
                 PROVE  wakes[n] >= txStart + FirstWindow
    BY <1>1, <1>2 DEF IdleWakesAreLate
  <2> DEFINE window == TimeoutOf[device] * MicrosPerMilli
  <2>2. device \in Steps /\ device # "idle"
    BY <1>1 DEF Steps
  <2>3. pendingTimeout = <<TimeoutOf[device]>>
    BY <2>2 DEF IInv, TimeoutIsOfStep
  <2>4. wakes = <<txStart + window>>
    BY <2>1, <2>3 DEF IInv, TimeoutFiresOnTime
  <2>5. n = 1
    BY <2>1, Facts, OthersOf DEF IInv, OneWake
  <2>6. wakes[n] = txStart + window
    BY <2>4, <2>5
  <2>7. FirstWindow <= window /\ FirstWindow \in Nat /\ window \in Nat
    BY <1>1, <2>2, WindowsInOrder
  <2>8. txStart \in Nat
    BY Facts
  <2> HIDE DEF window
  <2> QED BY <2>6, <2>7, <2>8
<1> QED BY <1>2, <1>3, <1>4, <1>5 DEF IInv

-----------------------------------------------------------------------------
(***************************************************************************)
(* What a callback hands over: update a fragment at most, on_receive none. *)
(***************************************************************************)
KeepsQuiet == UNCHANGED <<sent, refused, offset, txStart>>

LEMMA UpdateSends ==
  ASSUME IInv, NEW n \in DOMAIN wakes, Update(n)
  PROVE  \/ /\ sent' = sent + 1
            /\ txStart' = wakes[n] /\ offset' # offset /\ offset' > 0
         \/ MayRefuse /\ refused' = refused + 1
         \/ KeepsQuiet
<1>1. /\ ~ pendingTx /\ Size \in Nat /\ Chunk \in Nat \ {0} /\ offset \in Nat
  BY Facts DEF IInv
<1>2. CASE \E step \in Steps : GoesOn(n, step)
  BY <1>1, <1>2 DEF GoesOn, PollTransmit, KeepsQuiet, fileVars
<1>3. CASE TrySendFragment(wakes[n], Others(n))
  <2>1. CASE SendFragment(wakes[n], Others(n))
    <3>1. sent' = sent + 1 /\ txStart' = wakes[n]
      BY <2>1 DEF SendFragment, PollTransmit
    <3>2. offset' = IF offset + Chunk <= Size THEN offset + Chunk ELSE Size
      BY <2>1 DEF SendFragment, TakePayload
    <3>3. ~ (offset >= Size)
      BY <2>1 DEF SendFragment, HasPayload, Done
    <3>4. offset' # offset /\ offset' > 0
      BY <1>1, <3>2, <3>3
    <3> QED BY <3>1, <3>4
  <2>2. CASE LoseFragment(wakes[n], Others(n))
    BY <2>2 DEF LoseFragment
  <2>3. CASE WaitForFile(wakes[n], Others(n))
    BY <1>1, <2>3 DEF WaitForFile, PollTransmit, KeepsQuiet, fileVars
  <2> QED BY <1>3, <2>1, <2>2, <2>3 DEF TrySendFragment
<1> QED
  BY <1>2, <1>3
  DEF Update, UpdateIdle, OpenRx1, CloseRx1, OpenRx2, CloseRx2, Steps

LEMMA HearingSendsNothing ==
  ASSUME IInv, Hears
  PROVE  KeepsQuiet
BY DEF IInv, Hears, PollTransmit, KeepsQuiet, fileVars

LEMMA InitSatisfiesInvariant == Init => IInv
<1> SUFFICES ASSUME Init PROVE IInv
  OBVIOUS
<1>1. Size \in Nat /\ Chunk \in Nat \ {0} /\ MaxWakes \in Nat \ {0}
      /\ Intervals \subseteq Nat /\ MayReask \in BOOLEAN
  BY LoRaWanAssumption DEF LoRaWanAssumption
<1>2. /\ wakes = <<0>> /\ wakes \in Seq(Nat) /\ Len(wakes) = 1
  BY DEF Init
<1>3. /\ offset = 0 /\ sent = 0 /\ refused = 0 /\ Cut = 0
  BY DEF Init, Cut
<1>4. Chunk * Cut = 0
  BY <1>1, <1>3
<1>5. TypeOK
  <2>1. interval \in Nat /\ reasks \in BOOLEAN
    BY <1>1 DEF Init
  <2>2. offset <= Size /\ Len(wakes) <= MaxWakes
    BY <1>1, <1>2, <1>3
  <2>3. device = "idle" /\ listening = NoBand /\ pendingTimeout = << >> /\ ~ pendingTx
        /\ pendingTx \in BOOLEAN
    BY DEF Init
  <2>4. {offset, nextSend, txStart, sent, refused} \subseteq Nat
    BY DEF Init
  <2> QED BY <1>2, <2>1, <2>2, <2>3, <2>4 DEF TypeOK
<1>6. ChunksFromStart
  BY <1>1, <1>3, <1>4 DEF ChunksFromStart, Done
<1>7. TimeoutIsOfStep /\ TimeoutFiresOnTime /\ SilentOnlyWhenDone
  BY <1>2 DEF Init, TimeoutIsOfStep, TimeoutFiresOnTime, SilentOnlyWhenDone
<1>8. OneWake /\ IdleWakesAreLate /\ NextIsDue
  BY <1>2, <1>3 DEF OneWake, IdleWakesAreLate, NextIsDue
<1> QED BY <1>5, <1>6, <1>7, <1>8 DEF IInv, Init

LEMMA NextKeepsInvariant == IInv /\ [Next]_vars => IInv' /\ [ApartStep]_vars
<1> SUFFICES ASSUME IInv, [Next]_vars
             PROVE  IInv' /\ [ApartStep]_vars
  OBVIOUS
<1>1. CASE \E n \in DOMAIN wakes : Update(n) /\ UNCHANGED parameters
  BY <1>1, UpdateKeepsInvariant
<1>2. CASE \E band \in Bands : OnReceive(band) /\ UNCHANGED parameters
  <2>1. PICK band \in Bands : OnReceive(band)
    BY <1>2
  <2>2. UNCHANGED parameters
    BY <1>2
  <2>3. CASE NotListening(band)
    BY <2>2, <2>3, NothingHeardKeepsInvariant DEF NotListening
  <2>4. CASE NotExpected(band)
    BY <2>2, <2>4, NothingHeardKeepsInvariant DEF NotExpected, OutOfWindow
  <2>5. CASE StrayFrame(band)
    BY <2>2, <2>5, NothingHeardKeepsInvariant DEF StrayFrame, InWindow
  <2>6. CASE StrayFrameReask(band)
    BY <2>2, <2>6, ReaskingKeepsInvariant
  <2>7. CASE Downlink(band)
    BY <2>2, <2>7, DownlinkKeepsInvariant
  <2> QED BY <2>1, <2>3, <2>4, <2>5, <2>6, <2>7 DEF OnReceive
<1>3. CASE UNCHANGED vars
  BY <1>3
  DEF vars, parameters, fileVars, IInv, TypeOK, TimeoutIsOfStep, ChunksFromStart, Cut,
      Done, OneWake, TimeoutFiresOnTime, IdleWakesAreLate, NextIsDue,
      SilentOnlyWhenDone
<1> QED BY <1>1, <1>2, <1>3 DEF Next

(* The invariant holds throughout.                                         *)
LEMMA InvariantHolds == Spec => []IInv
<1>1. Init => IInv
  BY InitSatisfiesInvariant
<1>2. IInv /\ [Next]_vars => IInv'
  BY NextKeepsInvariant
<1> QED BY <1>1, <1>2, PTL DEF Spec

(***************************************************************************)
(* Type correctness: the variables of the sender keep their types, and the *)
(* position in the file never leaves it.                                   *)
(***************************************************************************)
THEOREM LoRaWanTypeCorrect == Spec => []TypeOK
<1>1. IInv => TypeOK
  BY DEF IInv
<1> QED BY <1>1, InvariantHolds, PTL

(***************************************************************************)
(* Every wake that update takes for a timeout comes when the device asked  *)
(* for it, if the device asks on an uplink or a timeout only.              *)
(***************************************************************************)
THEOREM TimeoutsFireOnTime == Spec => []TimeoutFiresOnTime
<1>1. IInv => TimeoutFiresOnTime
  BY DEF IInv
<1> QED BY <1>1, InvariantHolds, PTL

(***************************************************************************)
(* pending_timeout_ms of the adapter and the device's own state agree, and *)
(* update never polls a device that is busy.                               *)
(***************************************************************************)
THEOREM AdapterAgreesWithDevice == Spec => []AgreesWithDevice
<1>1. IInv => AgreesWithDevice
  <2> SUFFICES ASSUME IInv PROVE AgreesWithDevice
    OBVIOUS
  <2>1. device = "idle" => pendingTimeout = << >>
    BY DEF IInv, TimeoutIsOfStep
  <2>2. device # "idle" => pendingTimeout # << >>
    BY DEF IInv, TimeoutIsOfStep
  <2> QED BY <2>1, <2>2 DEF AgreesWithDevice, PollsBusyDevice
<1> QED BY <1>1, InvariantHolds, PTL

(***************************************************************************)
(* Every chunk that FileFragmenter cuts off is transmitted or refused,     *)
(* once.                                                                   *)
(***************************************************************************)
THEOREM FragmentsAreAccountedFor == Spec => []FragmentsAccounted
<1>1. IInv => FragmentsAccounted
  <2> SUFFICES ASSUME IInv PROVE FragmentsAccounted
    OBVIOUS
  <2> DEFINE end == Chunk * Cut
             a == offset + Chunk - 1
  <2>1. end \in Nat /\ offset <= end /\ end < offset + Chunk
    BY CutFacts DEF IInv, ChunksFromStart
  <2>2. offset \in Nat /\ Chunk \in Nat \ {0} /\ Cut \in Nat
    BY Facts, CutFacts
  <2> HIDE DEF end
  <2>3. a \in Nat /\ end <= a /\ a < end + Chunk
    BY <2>1, <2>2
  <2> HIDE DEF a
  <2>4. a \div Chunk = Cut
    BY <2>2, <2>3, QuotientBetween DEF end
  <2>5. sent + refused + (IF pendingTx THEN 1 ELSE 0) = Cut
    <3>1. ~ pendingTx /\ sent \in Nat /\ refused \in Nat
      BY Facts DEF IInv
    <3> QED BY <3>1 DEF Cut
  <2> QED BY <2>4, <2>5 DEF FragmentsAccounted, a
<1> QED BY <1>1, InvariantHolds, PTL

(***************************************************************************)
(* The sender is left without a wake only when the file is done, or after  *)
(* the device refused a fragment.                                          *)
(***************************************************************************)
THEOREM SenderIsSilentOnlyWhenDone == Spec => []SilentOnlyWhenDone
<1>1. IInv => SilentOnlyWhenDone
  BY DEF IInv
<1> QED BY <1>1, InvariantHolds, PTL

(***************************************************************************)
(* Two uplinks begin at least interval_us apart and, if timeouts fire on   *)
(* time, not before the end of the first receive window in between.        *)
(***************************************************************************)
THEOREM UplinksStayApart == Spec => UplinksApart
<1>1. [ApartStep]_vars
      => [offset' # offset /\ offset > 0 =>
            /\ txStart' >= txStart + interval
            /\ ~ reasks => txStart' >= txStart + TimeoutOf["close rx1"] * MicrosPerMilli]_vars
  BY DEF ApartStep
<1>2. IInv /\ [Next]_vars => [ApartStep]_vars
  BY NextKeepsInvariant
<1> QED BY <1>1, <1>2, InvariantHolds, PTL DEF Spec, UplinksApart
=============================================================================
