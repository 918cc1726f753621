----------------------------- MODULE WebProofs -----------------------------
(****************************************************************************)
(* Proofs about the web console (MCWeb), for any queues, browsers, options, *)
(* threads and sizes of files: a gap in a log is told, a dialog is true,    *)
(* rotations keep what is newest, and the printed address lets people in.   *)
(* The parts share no state, so that each is proved about on its own.       *)
(****************************************************************************)
EXTENDS MCWeb, SequenceTheorems, TLAPS

-----------------------------------------------------------------------------
(* The log of a workspace.                                                 *)

Reading == {"waiting", "got", "notice", "sending"}
LogShape ==
  /\ child \in {"running", "exited"} /\ printed \in Nat /\ offered \in Nat /\ over \in BOOLEAN
  /\ queue \in Seq(Nat) /\ Len(queue) <= QueueMax /\ dropped \in Nat /\ owed \in Nat
  /\ pc \in Reading \cup {"leaving", "done"} /\ hand \in Nat
  /\ page \in [lines : Nat, last : Nat, skipped : Nat]
  /\ client \in {"there", "gone"} /\ watched \in BOOLEAN /\ (watched => client = "gone")
  /\ over => child = "exited" /\ offered = printed

\* The lines in the queue are the last that were offered, and the end of the
\* output is behind them; whoever has taken the end finds it empty.
InQueue == Len(queue) - (IF over /\ queue # << >> THEN 1 ELSE 0)
AtEnd == over /\ queue = << >>
QueueIsTheTail ==
  \A i \in 1..Len(queue) :
    queue[i] = IF over /\ i = Len(queue) THEN Log!End ELSE offered - InQueue + i

\* Every line that was offered is on the page or in the queue, in the handler's
\* hand, told of, or counted as dropped.
Shown == page.lines + page.skipped
Accounted ==
  /\ pc = "waiting" => Shown + dropped + InQueue = offered /\ ~AtEnd
  /\ pc = "got" /\ hand # Log!End =>
       /\ Shown + 1 + dropped + InQueue = offered /\ ~AtEnd
       /\ hand <= Shown + dropped + 1
  /\ pc = "notice" =>
       /\ Shown + owed + 1 + dropped + InQueue = offered /\ ~AtEnd
       /\ hand <= Shown + owed + 1 /\ hand # Log!End
  /\ pc = "sending" =>
       /\ Shown + 1 + dropped + InQueue = offered /\ ~AtEnd
       /\ hand <= Shown + 1 /\ hand # Log!End
  /\ (pc = "got" /\ hand = Log!End) \/ (pc \in {"leaving", "done"} /\ client = "there") =>
       over /\ Shown = printed

\* What was dropped for the end of the output is still to be told: there is a line
\* before the end.
MoreToCome ==
  dropped > 0 /\ pc \in {"waiting", "notice", "sending"} => Len(queue) > 1

LogInv ==
  /\ LogShape /\ Accounted /\ MoreToCome
  /\ pc \in Reading => QueueIsTheTail
  /\ Shown >= page.last

LEMMA LogStarts == Log!Init => LogInv
<1> SUFFICES ASSUME Log!Init PROVE LogInv
  OBVIOUS
<1>1. QueueMax \in Nat
  BY WebConstants DEF QueueHoldsTwo
<1>2. queue = << >> /\ queue \in Seq(Nat) /\ Len(queue) = 0
  BY DEF Log!Init
<1>3. LogShape
  <2>1. page \in [lines : Nat, last : Nat, skipped : Nat]
    BY DEF Log!Init
  <2>2. /\ over \in BOOLEAN /\ ~over /\ watched \in BOOLEAN /\ ~watched
        /\ (watched => client = "gone") /\ (over => child = "exited" /\ offered = printed)
    BY DEF Log!Init
  <2>3. pc = "waiting" /\ child = "running" /\ printed = 0 /\ offered = 0 /\ dropped = 0
        /\ hand = 0 /\ owed = 0 /\ client = "there"
    BY DEF Log!Init, Log!End
  <2> QED
    BY <1>1, <1>2, <2>1, <2>2, <2>3 DEF LogShape, Reading
<1>4. InQueue = 0 /\ ~AtEnd /\ Shown = 0
  BY <1>2 DEF Log!Init, InQueue, AtEnd, Shown
<1>5. Accounted /\ MoreToCome /\ Shown >= page.last
  BY <1>4 DEF Log!Init, Accounted, MoreToCome
<1>6. QueueIsTheTail
  BY <1>2 DEF QueueIsTheTail
<1> QED
  BY <1>3, <1>5, <1>6 DEF LogInv

\* The queue loses one line from the front or none.
LEMMA PutAdds ==
  ASSUME queue \in Seq(Nat), Len(queue) <= QueueMax, dropped \in Nat, NEW x \in Nat, Log!Put(x)
  PROVE  \E cut \in {0, 1} :
           /\ queue' \in Seq(Nat) /\ Len(queue') <= QueueMax /\ dropped' = dropped + cut
           /\ Len(queue') = Len(queue) + 1 - cut /\ queue'[Len(queue')] = x
           /\ \A i \in 1..(Len(queue') - 1) : queue'[i] = queue[i + cut]
           /\ cut = 1 => Len(queue') = QueueMax
<1>0. QueueMax \in Nat /\ QueueMax > 1
  BY WebConstants DEF QueueHoldsTwo
<1>1. CASE Len(queue) < QueueMax
  <2>1. queue' = Append(queue, x) /\ dropped' = dropped
    BY <1>1 DEF Log!Put
  <2>2. /\ queue' \in Seq(Nat) /\ Len(queue') = Len(queue) + 1 - 0 /\ queue'[Len(queue')] = x
        /\ \A i \in 1..(Len(queue') - 1) : queue'[i] = queue[i + 0]
    BY <2>1
  <2> QED
    BY <1>0, <1>1, <2>1, <2>2
<1>2. CASE ~(Len(queue) < QueueMax)
  <2>1. queue' = Append(Tail(queue), x) /\ dropped' = dropped + 1
    BY <1>2 DEF Log!Put
  <2>2. Len(queue) = QueueMax /\ queue # << >>
    BY <1>0, <1>2
  <2>3. /\ Tail(queue) \in Seq(Nat) /\ Len(Tail(queue)) = Len(queue) - 1
        /\ \A i \in 1..(Len(queue) - 1) : Tail(queue)[i] = queue[i + 1]
    BY <2>2
  <2>4. /\ queue' \in Seq(Nat) /\ Len(queue') = Len(queue) + 1 - 1 /\ queue'[Len(queue')] = x
        /\ \A i \in 1..(Len(queue') - 1) : queue'[i] = queue[i + 1]
    BY <2>1, <2>3
  <2> QED
    BY <1>0, <2>1, <2>2, <2>4
<1> QED
  BY <1>1, <1>2

LEMMA LogTold == LogInv => GapsAreTold
BY DEF LogInv, LogShape, Accounted, Shown, GapsAreTold, Log!GapsAreTold

LEMMA LogSteps == LogInv /\ [Log!Next]_log => LogInv'
<1> SUFFICES ASSUME LogInv, [Log!Next]_log PROVE LogInv'
  OBVIOUS
<1>0. QueueMax \in Nat /\ QueueMax > 1
  BY WebConstants DEF QueueHoldsTwo
<1> USE <1>0 DEF Log!feed, Log!handler, Log!browser
<1>1. CASE Log!PrintLine
  BY <1>1 DEF Log!PrintLine, LogInv, LogShape, Accounted, MoreToCome, QueueIsTheTail, InQueue, AtEnd, Shown, Reading
<1>2. CASE Log!ContainerStops
  BY <1>2 DEF Log!ContainerStops, LogInv, LogShape, Accounted, MoreToCome, QueueIsTheTail, InQueue, AtEnd, Shown, Reading
<1>3. CASE Log!Go
  BY <1>3 DEF Log!Go, LogInv, LogShape, Accounted, MoreToCome, QueueIsTheTail, InQueue, AtEnd, Shown, Reading
<1>4. CASE Log!WatchClient
  BY <1>4 DEF Log!WatchClient, LogInv, LogShape, Accounted, MoreToCome, QueueIsTheTail, InQueue, AtEnd, Shown, Reading
<1>5. CASE Log!Abandon
  BY <1>5 DEF Log!Abandon, LogInv, LogShape, Accounted, MoreToCome, QueueIsTheTail, InQueue, AtEnd, Shown, Reading
<1>6. CASE Log!Leave
  BY <1>6 DEF Log!Leave, LogInv, LogShape, Accounted, MoreToCome, QueueIsTheTail, InQueue, AtEnd, Shown, Reading
<1>7. CASE Log!Resume
  <2>1. UNCHANGED <<child, printed, offered, over, queue, hand, client, watched, page>> /\ pc = "got"
    BY <1>7 DEF Log!Resume
  <2>2. InQueue' = InQueue /\ AtEnd' = AtEnd /\ Shown' = Shown /\ (QueueIsTheTail => QueueIsTheTail')
    BY <2>1 DEF InQueue, AtEnd, Shown, QueueIsTheTail
  <2>3. LogShape /\ Accounted /\ QueueIsTheTail /\ Shown >= page.last
    BY <2>1 DEF LogInv, Reading
  <2>4. CASE pc' = "leaving" /\ UNCHANGED <<dropped, owed>> /\ (watched \/ hand = Log!End)
    <3>1. LogShape'
      BY <2>1, <2>3, <2>4 DEF LogShape
    <3>2. Accounted' /\ MoreToCome'
      BY <2>1, <2>2, <2>3, <2>4 DEF LogShape, Accounted, MoreToCome
    <3> QED
      BY <2>1, <2>2, <2>3, <3>1, <3>2 DEF LogInv
  <2>5. CASE /\ pc' = IF dropped > 0 THEN "notice" ELSE "sending"
             /\ owed' = dropped /\ dropped' = 0 /\ hand # Log!End
    <3>1. LogShape'
      BY <2>1, <2>3, <2>5 DEF LogShape, Reading
    <3>2. Accounted'
      BY <2>1, <2>2, <2>3, <2>5 DEF LogShape, Accounted, InQueue, Shown
    <3>3. MoreToCome'
      BY <2>5 DEF MoreToCome
    <3> QED
      BY <2>1, <2>2, <2>3, <3>1, <3>2, <3>3 DEF LogInv
  <2> QED
    BY <1>7, <2>4, <2>5 DEF Log!Resume
<1>8. CASE Log!SendNotice
  <2>1. /\ UNCHANGED <<child, printed, offered, over, queue, dropped, hand, owed, client, watched>>
        /\ pc = "notice" /\ pc' = "sending" /\ page' = [page EXCEPT !.skipped = @ + owed]
    BY <1>8 DEF Log!SendNotice
  <2>2. LogShape /\ Accounted /\ QueueIsTheTail /\ MoreToCome /\ Shown >= page.last
    BY <2>1 DEF LogInv, Reading
  <2>3. /\ page' \in [lines : Nat, last : Nat, skipped : Nat]
        /\ page'.lines = page.lines /\ page'.last = page.last /\ page'.skipped = page.skipped + owed
    BY <2>1, <2>2 DEF LogShape
  <2>4. /\ InQueue' = InQueue /\ AtEnd' = AtEnd /\ QueueIsTheTail' /\ Shown' = Shown + owed
        /\ Shown \in Nat /\ owed \in Nat /\ page.last \in Nat
    BY <2>1, <2>2, <2>3 DEF LogShape, InQueue, AtEnd, Shown, QueueIsTheTail
  <2>5. LogShape' /\ MoreToCome'
    BY <2>1, <2>2, <2>3 DEF LogShape, Reading, MoreToCome
  <2>6. Accounted'
    BY <2>1, <2>2, <2>4 DEF Accounted
  <2> QED
    BY <2>2, <2>3, <2>4, <2>5, <2>6 DEF LogInv
<1>9. CASE Log!Send
  <2>1. /\ UNCHANGED <<child, printed, offered, over, queue, dropped, hand, owed, client, watched>>
        /\ pc = "sending" /\ pc' = "waiting" /\ page' = [page EXCEPT !.lines = @ + 1, !.last = hand]
    BY <1>9 DEF Log!Send
  <2>2. LogShape /\ Accounted /\ QueueIsTheTail /\ MoreToCome /\ Shown >= page.last
    BY <2>1 DEF LogInv, Reading
  <2>3. /\ page' \in [lines : Nat, last : Nat, skipped : Nat]
        /\ page'.lines = page.lines + 1 /\ page'.last = hand /\ page'.skipped = page.skipped
    <3>1. page \in [lines : Nat, last : Nat, skipped : Nat] /\ hand \in Nat
      BY <2>2 DEF LogShape
    <3>2. page' = [lines |-> page.lines + 1, last |-> hand, skipped |-> page.skipped]
      BY <2>1, <3>1
    <3> QED
      BY <3>1, <3>2
  <2>4. /\ InQueue' = InQueue /\ AtEnd' = AtEnd /\ QueueIsTheTail' /\ Shown' = Shown + 1
        /\ Shown \in Nat /\ hand \in Nat
    BY <2>1, <2>2, <2>3 DEF LogShape, InQueue, AtEnd, Shown, QueueIsTheTail
  <2>5. LogShape' /\ MoreToCome'
    BY <2>1, <2>2, <2>3 DEF LogShape, Reading, MoreToCome
  <2>6. Accounted' /\ Shown' >= page'.last
    BY <2>1, <2>2, <2>3, <2>4 DEF Accounted
  <2> QED
    BY <2>4, <2>5, <2>6 DEF LogInv
<1>10. CASE Log!Get
  <2>1. /\ UNCHANGED <<child, printed, offered, over, dropped, owed, client, watched, page>>
        /\ pc = "waiting" /\ pc' = "got" /\ queue # << >>
        /\ hand' = Head(queue) /\ queue' = Tail(queue)
    BY <1>10 DEF Log!Get
  <2>2. LogShape /\ Accounted /\ QueueIsTheTail /\ MoreToCome /\ Shown >= page.last
    BY <2>1 DEF LogInv, Reading
  <2>3. /\ Len(queue) \in Nat /\ Len(queue) > 0 /\ queue[1] = Head(queue) /\ Head(queue) \in Nat
        /\ queue' \in Seq(Nat) /\ Len(queue') = Len(queue) - 1
        /\ \A i \in 1..Len(queue') : queue'[i] = queue[i + 1]
    BY <2>1, <2>2 DEF LogShape
  <2>4. queue' = << >> <=> Len(queue') = 0
    BY <2>3
  <2>5. LogShape' /\ MoreToCome' /\ Shown' = Shown
    BY <2>1, <2>2, <2>3 DEF LogShape, Reading, MoreToCome, Shown
  <2>6. /\ over /\ Len(queue) = 1 => hand' = Log!End /\ InQueue = 0 /\ InQueue' = 0
        /\ ~(over /\ Len(queue) = 1) =>
             hand' = offered - InQueue + 1 /\ InQueue' = InQueue - 1 /\ ~AtEnd'
    <3>1. over \in BOOLEAN /\ offered \in Nat
      BY <2>2 DEF LogShape
    <3>2. InQueue = IF over THEN Len(queue) - 1 ELSE Len(queue)
      BY <2>1, <2>3 DEF InQueue
    <3>3. /\ InQueue' = IF over /\ Len(queue) # 1 THEN Len(queue) - 2 ELSE Len(queue) - 1
          /\ AtEnd' <=> over /\ Len(queue) = 1
      <4>1. over' <=> over
        BY <2>1
      <4>2. queue' # << >> <=> Len(queue) # 1
        BY <2>3, <2>4
      <4>3. InQueue' = Len(queue') - (IF over /\ Len(queue) # 1 THEN 1 ELSE 0)
        BY <4>1, <4>2 DEF InQueue
      <4>4. AtEnd' <=> over /\ Len(queue) = 1
        BY <4>1, <4>2 DEF AtEnd
      <4> QED
        BY <2>3, <4>3, <4>4
    <3>4. hand' = IF over /\ 1 = Len(queue) THEN Log!End ELSE offered - InQueue + 1
      <4>1. 1 \in 1..Len(queue) /\ hand' = queue[1]
        BY <2>1, <2>3
      <4> QED
        BY <2>2, <4>1 DEF QueueIsTheTail
    <3>5. CASE over /\ Len(queue) = 1
      BY <3>2, <3>3, <3>4, <3>5
    <3>6. CASE over /\ Len(queue) # 1
      BY <2>3, <3>1, <3>2, <3>3, <3>4, <3>6
    <3>7. CASE ~over
      BY <2>3, <3>1, <3>2, <3>3, <3>4, <3>7
    <3> QED
      BY <3>5, <3>6, <3>7
  <2>7. Shown \in Nat /\ InQueue \in Nat /\ offered \in Nat /\ dropped \in Nat
    BY <2>1, <2>2, <2>3 DEF LogShape, Shown, InQueue
  <2>8. Accounted'
    <3>1. CASE over /\ Len(queue) = 1
      <4>1. dropped = 0
        BY <2>1, <2>2, <2>7, <3>1 DEF MoreToCome
      <4> QED
        BY <2>1, <2>2, <2>5, <2>6, <2>7, <3>1, <4>1 DEF Accounted, LogShape
    <3>2. CASE ~(over /\ Len(queue) = 1)
      BY <2>1, <2>2, <2>5, <2>6, <2>7, <3>2 DEF Accounted, LogShape, Log!End
    <3> QED
      BY <3>1, <3>2
  <2>9. QueueIsTheTail'
    <3> SUFFICES ASSUME NEW i \in 1..Len(queue')
                 PROVE  queue'[i] = IF over /\ i = Len(queue') THEN Log!End ELSE offered - InQueue' + i
      BY <2>1 DEF QueueIsTheTail
    <3>1. queue'[i] = IF over /\ i + 1 = Len(queue) THEN Log!End ELSE offered - InQueue + (i + 1)
      BY <2>2, <2>3 DEF QueueIsTheTail
    <3>2. InQueue' = InQueue - 1
      <4>1. ~(over /\ Len(queue) = 1)
        BY <2>3
      <4> QED
        BY <2>6, <4>1
    <3> QED
      BY <2>3, <2>7, <3>1, <3>2
  <2> QED
    BY <2>1, <2>2, <2>5, <2>8, <2>9 DEF LogInv
<1>11. CASE Log!Offer
  <2>1. /\ UNCHANGED <<child, printed, over, pc, hand, owed, client, watched, page>>
        /\ offered < printed /\ offered' = offered + 1 /\ Log!Put(offered + 1)
    BY <1>11 DEF Log!Offer
  <2>2. LogShape /\ Accounted /\ MoreToCome /\ Shown >= page.last /\ Shown' = Shown
    BY <2>1 DEF LogInv, Shown
  <2>3. PICK cut \in {0, 1} :
          /\ queue' \in Seq(Nat) /\ Len(queue') <= QueueMax /\ dropped' = dropped + cut
          /\ Len(queue') = Len(queue) + 1 - cut /\ queue'[Len(queue')] = offered + 1
          /\ \A i \in 1..(Len(queue') - 1) : queue'[i] = queue[i + cut]
          /\ cut = 1 => Len(queue') = QueueMax
    BY <2>1, <2>2, PutAdds DEF LogShape
  <2>4. ~over /\ Len(queue) \in Nat /\ offered \in Nat /\ dropped \in Nat /\ Shown \in Nat
    BY <2>1, <2>2 DEF LogShape, Shown
  <2>5. InQueue = Len(queue) /\ InQueue' = Len(queue') /\ ~AtEnd'
    BY <2>1, <2>3, <2>4 DEF InQueue, AtEnd
  <2>6. LogShape' /\ MoreToCome'
    BY <2>1, <2>2, <2>3, <2>4 DEF LogShape, Reading, MoreToCome
  <2>7. Accounted'
    <3>1. printed \in Nat /\ cut \in Int /\ Len(queue') = Len(queue) + 1 - cut /\ dropped' = dropped + cut
          /\ owed \in Nat /\ hand \in Nat
      BY <2>2, <2>3 DEF LogShape
    <3> QED
      BY <2>1, <2>2, <2>4, <2>5, <3>1 DEF Accounted
  <2>8. ASSUME pc \in Reading PROVE QueueIsTheTail'
    <3> SUFFICES ASSUME NEW i \in 1..Len(queue') PROVE queue'[i] = offered' - InQueue' + i
      BY <2>1, <2>4 DEF QueueIsTheTail
    <3>1. \A k \in 1..Len(queue) : queue[k] = offered - InQueue + k
      BY <2>4, <2>8 DEF LogInv, QueueIsTheTail
    <3>2. CASE i = Len(queue')
      BY <2>1, <2>3, <2>4, <2>5, <3>2
    <3>3. CASE i # Len(queue')
      <4>1. i + cut \in 1..Len(queue) /\ queue'[i] = queue[i + cut]
        BY <2>3, <2>4, <3>3
      <4>2. queue'[i] = offered - Len(queue) + (i + cut) /\ i \in Int /\ cut \in Int
        BY <2>3, <2>5, <3>1, <4>1
      <4> QED
        BY <2>1, <2>3, <2>4, <2>5, <4>2
    <3> QED
      BY <3>2, <3>3
  <2> QED
    BY <2>1, <2>2, <2>6, <2>7, <2>8 DEF LogInv
<1>12. CASE Log!OfferEnd
  <2>1. /\ UNCHANGED <<child, printed, offered, pc, hand, owed, client, watched, page>>
        /\ child = "exited" /\ offered = printed /\ ~over /\ over' = TRUE /\ Log!Put(Log!End)
    BY <1>12 DEF Log!OfferEnd
  <2>2. LogShape /\ Accounted /\ MoreToCome /\ Shown >= page.last /\ Shown' = Shown
    BY <2>1 DEF LogInv, Shown
  <2>3. PICK cut \in {0, 1} :
          /\ queue' \in Seq(Nat) /\ Len(queue') <= QueueMax /\ dropped' = dropped + cut
          /\ Len(queue') = Len(queue) + 1 - cut /\ queue'[Len(queue')] = Log!End
          /\ \A i \in 1..(Len(queue') - 1) : queue'[i] = queue[i + cut]
          /\ cut = 1 => Len(queue') = QueueMax
    BY <2>1, <2>2, PutAdds DEF LogShape, Log!End
  <2>4. Len(queue) \in Nat /\ offered \in Nat /\ dropped \in Nat /\ Shown \in Nat
    BY <2>1, <2>2 DEF LogShape, Shown
  <2>5. InQueue = Len(queue) /\ InQueue' = Len(queue') - 1 /\ ~AtEnd'
    BY <2>1, <2>3, <2>4 DEF InQueue, AtEnd
  <2>6. LogShape' /\ MoreToCome'
    BY <2>1, <2>2, <2>3, <2>4 DEF LogShape, Reading, MoreToCome
  <2>7. Accounted'
    <3>1. printed \in Nat /\ cut \in Int /\ Len(queue') = Len(queue) + 1 - cut /\ dropped' = dropped + cut
          /\ owed \in Nat /\ hand \in Nat
      BY <2>2, <2>3 DEF LogShape
    <3> QED
      BY <2>1, <2>2, <2>4, <2>5, <3>1 DEF Accounted
  <2>8. ASSUME pc \in Reading PROVE QueueIsTheTail'
    <3> SUFFICES ASSUME NEW i \in 1..Len(queue')
                 PROVE  queue'[i] = IF i = Len(queue') THEN Log!End ELSE offered - InQueue' + i
      BY <2>1 DEF QueueIsTheTail
    <3>1. \A k \in 1..Len(queue) : queue[k] = offered - InQueue + k
      BY <2>1, <2>8 DEF LogInv, QueueIsTheTail
    <3>2. CASE i = Len(queue')
      BY <2>3, <3>2
    <3>3. CASE i # Len(queue')
      <4>1. i + cut \in 1..Len(queue) /\ queue'[i] = queue[i + cut]
        BY <2>3, <2>4, <3>3
      <4>2. queue'[i] = offered - Len(queue) + (i + cut) /\ i \in Int /\ cut \in Int
        BY <2>3, <2>5, <3>1, <4>1
      <4> QED
        BY <2>3, <2>4, <2>5, <3>3, <4>2
    <3> QED
      BY <3>2, <3>3
  <2> QED
    BY <2>1, <2>2, <2>6, <2>7, <2>8 DEF LogInv
<1>13. CASE UNCHANGED log
  BY <1>13 DEF log, LogInv, LogShape, Accounted, MoreToCome, QueueIsTheTail, InQueue, AtEnd, Shown, Reading
<1> QED
  BY <1>1, <1>2, <1>3, <1>4, <1>5, <1>6, <1>7, <1>8, <1>9, <1>10, <1>11, <1>12, <1>13 DEF Log!Next, Log!Server

\* By the time the browser has a log line, it was told of every line it did not get
\* before it, and of all when the output ended (logs_stream, make_log_offer,
\* web/app.py).
THEOREM NoSilentGap == MCSpec => []GapsAreTold
<1>1. MCInit => LogInv
  BY LogStarts DEF MCInit
<1>2. LogInv /\ [MCNext]_<<part, vars, log, door, files>> => LogInv'
  BY LogSteps DEF MCNext
<1> QED
  BY <1>1, <1>2, LogTold, PTL DEF MCSpec

-----------------------------------------------------------------------------
(* The dialog of a job.                                                    *)

\* What is on its way to a dialog that expects event c, where the buffer has
\* nothing before f: event follows event but for what the buffer had dropped.
Expected(w, c, i) == IF i = 1 THEN c ELSE w[i - 1] + 1
InOrder(w, c, f) ==
  \A i \in 1..Len(w) : /\ Expected(w, c, i) <= w[i]
                       /\ \A j \in Expected(w, c, i)..(w[i] - 1) : j < f
Gone(m, n, f) == \A j \in m..(n - 1) : j < f
After(w, c) == IF Len(w) = 0 THEN c ELSE w[Len(w)] + 1
Below(w, n) == \A i \in 1..Len(w) : w[i] < n

StreamShape ==
  /\ emitted \in Nat /\ status \in {"running", "done", "error"} /\ terminal \in Nat \cup {None}
  /\ listed \in BOOLEAN /\ conn \in {"none", "open", "ending"} /\ sidx \in Nat /\ cidx \in Nat
  /\ wire \in Seq(Nat)
  /\ (terminal # None => Over) /\ (~listed => Over)
  /\ (conn = "open" => mode = "streaming") /\ sidx <= emitted /\ cidx <= emitted
  /\ Below(wire, emitted)
InStream == mode = "streaming" => InOrder(wire, cidx, First) /\ sidx = After(wire, cidx)
DialogInv == StreamShape /\ InStream /\ ReportsTheOutcome

LEMMA MoreDropped ==
  ASSUME NEW w \in Seq(Nat), NEW c \in Nat, NEW f \in Nat, NEW g \in Nat, f <= g, InOrder(w, c, f)
  PROVE  InOrder(w, c, g)
<1> SUFFICES ASSUME NEW i \in 1..Len(w)
             PROVE  /\ Expected(w, c, i) <= w[i]
                    /\ \A j \in Expected(w, c, i)..(w[i] - 1) : j < g
  BY DEF InOrder
<1>1. /\ Expected(w, c, i) <= w[i]
      /\ \A j \in Expected(w, c, i)..(w[i] - 1) : j < f
  BY DEF InOrder
<1>2. Expected(w, c, i) \in Nat /\ w[i] \in Nat
  BY DEF Expected
<1> QED
  BY <1>1, <1>2

LEMMA FirstIsRead ==
  ASSUME NEW w \in Seq(Nat), NEW c \in Nat, NEW f \in Nat, w # << >>, InOrder(w, c, f)
  PROVE  /\ Head(w) \in Nat /\ c <= Head(w) /\ \A j \in c..(Head(w) - 1) : j < f
         /\ Tail(w) \in Seq(Nat)
         /\ InOrder(Tail(w), Head(w) + 1, f) /\ After(Tail(w), Head(w) + 1) = After(w, c)
<1>1. /\ Head(w) = w[1] /\ Len(w) \in Nat /\ Len(w) > 0 /\ w[1] \in Nat
      /\ Tail(w) \in Seq(Nat) /\ Len(Tail(w)) = Len(w) - 1
      /\ \A i \in 1..Len(Tail(w)) : Tail(w)[i] = w[i + 1]
  OBVIOUS
<1>2. 1 \in 1..Len(w) /\ Expected(w, c, 1) = c
  BY <1>1 DEF Expected
<1>3. c <= Head(w) /\ \A j \in c..(Head(w) - 1) : j < f
  BY <1>1, <1>2 DEF InOrder
<1>4. InOrder(Tail(w), Head(w) + 1, f)
  <2> SUFFICES ASSUME NEW i \in 1..Len(Tail(w))
               PROVE  /\ Expected(Tail(w), Head(w) + 1, i) <= Tail(w)[i]
                      /\ \A j \in Expected(Tail(w), Head(w) + 1, i)..(Tail(w)[i] - 1) : j < f
    BY DEF InOrder
  <2>1. i + 1 \in 1..Len(w) /\ Tail(w)[i] = w[i + 1] /\ i + 1 # 1 /\ (i + 1) - 1 = i
    BY <1>1
  <2>2. Expected(w, c, i + 1) = w[i] + 1
    BY <2>1 DEF Expected
  <2>3. Expected(Tail(w), Head(w) + 1, i) = w[i] + 1
    <3>1. CASE i = 1
      BY <1>1, <3>1 DEF Expected
    <3>2. CASE i # 1
      <4>1. i - 1 \in 1..Len(Tail(w)) /\ (i - 1) + 1 = i
        BY <1>1, <3>2
      <4> QED
        BY <1>1, <3>2, <4>1 DEF Expected
    <3> QED
      BY <3>1, <3>2
  <2> QED
    BY <2>1, <2>2, <2>3 DEF InOrder
<1>5. After(Tail(w), Head(w) + 1) = After(w, c)
  <2>1. CASE Len(w) = 1
    BY <1>1, <2>1 DEF After
  <2>2. CASE Len(w) # 1
    <3>1. Len(Tail(w)) \in 1..Len(Tail(w)) /\ Len(Tail(w)) # 0
      BY <1>1, <2>2
    <3>2. Tail(w)[Len(Tail(w))] = w[Len(w)]
      BY <1>1, <3>1
    <3> QED
      BY <1>1, <3>1, <3>2 DEF After
  <2> QED
    BY <2>1, <2>2
<1> QED
  BY <1>1, <1>3, <1>4, <1>5

\* What a round of the generator takes from the buffer.
Round(start, n) == [i \in 1..n |-> start + i - 1]

LEMMA RoundsOfEvents ==
  ASSUME NEW start \in Nat, NEW n \in Nat
  PROVE  /\ Round(start, n) \in Seq(Nat) /\ Len(Round(start, n)) = n
         /\ \A i \in 1..n : Round(start, n)[i] = start + i - 1
BY DEF Round

LEMMA Joined ==
  ASSUME NEW w \in Seq(Nat), NEW e \in Seq(Nat)
  PROVE  /\ w \o e \in Seq(Nat) /\ Len(w \o e) = Len(w) + Len(e)
         /\ \A i \in 1..Len(w) : (w \o e)[i] = w[i]
         /\ \A i \in (Len(w) + 1)..(Len(w) + Len(e)) : (w \o e)[i] = e[i - Len(w)]
BY ConcatProperties

LEMMA RoundIsSent ==
  ASSUME NEW w \in Seq(Nat), NEW c \in Nat, NEW f \in Nat, NEW start \in Nat, NEW n \in Nat, n > 0,
         InOrder(w, c, f), After(w, c) <= start,
         Gone(After(w, c), start, f),
         Below(w, start + n)
  PROVE  /\ w \o Round(start, n) \in Seq(Nat)
         /\ InOrder(w \o Round(start, n), c, f) /\ After(w \o Round(start, n), c) = start + n
         /\ Below(w \o Round(start, n), start + n)
<1>0. PICK v : v = w \o Round(start, n)
  OBVIOUS
<1>1. PICK e \in Seq(Nat) : e = Round(start, n) /\ Len(e) = n /\ \A i \in 1..n : e[i] = start + i - 1
  BY RoundsOfEvents
<1>2. Len(w) \in Nat /\ \A i \in 1..Len(w) : w[i] \in Nat
  OBVIOUS
<1>3. /\ v \in Seq(Nat) /\ Len(v) = Len(w) + n
      /\ \A i \in 1..Len(w) : v[i] = w[i]
      /\ \A i \in (Len(w) + 1)..Len(v) : v[i] = e[i - Len(w)]
  <2>1. v = w \o e
    BY <1>0, <1>1
  <2>2. /\ w \o e \in Seq(Nat) /\ Len(w \o e) = Len(w) + Len(e)
        /\ \A i \in 1..Len(w) : (w \o e)[i] = w[i]
        /\ \A i \in (Len(w) + 1)..(Len(w) + Len(e)) : (w \o e)[i] = e[i - Len(w)]
    BY Joined
  <2>3. Len(e) = n
    BY <1>1
  <2> QED
    BY <2>1, <2>2, <2>3, Zenon
<1>4. \A i \in (Len(w) + 1)..Len(v) : v[i] = start + (i - Len(w)) - 1
  <2> SUFFICES ASSUME NEW i \in (Len(w) + 1)..Len(v) PROVE v[i] = start + (i - Len(w)) - 1
    OBVIOUS
  <2>1. i - Len(w) \in 1..n
    BY <1>2, <1>3
  <2> QED
    BY <1>1, <1>3, <2>1
<1>5. InOrder(v, c, f)
  <2> SUFFICES ASSUME NEW i \in 1..Len(v)
               PROVE  /\ Expected(v, c, i) <= v[i]
                      /\ \A j \in Expected(v, c, i)..(v[i] - 1) : j < f
    BY DEF InOrder
  <2>1. CASE i <= Len(w)
    <3>1. i \in 1..Len(w) /\ v[i] = w[i] /\ (i # 1 => v[i - 1] = w[i - 1])
      <4>1. i \in 1..Len(w)
        BY <1>2, <1>3, <2>1
      <4>2. i # 1 => i - 1 \in 1..Len(w)
        BY <1>2, <4>1
      <4> QED
        BY <1>3, <4>1, <4>2, Zenon
    <3>2. Expected(v, c, i) = Expected(w, c, i)
      BY <3>1 DEF Expected
    <3> QED
      BY <3>1, <3>2 DEF InOrder
  <2>2. CASE i = Len(w) + 1
    <3>1. v[i] = start
      <4>1. i \in (Len(w) + 1)..Len(v)
        BY <1>2, <1>3, <2>2
      <4> QED
        BY <1>2, <1>4, <2>2, <4>1
    <3>2. Expected(v, c, i) = After(w, c)
      <4>1. CASE Len(w) = 0
        BY <2>2, <4>1 DEF Expected, After
      <4>2. CASE Len(w) # 0
        <5>1. Len(w) \in 1..Len(w) /\ i # 1 /\ i - 1 = Len(w)
          BY <1>2, <2>2, <4>2
        <5>2. v[i - 1] = w[Len(w)]
          BY <1>3, <5>1, Zenon
        <5> QED
          BY <4>2, <5>1, <5>2 DEF Expected, After
      <4> QED
        BY <4>1, <4>2
    <3> QED
      BY <3>1, <3>2 DEF Gone
  <2>3. CASE i > Len(w) + 1
    <3>1. i - 1 \in (Len(w) + 1)..Len(v) /\ i \in (Len(w) + 1)..Len(v) /\ i # 1
      BY <1>2, <1>3, <2>3
    <3>2. v[i - 1] + 1 = v[i] /\ v[i] \in Nat
      <4>1. v[i - 1] = start + ((i - 1) - Len(w)) - 1 /\ v[i] = start + (i - Len(w)) - 1
        BY <1>4, <3>1
      <4>2. i \in Int /\ i - Len(w) > 1
        BY <1>2, <2>3
      <4> QED
        BY <1>2, <4>1, <4>2
    <3>3. Expected(v, c, i) = v[i]
      BY <3>1, <3>2 DEF Expected
    <3>4. v[i] <= v[i] /\ \A j \in v[i]..(v[i] - 1) : j < f
      BY <3>2
    <3> QED
      BY <3>3, <3>4
  <2> QED
    BY <1>2, <1>3, <2>1, <2>2, <2>3
<1>6. After(v, c) = start + n
  <2>1. Len(v) \in (Len(w) + 1)..Len(v) /\ Len(v) # 0
    BY <1>2, <1>3
  <2> QED
    BY <1>2, <1>3, <1>4, <2>1 DEF After
<1>7. Below(v, start + n)
  <2> SUFFICES ASSUME NEW i \in 1..Len(v) PROVE v[i] < start + n
    BY DEF Below
  <2>1. i \in 1..Len(w) \/ i \in (Len(w) + 1)..Len(v)
    BY <1>2, <1>3
  <2> QED
    BY <1>2, <1>3, <1>4, <2>1 DEF Below
<1> QED
  BY <1>0, <1>3, <1>5, <1>6, <1>7

LEMMA StreamStarts == Init => DialogInv
<1> SUFFICES ASSUME Init PROVE DialogInv
  OBVIOUS
<1>0. /\ emitted = 0 /\ status = "running" /\ terminal = None /\ listed /\ listed \in BOOLEAN
      /\ conn = "none" /\ sidx = 0 /\ cidx = 0 /\ wire = << >>
  BY DEF Init
<1>1. wire \in Seq(Nat)
  BY <1>0
<1>2. StreamShape
  BY <1>0, <1>1 DEF StreamShape, Below
<1>3. InStream /\ ReportsTheOutcome
  BY DEF Init, InStream, ReportsTheOutcome
<1> QED
  BY <1>2, <1>3 DEF DialogInv

\* The oldest event in the buffer grows with the events.
Oldest(n) == IF n > MaxEvents THEN n - MaxEvents ELSE 0

LEMMA OldestGrows ==
  \A m, n \in Nat : m <= n => Oldest(m) \in Nat /\ Oldest(n) \in Nat /\ Oldest(m) <= Oldest(n)
BY StreamLimits DEF Oldest

LEMMA FirstGrows ==
  ASSUME emitted \in Nat, emitted' \in Nat, emitted <= emitted'
  PROVE  First \in Nat /\ First' \in Nat /\ First <= First'
<1>1. First = Oldest(emitted) /\ First' = Oldest(emitted')
  BY DEF First, Oldest
<1> QED
  BY <1>1, OldestGrows

LEMMA StreamSteps == DialogInv /\ [Next]_vars => DialogInv' /\ (LinesInOrder \/ UNCHANGED vars)
<1> SUFFICES ASSUME DialogInv, [Next]_vars PROVE DialogInv' /\ (LinesInOrder \/ UNCHANGED vars)
  OBVIOUS
<1>0. StreamShape /\ InStream /\ ReportsTheOutcome
  BY DEF DialogInv
<1>1. CASE Emit \/ Settle \/ Tell \/ Evict
  <2>1. UNCHANGED <<link, dialog>> /\ emitted' \in Nat /\ emitted <= emitted' /\ First <= First'
    BY <1>0, <1>1, FirstGrows DEF StreamShape, Emit, Settle, Tell, Evict
  <2>2. StreamShape'
    <3>1. UNCHANGED <<conn, sidx, wire, mode, cidx>>
      BY <2>1 DEF link, dialog
    <3>2. sidx' <= emitted' /\ cidx' <= emitted' /\ Below(wire', emitted')
      BY <1>0, <2>1, <3>1 DEF StreamShape, Below
    <3>3. /\ status' \in {"running", "done", "error"} /\ listed' \in BOOLEAN
          /\ terminal' \in Nat \cup {None}
          /\ (terminal' # None => Over') /\ (~listed' => Over')
      <4>1. CASE Emit
        BY <1>0, <4>1 DEF StreamShape, Emit, Over
      <4>2. CASE Settle
        BY <1>0, <4>2 DEF StreamShape, Settle, Over
      <4>3. CASE Tell
        BY <1>0, <4>3 DEF StreamShape, Tell, Over
      <4>4. CASE Evict
        BY <1>0, <4>4 DEF StreamShape, Evict, Over
      <4> QED
        BY <1>1, <4>1, <4>2, <4>3, <4>4
    <3> QED
      BY <1>0, <2>1, <3>1, <3>2, <3>3 DEF StreamShape
  <2>3. InStream'
    BY <1>0, <2>1, FirstGrows, MoreDropped DEF InStream, StreamShape, link, dialog
  <2>4. ReportsTheOutcome'
    BY <1>0, <1>1, <2>1 DEF ReportsTheOutcome, StreamShape, Emit, Settle, Tell, Evict, link, dialog, Over
  <2>5. LinesInOrder
    BY <2>1 DEF LinesInOrder, dialog
  <2> QED
    BY <2>2, <2>3, <2>4, <2>5 DEF DialogInv
<1>2. CASE Connect
  <2>1. UNCHANGED <<job, cidx, title, unasked>> /\ First' = First /\ wire' = << >>
    BY <1>2 DEF Connect, job, First
  <2>2. StreamShape'
    BY <1>0, <1>2, <2>1 DEF StreamShape, Connect, job, Over, None, Below
  <2>3. InStream'
    BY <1>0, <1>2, <2>1 DEF InStream, Connect, InOrder, After
  <2>4. ReportsTheOutcome' /\ LinesInOrder
    BY <1>0, <2>1 DEF ReportsTheOutcome, LinesInOrder, job
  <2> QED
    BY <2>2, <2>3, <2>4 DEF DialogInv
<1>3. CASE Snapshot
  <2> DEFINE start == IF sidx > First THEN sidx ELSE First
  <2>1. /\ conn = "open" /\ sidx' = emitted /\ UNCHANGED <<job, dialog>> /\ First' = First
        /\ wire' = wire \o [i \in 1..(emitted - start) |-> start + i - 1]
        /\ conn' \in {"open", "ending"}
    BY <1>3 DEF Snapshot, First, job
  <2>2. /\ start \in Nat /\ sidx <= start /\ start <= emitted /\ emitted \in Nat /\ sidx \in Nat
        /\ \A j \in sidx..(start - 1) : j < First
        /\ start = emitted => sidx = emitted
    BY <1>0, StreamLimits DEF StreamShape, First
  <2>3. mode = "streaming" /\ InOrder(wire, cidx, First) /\ sidx = After(wire, cidx)
    BY <1>0, <2>1 DEF StreamShape, InStream
  <2>4. wire \in Seq(Nat) /\ cidx \in Nat /\ First \in Nat
    BY <1>0, StreamLimits DEF StreamShape, First
  <2>5. /\ wire' \in Seq(Nat) /\ InOrder(wire', cidx, First) /\ After(wire', cidx) = emitted
        /\ Below(wire', emitted)
    <3>0. Below(wire, emitted)
      BY <1>0 DEF StreamShape
    <3>1. CASE start = emitted
      <4>1. wire' = wire
        <5>1. [i \in 1..(emitted - start) |-> start + i - 1] = << >>
          BY <2>2, <3>1
        <5> QED
          BY <2>1, <2>4, <5>1, ConcatEmptySeq
      <4> QED
        BY <2>2, <2>3, <2>4, <3>0, <3>1, <4>1
    <3>2. CASE start # emitted
      <4>1. PICK k \in Nat : k = emitted - start /\ k > 0
        <5>1. emitted - start \in Nat /\ emitted - start > 0
          BY <2>2, <3>2
        <5> QED
          BY <5>1
      <4>2. PICK s \in Nat : s = start
        BY <2>2
      <4>3. PICK u \in Seq(Nat), c \in Nat, f \in Nat : u = wire /\ c = cidx /\ f = First
        BY <2>4
      <4>4. wire' = u \o Round(s, k)
        BY <2>1, <4>1, <4>2, <4>3 DEF Round
      <4>5. emitted = s + k
        BY <2>2, <4>1, <4>2
      <4>6. /\ InOrder(u, c, f) /\ After(u, c) <= s /\ Below(u, s + k)
            /\ Gone(After(u, c), s, f)
        BY <2>2, <2>3, <3>0, <4>2, <4>3, <4>5 DEF Gone
      <4>7. /\ u \o Round(s, k) \in Seq(Nat)
            /\ InOrder(u \o Round(s, k), c, f) /\ After(u \o Round(s, k), c) = s + k
            /\ Below(u \o Round(s, k), s + k)
        BY <4>1, <4>6, RoundIsSent
      <4> QED
        BY <4>3, <4>4, <4>5, <4>7
    <3> QED
      BY <3>1, <3>2
  <2>6. StreamShape'
    BY <1>0, <2>1, <2>2, <2>3, <2>5 DEF StreamShape, job, dialog, Over
  <2>7. InStream'
    BY <2>1, <2>5 DEF InStream, dialog
  <2>8. ReportsTheOutcome' /\ LinesInOrder
    BY <1>0, <2>1 DEF ReportsTheOutcome, LinesInOrder, job, dialog
  <2> QED
    BY <2>6, <2>7, <2>8 DEF DialogInv
<1>4. CASE Receive
  <2>1. /\ mode = "streaming" /\ wire # << >> /\ cidx' = Head(wire) + 1
        /\ UNCHANGED <<job, sidx, retries, unasked>> /\ First' = First
    BY <1>4 DEF Receive, First, job
  <2>2. wire \in Seq(Nat) /\ cidx \in Nat /\ First \in Nat /\ InOrder(wire, cidx, First)
    BY <1>0, <2>1, StreamLimits DEF StreamShape, InStream, First
  <2>3. /\ Head(wire) \in Nat /\ cidx <= Head(wire) /\ \A j \in cidx..(Head(wire) - 1) : j < First
        /\ Tail(wire) \in Seq(Nat) /\ InOrder(Tail(wire), Head(wire) + 1, First)
        /\ After(Tail(wire), Head(wire) + 1) = After(wire, cidx)
    BY <2>1, <2>2, FirstIsRead
  <2>4. LinesInOrder
    BY <2>1, <2>2, <2>3 DEF LinesInOrder
  <2>7. cidx' \in Nat /\ cidx' <= emitted'
    <3>1. Below(wire, emitted) /\ emitted' = emitted /\ emitted \in Nat
      BY <1>0, <2>1 DEF StreamShape, job
    <3>2. Head(wire) < emitted
      BY <2>1, <2>2, <3>1 DEF Below
    <3> QED
      BY <2>1, <2>3, <3>1, <3>2
  <2>8. Below(Tail(wire), emitted)
    BY <1>0, <2>1, <2>2 DEF StreamShape, Below
  <2>9. Below(<< >>, emitted)
    BY DEF Below
  <2>5. CASE Head(wire) = terminal
    <3>1. /\ mode' = "finished" /\ conn' = "none" /\ wire' = << >>
          /\ title' = IF status = "error" THEN "Failed" ELSE "Done"
      BY <1>4, <2>5 DEF Receive
    <3>2. Over
      BY <1>0, <2>3, <2>5 DEF StreamShape, None
    <3>3. StreamShape'
      BY <1>0, <2>1, <2>7, <2>8, <2>9, <3>1 DEF StreamShape, job, Over
    <3>4. ReportsTheOutcome'
      BY <1>0, <2>1, <3>1, <3>2 DEF ReportsTheOutcome, StreamShape, job, Over
    <3> QED
      BY <2>4, <3>1, <3>3, <3>4 DEF DialogInv, InStream
  <2>6. CASE Head(wire) # terminal
    <3>1. UNCHANGED <<mode, title, conn>> /\ wire' = Tail(wire)
      BY <1>4, <2>6 DEF Receive
    <3>2. StreamShape'
      BY <1>0, <2>1, <2>3, <2>7, <2>8, <2>9, <3>1 DEF StreamShape, job, Over
    <3>3. InStream'
      BY <1>0, <2>1, <2>3, <3>1 DEF InStream
    <3>4. ReportsTheOutcome'
      BY <1>0, <2>1, <3>1 DEF ReportsTheOutcome, job
    <3> QED
      BY <2>4, <3>2, <3>3, <3>4 DEF DialogInv
  <2> QED
    BY <2>5, <2>6
<1>5. CASE Lost \/ Reconcile \/ Poll
  <2>1. UNCHANGED <<job, sidx, cidx>> /\ mode' # "streaming" /\ (mode = "streaming" => conn' = "none")
    BY <1>5 DEF Lost, Reconcile, Poll, Report, link
  <2>2. StreamShape'
    <3>1. UNCHANGED <<emitted, status, terminal, listed, sidx, cidx>>
      BY <2>1 DEF job
    <3>2. /\ wire' = << >> \/ wire' = wire
          /\ conn' \in {"none", "open", "ending"} /\ (conn' = "open" => mode' = "streaming")
      BY <1>0, <1>5, <2>1 DEF StreamShape, Lost, Reconcile, Poll, Report, link
    <3>3. wire' \in Seq(Nat) /\ Below(wire', emitted)
      <4>1. wire \in Seq(Nat) /\ Below(wire, emitted)
        BY <1>0 DEF StreamShape
      <4>2. << >> \in Seq(Nat) /\ Below(<< >>, emitted)
        BY DEF Below
      <4> QED
        BY <3>2, <4>1, <4>2
    <3> QED
      BY <1>0, <3>1, <3>2, <3>3 DEF StreamShape, Over
  <2>3. ReportsTheOutcome'
    <3>1. CASE UNCHANGED <<title, unasked>>
      BY <1>0, <2>1, <3>1 DEF ReportsTheOutcome, job
    <3>2. CASE \E answer \in Outcome \ {"running"} : Report(answer)
      BY <1>0, <2>1, <3>2 DEF ReportsTheOutcome, StreamShape, Report, Outcome, job
    <3> QED
      BY <1>5, <3>1, <3>2 DEF Lost, Reconcile, Poll
  <2> QED
    BY <2>1, <2>2, <2>3 DEF DialogInv, InStream, LinesInOrder
<1>6. CASE UNCHANGED vars
  BY <1>0, <1>6 DEF DialogInv, StreamShape, InStream, ReportsTheOutcome, vars, job, link, dialog, First, Over, Outcome
<1> QED
  BY <1>1, <1>2, <1>3, <1>4, <1>5, <1>6 DEF Next, Worker, Client

\* A dialog that is told of a job shows its lines in order, skips none the buffer
\* still had, and reports what became of it, or that it could not ask (connectJob,
\* streamJob, reconcileJob, pollJobUntilDone, app.js).
THEOREM NoLineLostTwice == MCSpec => DialogIsTrue
<1>1. MCInit => DialogInv
  BY StreamStarts DEF MCInit
<1>2. /\ DialogInv /\ [MCNext]_<<part, vars, log, door, files>> => DialogInv'
      /\ DialogInv /\ DialogInv' /\ [MCNext]_<<part, vars, log, door, files>>
           => [LinesInOrder /\ ReportsTheOutcome']_vars
  <2> SUFFICES ASSUME DialogInv, [MCNext]_<<part, vars, log, door, files>>
               PROVE  DialogInv' /\ [LinesInOrder /\ ReportsTheOutcome']_vars
    OBVIOUS
  <2>1. [Next]_vars
    BY DEF MCNext
  <2>2. DialogInv' /\ (LinesInOrder \/ UNCHANGED vars)
    BY <2>1, StreamSteps
  <2> QED
    BY <2>2 DEF DialogInv
<1> QED
  BY <1>1, <1>2, PTL DEF MCSpec, DialogIsTrue

-----------------------------------------------------------------------------
(* The two files.                                                          *)

\* While no two rotate at once, the one that does has an empty place before it.
AuditShape == /\ moving \in [Writers -> (0 .. KEEP - 1) \cup {Unset}]
              /\ kept \subseteq Nat /\ crowded \in BOOLEAN
RoomAhead ==
  \A w \in Writers : moving[w] # Unset => moving[w] + 1 \notin kept \/ moving[w] + 1 = KEEP
OneRotates == \A v, w \in Writers : moving[v] # Unset /\ moving[w] # Unset => v = w
AuditInv == AuditShape /\ (~crowded => RoomAhead /\ OneRotates)

LEMMA AuditStarts == Audit!Init => AuditInv
BY WebConstants DEF FileConstants, Audit!Init, AuditInv, AuditShape, RoomAhead, OneRotates

LEMMA AuditSteps == AuditInv /\ [Audit!Next]_audit => AuditInv' /\ (Audit!KeepsTheNewest \/ UNCHANGED audit)
<1> SUFFICES ASSUME AuditInv, [Audit!Next]_audit
             PROVE  AuditInv' /\ (Audit!KeepsTheNewest \/ UNCHANGED audit)
  OBVIOUS
<1> USE WebConstants DEF FileConstants, AuditInv, AuditShape
<1>0. Audit!KeepsTheNewest
  BY DEF Audit!KeepsTheNewest, Audit!Rotating, RoomAhead
<1>1. ASSUME NEW w \in Writers, Audit!record(w) PROVE AuditInv'
  <2>1. CASE trail # Unset /\ trail >= MAX
    <3>1. /\ moving' = [moving EXCEPT ![w] = KEEP - 1] /\ kept' = kept
          /\ crowded' = (crowded \/ ~Audit!Only(w))
      BY <1>1, <2>1 DEF Audit!record
    <3>2. KEEP - 1 \in 0 .. KEEP - 1 /\ (KEEP - 1) + 1 = KEEP /\ KEEP - 1 # Unset
      OBVIOUS
    <3>3. AuditShape'
      BY <3>1, <3>2
    <3>4. ASSUME ~crowded' PROVE RoomAhead' /\ OneRotates'
      <4>1. ~crowded /\ \A v \in Writers \ {w} : moving[v] = Unset
        BY <3>1, <3>4 DEF Audit!Only, Audit!Rotating
      <4>2. \A v \in Writers : moving'[v] # Unset => v = w
        BY <3>1, <4>1
      <4>3. moving'[w] + 1 = KEEP
        BY <3>1, <3>2
      <4> QED
        BY <4>2, <4>3 DEF RoomAhead, OneRotates
    <3> QED
      BY <3>3, <3>4
  <2>2. CASE ~(trail # Unset /\ trail >= MAX)
    BY <1>1, <2>2 DEF Audit!record, RoomAhead, OneRotates
  <2> QED
    BY <2>1, <2>2
<1>2. ASSUME NEW w \in Writers, Audit!_rotate_if_needed(w) PROVE AuditInv'
  <2>1. PICK m \in 0 .. KEEP - 1 : m = moving[w] /\ m # 0
    BY <1>2 DEF Audit!_rotate_if_needed, Audit!Rotating
  <2>2. /\ moving' = [moving EXCEPT ![w] = m - 1] /\ crowded' = crowded
        /\ kept' = IF m \in kept THEN (kept \ {m}) \cup {m + 1} ELSE kept
    BY <1>2, <2>1 DEF Audit!_rotate_if_needed, Audit!Rotating
  <2>3. m \in Nat /\ m - 1 \in 0 .. KEEP - 1 /\ m - 1 # Unset /\ (m - 1) + 1 = m /\ m + 1 # m /\ m + 1 \in Nat
    BY <2>1
  <2>4. AuditShape'
    BY <2>2, <2>3
  <2>5. ASSUME ~crowded PROVE RoomAhead' /\ OneRotates'
    <3>1. \A v \in Writers : moving[v] # Unset => v = w
      BY <2>1, <2>3, <2>5 DEF OneRotates
    <3>2. \A v \in Writers : moving'[v] # Unset => v = w
      BY <2>2, <3>1
    <3>3. moving'[w] + 1 \notin kept'
      BY <2>2, <2>3
    <3> QED
      BY <3>2, <3>3 DEF RoomAhead, OneRotates
  <2> QED
    BY <2>2, <2>4, <2>5
<1>3. ASSUME NEW w \in Writers, Audit!MoveLog(w) PROVE AuditInv'
  <2>1. /\ moving[w] # Unset /\ kept' \in {kept, kept \cup {1}}
        /\ moving' = [moving EXCEPT ![w] = Unset] /\ crowded' = (crowded /\ ~Audit!Only(w))
    BY <1>3 DEF Audit!MoveLog, Audit!Rotated
  <2>2. AuditShape'
    BY <2>1
  <2>3. ASSUME ~crowded' PROVE RoomAhead' /\ OneRotates'
    <3>1. \A v \in Writers : moving'[v] = Unset
      <4>1. CASE crowded
        BY <2>1, <2>3, <4>1 DEF Audit!Only, Audit!Rotating
      <4>2. CASE ~crowded
        BY <2>1, <4>2 DEF OneRotates
      <4> QED
        BY <4>1, <4>2
    <3> QED
      BY <3>1 DEF RoomAhead, OneRotates
  <2> QED
    BY <2>2, <2>3
<1>4. ASSUME NEW w \in Writers, Audit!GiveUp(w) PROVE AuditInv'
  <2>1. /\ kept' = kept /\ moving' = [moving EXCEPT ![w] = Unset]
        /\ crowded' = (crowded /\ ~Audit!Only(w))
    BY <1>4 DEF Audit!GiveUp, Audit!Rotated
  <2>2. AuditShape'
    BY <2>1
  <2>3. ASSUME ~crowded' PROVE RoomAhead' /\ OneRotates'
    <3>1. CASE crowded
      <4>1. \A v \in Writers : moving'[v] = Unset
        BY <2>1, <2>3, <3>1 DEF Audit!Only, Audit!Rotating
      <4> QED
        BY <4>1 DEF RoomAhead, OneRotates
    <3>2. CASE ~crowded
      BY <2>1, <3>2 DEF RoomAhead, OneRotates
    <3> QED
      BY <3>1, <3>2
  <2> QED
    BY <2>2, <2>3
<1>5. ASSUME NEW w \in Writers, Audit!Append(w) PROVE AuditInv'
  BY <1>5 DEF Audit!Append, RoomAhead, OneRotates
<1>6. ASSUME NEW w \in Writers, Audit!Killed(w) PROVE AuditInv'
  <2>1. /\ kept' = kept /\ moving' = [moving EXCEPT ![w] = Unset]
        /\ crowded' = (crowded /\ ~Audit!Only(w))
    BY <1>6 DEF Audit!Killed, Audit!Rotated
  <2>2. AuditShape'
    BY <2>1
  <2>3. ASSUME ~crowded' PROVE RoomAhead' /\ OneRotates'
    <3>1. CASE crowded
      <4>1. \A v \in Writers : moving'[v] = Unset
        BY <2>1, <2>3, <3>1 DEF Audit!Only, Audit!Rotating
      <4> QED
        BY <4>1 DEF RoomAhead, OneRotates
    <3>2. CASE ~crowded
      BY <2>1, <3>2 DEF RoomAhead, OneRotates
    <3> QED
      BY <3>1, <3>2
  <2> QED
    BY <2>2, <2>3
<1>7. CASE UNCHANGED audit
  BY <1>7 DEF audit, RoomAhead, OneRotates
<1> QED
  BY <1>0, <1>1, <1>2, <1>3, <1>4, <1>5, <1>6, <1>7 DEF Audit!Next

-----------------------------------------------------------------------------
\* A thread has the log open where it may be held up, and the lock of what it has
\* open where it rotates.
EventShape ==
  /\ file \in [{"here", "old"} -> Nat \cup {Unset}] /\ counted \in [Events!Procs -> Nat \cup {Unset}]
  /\ at \in [Writers -> {"idle", "rotate", "flock", "stat", "replace", "append", "write"}]
  /\ fd \in [Writers -> {"here", "old", Unset}] /\ since \in [Writers -> Nat]
  /\ flocked = {w \in Writers : at[w] \in {"stat", "replace"}}
Held == \A w \in Writers :
  /\ fd[w] # Unset <=> at[w] \in {"flock", "stat", "replace", "write"}
  /\ fd[w] # Unset => file[fd[w]] # Unset
  /\ at[w] # "idle" => counted[ProcOf[w]] # Unset
OneLocks == \A v, w \in flocked : fd[v] = fd[w] => v = w
\* Who still writes to the file before the last has seen all lines of the last
\* begin, so that it cannot be full.
Fresh == \A w \in Writers :
  /\ at[w] # "idle" => since[w] <= Cap
  /\ fd[w] = "old" /\ file["here"] # Unset => file["here"] <= since[w]
MayReplace == \A w \in Writers :
  at[w] = "replace" => fd[w] = "here" /\ file["here"] > Cap
EventInv == EventShape /\ Held /\ OneLocks /\ Fresh /\ MayReplace

LEMMA EventsStart == Events!Init => EventInv
BY WebConstants DEF FileConstants, Events!Init, EventInv, EventShape, Held, OneLocks, Fresh, MayReplace, Events!Procs

LEMMA EventSteps ==
  EventInv /\ [Events!Next]_events => EventInv' /\ (Events!KeepsTheNewest \/ UNCHANGED events)
<1> SUFFICES ASSUME EventInv, [Events!Next]_events
             PROVE  EventInv' /\ (Events!KeepsTheNewest \/ UNCHANGED events)
  OBVIOUS
<1> USE WebConstants DEF FileConstants
<1>0. EventShape /\ Held /\ OneLocks /\ Fresh /\ MayReplace
  BY DEF EventInv
<1>a. \A w \in Writers : ProcOf[w] \in Events!Procs
  BY DEF Events!Procs
<1>1. ASSUME NEW w \in Writers, Events!Begin(w) PROVE EventInv' /\ Events!KeepsTheNewest
  <2>1. PICK step \in {"rotate", "append"}, n \in Nat :
             /\ at' = [at EXCEPT ![w] = step] /\ since' = [since EXCEPT ![w] = 0]
             /\ counted' = [counted EXCEPT ![ProcOf[w]] = n]
    BY <1>0, <1>1, <1>a DEF Events!Begin, Events!Goto, EventShape
  <2>2. at[w] = "idle" /\ UNCHANGED <<file, fd, flocked>>
    BY <1>1 DEF Events!Begin
  <2>3. EventShape'
    BY <1>0, <1>a, <2>1, <2>2 DEF EventShape
  <2>4. Held'
    BY <1>0, <1>a, <2>1, <2>2 DEF EventShape, Held
  <2>5. OneLocks' /\ MayReplace'
    BY <1>0, <2>1, <2>2 DEF EventShape, OneLocks, MayReplace
  <2>6. Fresh'
    BY <1>0, <2>1, <2>2 DEF EventShape, Held, Fresh
  <2>7. Events!KeepsTheNewest
    BY <1>0, <2>1, <2>2 DEF EventShape, Events!KeepsTheNewest
  <2> QED
    BY <2>3, <2>4, <2>5, <2>6, <2>7 DEF EventInv
<1>2. ASSUME NEW w \in Writers, Events!OpenToRotate(w) \/ Events!OpenToAppend(w)
      PROVE  EventInv' /\ Events!KeepsTheNewest
  <2>1. PICK step \in {"flock", "write"} : at' = [at EXCEPT ![w] = step]
    BY <1>2 DEF Events!OpenToRotate, Events!OpenToAppend, Events!Goto
  <2>2. /\ at[w] \in {"rotate", "append"} /\ fd' = [fd EXCEPT ![w] = "here"]
        /\ file' = IF file["here"] = Unset THEN [file EXCEPT !["here"] = 0] ELSE file
        /\ UNCHANGED <<counted, flocked, since>>
    BY <1>2 DEF Events!OpenToRotate, Events!OpenToAppend, Events!Open
  <2>3. EventShape'
    BY <1>0, <2>1, <2>2 DEF EventShape
  <2>4. Held'
    BY <1>0, <2>1, <2>2 DEF EventShape, Held
  <2>5. OneLocks' /\ MayReplace'
    BY <1>0, <2>1, <2>2 DEF EventShape, Held, OneLocks, MayReplace
  <2>6. Fresh'
    BY <1>0, <2>1, <2>2 DEF EventShape, Held, Fresh
  <2>7. Events!KeepsTheNewest
    BY <1>0, <2>1, <2>2 DEF EventShape, Events!KeepsTheNewest
  <2> QED
    BY <2>3, <2>4, <2>5, <2>6, <2>7 DEF EventInv
<1>3. ASSUME NEW w \in Writers, Events!RotateFails(w) \/ (Events!Stat(w) /\ ~Events!Overgrown(w))
      PROVE  EventInv' /\ Events!KeepsTheNewest
  <2>1. /\ at[w] \in {"rotate", "stat"} /\ at' = [at EXCEPT ![w] = "append"]
        /\ fd' = [fd EXCEPT ![w] = Unset] /\ flocked' = flocked \ {w}
        /\ counted' = [counted EXCEPT ![ProcOf[w]] = 0]
        /\ UNCHANGED <<file, since>>
    BY <1>3 DEF Events!RotateFails, Events!Stat, Events!Rotated, Events!Goto
  <2>3. EventShape'
    BY <1>0, <1>a, <2>1 DEF EventShape
  <2>4. Held'
    BY <1>0, <1>a, <2>1 DEF EventShape, Held
  <2>5. OneLocks' /\ MayReplace'
    BY <1>0, <2>1 DEF EventShape, OneLocks, MayReplace
  <2>6. Fresh'
    BY <1>0, <2>1 DEF EventShape, Held, Fresh
  <2>7. Events!KeepsTheNewest
    BY <1>0, <2>1 DEF EventShape, Events!KeepsTheNewest
  <2> QED
    BY <2>3, <2>4, <2>5, <2>6, <2>7 DEF EventInv
<1>4. ASSUME NEW w \in Writers, Events!Flock(w) PROVE EventInv' /\ Events!KeepsTheNewest
  <2>1. /\ at[w] = "flock" /\ at' = [at EXCEPT ![w] = "stat"] /\ flocked' = flocked \cup {w}
        /\ \A v \in flocked : fd[v] # fd[w]
        /\ UNCHANGED <<file, counted, fd, since>>
    BY <1>4 DEF Events!Flock, Events!Goto
  <2>3. EventShape'
    BY <1>0, <2>1 DEF EventShape
  <2>4. Held'
    BY <1>0, <2>1 DEF EventShape, Held
  <2>5. OneLocks' /\ MayReplace'
    BY <1>0, <2>1 DEF EventShape, OneLocks, MayReplace
  <2>6. Fresh'
    BY <1>0, <2>1 DEF EventShape, Held, Fresh
  <2>7. Events!KeepsTheNewest
    BY <1>0, <2>1 DEF EventShape, Events!KeepsTheNewest
  <2> QED
    BY <2>3, <2>4, <2>5, <2>6, <2>7 DEF EventInv
<1>5. ASSUME NEW w \in Writers, Events!Stat(w), Events!Overgrown(w)
      PROVE  EventInv' /\ Events!KeepsTheNewest
  <2>1. /\ at[w] = "stat" /\ at' = [at EXCEPT ![w] = "replace"]
        /\ UNCHANGED <<file, counted, fd, flocked, since>>
    BY <1>5 DEF Events!Stat, Events!Goto
  <2>2. fd[w] = "here" /\ file["here"] > Cap
    BY <1>0, <1>5, <2>1 DEF EventShape, Held, Fresh, Events!Overgrown
  <2>3. EventShape'
    BY <1>0, <2>1 DEF EventShape
  <2>4. Held'
    BY <1>0, <2>1 DEF EventShape, Held
  <2>5. OneLocks' /\ MayReplace'
    BY <1>0, <2>1, <2>2 DEF EventShape, OneLocks, MayReplace
  <2>6. Fresh'
    BY <1>0, <2>1 DEF EventShape, Held, Fresh
  <2>7. Events!KeepsTheNewest
    BY <1>0, <2>1 DEF EventShape, Events!KeepsTheNewest
  <2> QED
    BY <2>3, <2>4, <2>5, <2>6, <2>7 DEF EventInv
<1>6. ASSUME NEW w \in Writers, Events!Replace(w) PROVE EventInv' /\ Events!KeepsTheNewest
  <2>1. at[w] = "replace" /\ fd[w] = "here" /\ file["here"] # Unset /\ file["here"] > Cap
    BY <1>0, <1>6 DEF Events!Replace, Held, MayReplace
  <2>2. /\ at' = [at EXCEPT ![w] = "append"] /\ flocked' = flocked \ {w}
        /\ counted' = [counted EXCEPT ![ProcOf[w]] = 0]
        /\ file' = [file EXCEPT !["old"] = file["here"], !["here"] = Unset]
        /\ since' = since
    BY <1>6, <2>1 DEF Events!Replace, Events!Goto
  <2>a. \A v \in Writers : fd[v] # "old"
    BY <1>0, <2>1 DEF EventShape, Held, Fresh
  <2>b. /\ fd' \in [Writers -> {"here", "old", Unset}]
        /\ fd'[w] = Unset /\ \A v \in Writers \ {w} : fd'[v] = IF fd[v] = "here" THEN "old" ELSE Unset
    BY <1>0, <1>6, <2>1, <2>a DEF Events!Replace, Events!Followed, EventShape
  <2>c. file' \in [{"here", "old"} -> Nat \cup {Unset}] /\ file'["old"] # Unset /\ file'["here"] = Unset
    BY <1>0, <2>1, <2>2 DEF EventShape
  <2>3. EventShape'
    BY <1>0, <1>a, <2>2, <2>b, <2>c DEF EventShape
  <2>4. Held'
    BY <1>0, <1>a, <2>2, <2>a, <2>b, <2>c DEF EventShape, Held
  <2>5. OneLocks' /\ MayReplace'
    <3>1. \A v \in flocked' : v \in flocked /\ v # w /\ fd[v] = "here"
      BY <1>0, <2>2, <2>a DEF EventShape, Held
    <3>2. flocked' = {}
      BY <1>0, <2>1, <3>1 DEF EventShape, OneLocks
    <3> QED
      BY <2>3, <3>2 DEF OneLocks, MayReplace, EventShape
  <2>6. Fresh'
    BY <1>0, <2>1, <2>2, <2>c DEF EventShape, Held, Fresh
  <2>7. Events!KeepsTheNewest
    BY <1>0, <2>1, <2>2 DEF EventShape, Events!KeepsTheNewest
  <2> QED
    BY <2>3, <2>4, <2>5, <2>6, <2>7 DEF EventInv
<1>7. ASSUME NEW w \in Writers, Events!OpenFails(w) PROVE EventInv' /\ Events!KeepsTheNewest
  <2>1. /\ at[w] = "append" /\ at' = [at EXCEPT ![w] = "idle"]
        /\ UNCHANGED <<file, counted, fd, flocked, since>>
    BY <1>7 DEF Events!OpenFails, Events!Goto
  <2>3. EventShape'
    BY <1>0, <2>1 DEF EventShape
  <2>4. Held'
    BY <1>0, <2>1 DEF EventShape, Held
  <2>5. OneLocks' /\ MayReplace'
    BY <1>0, <2>1 DEF EventShape, OneLocks, MayReplace
  <2>6. Fresh'
    BY <1>0, <2>1 DEF EventShape, Held, Fresh
  <2>7. Events!KeepsTheNewest
    BY <1>0, <2>1 DEF EventShape, Events!KeepsTheNewest
  <2> QED
    BY <2>3, <2>4, <2>5, <2>6, <2>7 DEF EventInv
<1>8. ASSUME NEW w \in Writers, Events!Write(w) PROVE EventInv' /\ Events!KeepsTheNewest
  <2>1. PICK f \in {"here", "old"} : f = fd[w]
    BY <1>0, <1>8 DEF Events!Write, EventShape, Held
  <2>2. PICK n \in Nat : n = file[f]
    BY <1>0, <2>1 DEF EventShape, Held
  <2>3. PICK k \in Nat : k = counted[ProcOf[w]]
    BY <1>0, <1>8, <1>a DEF Events!Write, EventShape, Held
  <2>4. /\ at[w] = "write" /\ at' = [at EXCEPT ![w] = "idle"]
        /\ fd' = [fd EXCEPT ![w] = Unset] /\ file' = [file EXCEPT ![f] = n + 1]
        /\ counted' = [counted EXCEPT ![ProcOf[w]] = k + 1] /\ flocked' = flocked
    BY <1>0, <1>8, <2>1, <2>2, <2>3 DEF Events!Write, Events!Goto, EventShape
  <2>5. /\ since' \in [Writers -> Nat]
        /\ \A v \in Writers : at'[v] # "idle" => since'[v] = since[v] + 1 /\ since[v] < Cap
    BY <1>0, <1>8, <2>4 DEF Events!Write, Events!Prompt, EventShape
  <2>6. EventShape'
    <3>1. file' \in [{"here", "old"} -> Nat \cup {Unset}] /\ counted' \in [Events!Procs -> Nat \cup {Unset}]
      BY <1>0, <1>a, <2>4 DEF EventShape
    <3>2. fd' \in [Writers -> {"here", "old", Unset}]
      BY <1>0, <2>4 DEF EventShape
    <3>3. /\ at' \in [Writers -> {"idle", "rotate", "flock", "stat", "replace", "append", "write"}]
          /\ flocked' = {v \in Writers : at'[v] \in {"stat", "replace"}}
      BY <1>0, <2>4 DEF EventShape
    <3> QED
      BY <2>5, <3>1, <3>2, <3>3 DEF EventShape
  <2>7. Held'
    BY <1>0, <1>a, <2>2, <2>4 DEF EventShape, Held
  <2>8. OneLocks'
    BY <1>0, <2>4 DEF EventShape, OneLocks
  <2>9. MayReplace'
    BY <1>0, <2>1, <2>2, <2>4 DEF EventShape, MayReplace
  <2>10. Fresh'
    <3> SUFFICES ASSUME NEW v \in Writers
                 PROVE  /\ at'[v] # "idle" => since'[v] <= Cap
                        /\ fd'[v] = "old" /\ file'["here"] # Unset => file'["here"] <= since'[v]
      BY DEF Fresh
    <3>1. at'[v] # "idle" => since'[v] <= Cap
      BY <1>0, <2>5 DEF EventShape
    <3>2. ASSUME fd'[v] = "old", file'["here"] # Unset PROVE file'["here"] <= since'[v]
      <4>1. v # w /\ fd[v] = "old" /\ at'[v] # "idle"
        BY <1>0, <2>4, <3>2 DEF EventShape, Held
      <4>2. since'[v] = since[v] + 1 /\ since[v] \in Nat
        BY <1>0, <2>5, <4>1 DEF EventShape
      <4>3. file["here"] # Unset => file["here"] <= since[v]
        BY <1>0, <4>1 DEF Fresh
      <4> QED
        BY <1>0, <2>2, <2>4, <3>2, <4>2, <4>3 DEF EventShape
    <3> QED
      BY <3>1, <3>2
  <2>11. Events!KeepsTheNewest
    BY <1>0, <2>1, <2>2, <2>4 DEF EventShape, Events!KeepsTheNewest
  <2> QED
    BY <2>6, <2>7, <2>8, <2>9, <2>10, <2>11 DEF EventInv
<1>9. ASSUME NEW p \in Events!Procs, Events!Ends(p) PROVE EventInv' /\ Events!KeepsTheNewest
  <2> DEFINE mine == {w \in Writers : ProcOf[w] = p}
  <2>1. /\ at' = [w \in Writers |-> IF w \in mine THEN "idle" ELSE at[w]]
        /\ fd' = [w \in Writers |-> IF w \in mine THEN Unset ELSE fd[w]]
        /\ since' = [w \in Writers |-> IF w \in mine THEN 0 ELSE since[w]]
        /\ flocked' = flocked \ mine /\ counted' = [counted EXCEPT ![p] = Unset] /\ file' = file
    BY <1>9 DEF Events!Ends
  <2>3. EventShape'
    BY <1>0, <2>1 DEF EventShape
  <2>4. Held'
    BY <1>0, <2>1 DEF EventShape, Held
  <2>5. OneLocks' /\ MayReplace'
    BY <1>0, <2>1 DEF EventShape, OneLocks, MayReplace
  <2>6. Fresh'
    BY <1>0, <2>1 DEF EventShape, Held, Fresh
  <2>7. Events!KeepsTheNewest
    BY <1>0, <2>1 DEF EventShape, Events!KeepsTheNewest
  <2> QED
    BY <2>3, <2>4, <2>5, <2>6, <2>7 DEF EventInv
<1>10. CASE UNCHANGED events
  BY <1>0, <1>10 DEF events, EventInv, EventShape, Held, OneLocks, Fresh, MayReplace
<1> QED
  BY <1>1, <1>2, <1>3, <1>4, <1>5, <1>6, <1>7, <1>8, <1>9, <1>10 DEF Events!Next, Events!Line

\* The log and the audit trail give up nothing newer than what they keep, but where
\* two rotate the trail at once (_rotate, eventlog.py; _rotate_if_needed, audit.py).
THEOREM RotationsKeepTheNewest == MCSpec => NewestSurvive
<1>1. MCInit => EventInv /\ AuditInv
  BY EventsStart, AuditStarts DEF MCInit
<1>2. /\ EventInv /\ AuditInv /\ [MCNext]_<<part, vars, log, door, files>> => (EventInv /\ AuditInv)'
      /\ EventInv /\ AuditInv /\ [MCNext]_<<part, vars, log, door, files>>
           => [Events!KeepsTheNewest /\ Audit!KeepsTheNewest]_<<events, audit>>
  <2> SUFFICES ASSUME EventInv, AuditInv, [MCNext]_<<part, vars, log, door, files>>
               PROVE  /\ EventInv' /\ AuditInv'
                      /\ [Events!KeepsTheNewest /\ Audit!KeepsTheNewest]_<<events, audit>>
    OBVIOUS
  <2>1. [Events!Next]_events /\ [Audit!Next]_audit /\ (UNCHANGED events \/ UNCHANGED audit)
    BY DEF MCNext, files, events, audit
  <2>2. EventInv' /\ AuditInv'
    BY <2>1, EventSteps, AuditSteps
  <2>3. Events!KeepsTheNewest \/ UNCHANGED events
    BY <2>1, EventSteps
  <2>4. Audit!KeepsTheNewest \/ UNCHANGED audit
    BY <2>1, AuditSteps
  <2>5. UNCHANGED events => Events!KeepsTheNewest
    BY DEF events, Events!KeepsTheNewest
  <2>6. UNCHANGED audit => Audit!KeepsTheNewest
    BY DEF audit, Audit!KeepsTheNewest
  <2> QED
    BY <2>2, <2>3, <2>4, <2>5, <2>6
<1> QED
  BY <1>1, <1>2, PTL DEF MCSpec, NewestSurvive

-----------------------------------------------------------------------------
(* Getting in.                                                             *)

Guests(p) == BrowsersOf[p]

\* The scheme under which the application sees a browser, however the edge moves.
Hop(b) == IF b.by = "proxy" /\ "proxy" \in server.trusted THEN b.https ELSE server.https

DoorShape(p) ==
  /\ minted \in Nat /\ edgeAt \in Door(p)!Addresses
  /\ fails \in [Door(p)!Sources -> Nat] /\ own \in [Guests(p) -> Nat]
  /\ jar \in [Guests(p) -> SUBSET {"plain", "secure"}] /\ member \subseteq Guests(p)
  /\ server.on \in BOOLEAN /\ (~server.on => member = {})
\* A domain is https and what is printed; the edge is trusted only then; whatever is
\* printed is a name it answers to; and a key is printed at a first run only.
ServerIsSound(p) ==
  server.on =>
    /\ server.https \in BOOLEAN /\ (server.https => server.url = "domain")
    /\ server.trusted \subseteq Door(p)!Addresses \cup {"proxy"}
    /\ \A a \in Door(p)!Addresses : a \in server.trusted => server.https
    /\ server.url \in Door(p)!Hosts /\ ~server.warned =>
         "*" \in server.names \/ server.url \in server.names \cup {"localhost"}
    /\ server.key # 0 => server.first_run
NobodyYet(p) == accounts = {} => key = minted /\ \A b \in Guests(p) : jar[b] = {}
Blamed(p) == \A b \in Guests(p) : fails[b.name] <= own[b]
Cookies(p) ==
  \A b \in member : server.url = b.host => Door(p)!cookie_name(Hop(b)) \in jar[b]
DoorInv(p) ==
  /\ DoorShape(p) /\ ServerIsSound(p) /\ NobodyYet(p) /\ Blamed(p) /\ Cookies(p)

LEMMA TheBrowsers ==
  ASSUME NEW p \in {"edge", "lab"}, NEW b \in Guests(p)
  PROVE  /\ b.https \in BOOLEAN /\ b.host \in Door(p)!Hosts /\ b.by \in {"none", "edge", "proxy"}
         /\ b.name \in Door(p)!Sources /\ b.name \notin Door(p)!Addresses \cup {"proxy"}
         /\ (b.host = "domain" => b.https)
         /\ \A d \in Guests(p) : d.name = b.name => d = b
<1>1. b \in Door(p)!Browser
  BY WebConstants DEF DoorConstants, Guests
<1>2. b.https \in BOOLEAN /\ b.host \in Door(p)!Hosts /\ b.by \in {"none", "edge", "proxy"}
  BY <1>1 DEF Door!Browser
<1>3. b.name \in Door(p)!Sources
  BY DEF Door!Sources, Guests
<1>4. b.name \notin Door(p)!Addresses \cup {"proxy"} /\ (b.host = "domain" => b.https)
  BY WebConstants DEF DoorConstants, Guests
<1>5. \A d \in Guests(p) : d.name = b.name => d = b
  BY WebConstants DEF DoorConstants, Guests
<1> QED
  BY <1>2, <1>3, <1>4, <1>5

LEMMA PeersAreSources ==
  ASSUME NEW p \in {"edge", "lab"}, NEW b \in Guests(p), edgeAt \in Door(p)!Addresses
  PROVE  /\ Door(p)!Peer(b) = IF b.by = "edge" THEN edgeAt ELSE IF b.by = "proxy" THEN "proxy" ELSE b.name
         /\ Door(p)!Source(b) \in Door(p)!Sources
         /\ \A d \in Guests(p) : Door(p)!Source(b) = d.name => b = d
         /\ Door(p)!Told(b) => Door(p)!Source(b) = b.name
<1>1. Door(p)!Peer(b) = IF b.by = "edge" THEN edgeAt ELSE IF b.by = "proxy" THEN "proxy" ELSE b.name
  BY TheBrowsers DEF Door!Peer
<1>2. Door(p)!Source(b) \in {b.name, Door(p)!Peer(b)}
  BY DEF Door!Source
<1>3. Door(p)!Peer(b) \in Door(p)!Sources
  BY <1>1, TheBrowsers DEF Door!Sources
<1>4. \A d \in Guests(p) : Door(p)!Peer(b) = d.name => b = d
  BY <1>1, TheBrowsers
<1>5. \A d \in Guests(p) : b.name = d.name => b = d
  BY TheBrowsers
<1>6. Door(p)!Told(b) => Door(p)!Source(b) = b.name
  BY <1>1, TheBrowsers DEF Door!Told, Door!Source
<1> QED
  BY <1>1, <1>2, <1>3, <1>4, <1>5, <1>6, TheBrowsers

\* Where the printed address was typed, the scheme does not depend on whether the
\* edge is trusted.
LEMMA SchemeOfHop ==
  ASSUME NEW p \in {"edge", "lab"}, NEW b \in Guests(p), DoorShape(p), ServerIsSound(p), server.on,
         server.url = b.host
  PROVE  /\ Door(p)!cookie_name(Door(p)!Https(b)) = Door(p)!cookie_name(Hop(b))
         /\ Hop(b) \in BOOLEAN /\ (server.https => b.https)
<1>1. /\ server.https \in BOOLEAN /\ (server.https => b.https) /\ b.https \in BOOLEAN
      /\ b.by \in {"none", "edge", "proxy"}
  BY TheBrowsers DEF ServerIsSound
<1>2. Door(p)!Peer(b) = IF b.by = "edge" THEN edgeAt ELSE IF b.by = "proxy" THEN "proxy" ELSE b.name
  BY PeersAreSources DEF DoorShape
<1>3. CASE b.by = "none"
  <2>1. Door(p)!Peer(b) \notin server.trusted
    BY <1>2, <1>3, TheBrowsers DEF ServerIsSound
  <2> QED
    BY <1>1, <1>3, <2>1 DEF Door!Https, Hop
<1>4. CASE b.by = "edge"
  <2>1. Door(p)!Peer(b) \in server.trusted => server.https /\ b.https
    BY <1>1, <1>2, <1>4 DEF ServerIsSound, DoorShape
  <2> QED
    BY <1>1, <1>4, <2>1 DEF Door!Https, Hop, Door!cookie_name
<1>5. CASE b.by = "proxy"
  BY <1>1, <1>2, <1>5 DEF Door!Https, Hop
<1> QED
  BY <1>1, <1>3, <1>4, <1>5

LEMMA DoorWorks ==
  ASSUME NEW p \in {"edge", "lab"}, DoorInv(p)
  PROVE  Door(p)!PrintedAddressWorks
<1> SUFFICES ASSUME NEW b \in Guests(p), Door(p)!Reaches(b), server.url = b.host, ~server.warned
             PROVE  Door(p)!Works(b)
  BY DEF Door!PrintedAddressWorks, Guests
<1>0. DoorShape(p) /\ ServerIsSound(p) /\ NobodyYet(p) /\ Blamed(p) /\ Cookies(p) /\ server.on
  BY DEF DoorInv, Door!Reaches
<1>1. Door(p)!host_ok(b) /\ ~Door(p)!cross_site(b)
  BY <1>0, TheBrowsers DEF ServerIsSound, Door!host_ok, Door!cross_site
<1>2. Door(p)!Page(b) # "refused" /\ Door(p)!signin_gate(b) # "refused"
  BY <1>1 DEF Door!Page, Door!signin_gate
<1>3. ASSUME b \in member
      PROVE  Door(p)!Page(b) = "console" /\ \A seen \in {TRUE, b.by = "none"} : Door(p)!LogOpens(b, seen)
  <2>1. Door(p)!cookie_name(Door(p)!Https(b)) \in jar[b]
    BY <1>0, <1>3, SchemeOfHop DEF Cookies
  <2>2. Door(p)!Page(b) = "console"
    BY <1>1, <2>1 DEF Door!Page, Door!Recognised
  <2>3. Door(p)!LogOpens(b, TRUE)
    BY <1>1, <2>1 DEF Door!LogOpens
  <2>4. Door(p)!LogOpens(b, FALSE)
    <3>1. server.https \in BOOLEAN /\ (server.https => b.https) /\ b.https \in BOOLEAN
      BY <1>0, SchemeOfHop, TheBrowsers DEF ServerIsSound
    <3>2. jar[b] \subseteq {"plain", "secure"}
      BY <1>0 DEF DoorShape
    <3>3. CASE server.https
      <4>1. Door(p)!cookie_name(Door(p)!Https(b)) = "secure"
        BY <3>1, <3>3 DEF Door!Https, Door!cookie_name
      <4>2. Door(p)!cookie_name(server.https) = "secure"
        BY <3>3 DEF Door!cookie_name
      <4> QED
        BY <1>1, <2>1, <4>1, <4>2 DEF Door!LogOpens
    <3>4. CASE ~server.https
      <4>1. Door(p)!cookie_name(server.https) = "plain"
        BY <3>4 DEF Door!cookie_name
      <4>2. "plain" \in jar[b] \/ "secure" \in jar[b]
        BY <2>1 DEF Door!cookie_name
      <4> QED
        BY <1>1, <4>1, <4>2 DEF Door!LogOpens
    <3> QED
      BY <3>3, <3>4
  <2> QED
    BY <2>2, <2>3, <2>4
<1>4. Door(p)!signin_retry_after(b) => own[b] >= Limit \/ ~Door(p)!Told(b)
  <2>1. Door(p)!Told(b) => Door(p)!Source(b) = b.name
    BY <1>0, PeersAreSources DEF DoorShape
  <2>2. fails[b.name] <= own[b] /\ fails[b.name] \in Nat /\ own[b] \in Nat /\ Limit \in Nat
    BY <1>0, TheBrowsers, WebConstants DEF Blamed, DoorShape, DoorConstants
  <2> QED
    BY <2>1, <2>2 DEF Door!signin_retry_after
<1>5. Door(p)!signin_gate(b) = "later" => own[b] >= Limit \/ ~Door(p)!Told(b)
  BY <1>1, <1>4 DEF Door!signin_gate
<1>6. ASSUME server.key = minted, server.key # 0, server.key \notin late, accounts = {}
      PROVE  /\ Door(p)!Page(b) = "setup"
             /\ Door(p)!claim_gate(b, server.key) # "good" => own[b] >= Limit \/ ~Door(p)!Told(b)
  <2>1. key = server.key /\ ~Door(p)!Recognised(b) /\ Door(p)!first_run_open
    BY <1>0, <1>6 DEF NobodyYet, ServerIsSound, Door!Recognised, Door!first_run_open
  <2>2. Door(p)!Page(b) = "setup"
    BY <1>1, <1>6, <2>1 DEF Door!Page
  <2>3. CASE Door(p)!signin_retry_after(b)
    BY <1>4, <2>2, <2>3
  <2>4. CASE ~Door(p)!signin_retry_after(b)
    <3>1. Door(p)!claim_gate(b, server.key) = "good"
      BY <1>1, <1>6, <2>1, <2>4 DEF Door!claim_gate
    <3> QED
      BY <2>2, <3>1
  <2> QED
    BY <2>3, <2>4
<1> QED
  BY <1>2, <1>3, <1>5, <1>6 DEF Door!Works

LEMMA DoorOpens == ASSUME NEW p \in {"edge", "lab"}, Door(p)!Init PROVE DoorInv(p)
<1>1. DoorShape(p)
  BY DEF Door!Init, DoorShape, Door!Off, Door!Addresses, Guests
<1>2. ServerIsSound(p) /\ NobodyYet(p) /\ Blamed(p) /\ Cookies(p)
  BY TheBrowsers DEF Door!Init, ServerIsSound, NobodyYet, Blamed, Cookies, Door!Off, Guests
<1> QED
  BY <1>1, <1>2 DEF DoorInv

\* What serve prints is what it answers to.
LEMMA PrintedIsNamed ==
  ASSUME NEW p \in {"edge", "lab"}, NEW o \in OptionsOf[p], Door(p)!Start(o)
  PROVE  server'.url \in Door(p)!Hosts /\ ~server'.warned =>
           "*" \in server'.names \/ server'.url \in server'.names \cup {"localhost"}
<1>1. o \in Door(p)!Option
  BY WebConstants DEF DoorConstants
<1>2. /\ server'.url = Door(p)!PrintedHost(o) /\ server'.warned = Door(p)!Warned(o)
      /\ server'.names = Door(p)!normalize_allow_host(o.allow)
                            \cup (IF Door(p)!served_domain(o) THEN {"domain"} ELSE {})
  BY DEF Door!Start
<1>3. CASE Door(p)!served_domain(o)
  BY <1>2, <1>3 DEF Door!PrintedHost
<1>4. CASE ~Door(p)!served_domain(o) /\ Door(p)!Bind(o) = "loopback"
  BY <1>2, <1>4 DEF Door!PrintedHost
<1>5. CASE ~Door(p)!served_domain(o) /\ Door(p)!Bind(o) # "loopback"
  <2> DEFINE typed == Door(p)!normalize_allow_host(o.allow) \ {"*"}
  <2>1. CASE typed # {}
    <3>1. Door(p)!PrintedHost(o) \in typed
      BY <1>5, <2>1 DEF Door!PrintedHost
    <3> QED
      BY <1>2, <3>1
  <2>2. CASE typed = {}
    <3>1. server'.url = IF Door(p)!Bind(o) = "every" THEN "?" ELSE "address"
      BY <1>2, <1>5, <2>2 DEF Door!PrintedHost
    <3>2. CASE o.allow = {}
      <4>1. server'.warned
        BY <1>2, <1>5, <3>2 DEF Door!Warned
      <4> QED
        BY <4>1
    <3>3. CASE o.allow # {}
      <4>1. "*" \in Door(p)!normalize_allow_host(o.allow)
        BY <2>2, <3>3 DEF Door!normalize_allow_host
      <4> QED
        BY <1>2, <4>1
    <3> QED
      BY <3>2, <3>3
  <2> QED
    BY <2>1, <2>2
<1> QED
  BY <1>3, <1>4, <1>5

LEMMA ServerStarts ==
  ASSUME NEW p \in {"edge", "lab"}, NEW o \in OptionsOf[p], DoorInv(p), Door(p)!Serve(o)
  PROVE  DoorInv(p)'
<1>0. DoorShape(p) /\ ServerIsSound(p) /\ NobodyYet(p) /\ Blamed(p) /\ Cookies(p)
  BY DEF DoorInv
<1>1. /\ ~server.on /\ member = {}
      /\ UNCHANGED <<accounts, late, edgeAt, fails, jar, claim, own, member>>
  BY <1>0 DEF Door!Serve, DoorShape
<1>2. CASE Door(p)!NeedsEmail(o) \/ Door(p)!NeedsAccount(o) \/ Door(p)!PlainHttp(o)
  <2>1. UNCHANGED <<minted, key, server>>
    BY <1>2 DEF Door!Serve
  <2> QED
    BY <1>0, <1>1, <2>1 DEF DoorInv, DoorShape, ServerIsSound, NobodyYet, Blamed, Cookies
<1>3. CASE Door(p)!Start(o)
  <2>0. o \in Door(p)!Option
    BY WebConstants DEF DoorConstants
  <2>1. /\ minted' = IF accounts = {} THEN minted + 1 ELSE minted
        /\ accounts = {} => key' = minted'
        /\ server'.on = TRUE /\ server'.https = Door(p)!served_domain(o)
        /\ server'.first_run = (accounts = {})
        /\ server'.key = (IF accounts = {} THEN minted' ELSE 0)
        /\ server'.url = Door(p)!PrintedHost(o)
        /\ server'.trusted = Door(p)!usable_trusted(o)
                               \cup (IF Door(p)!served_domain(o) THEN {edgeAt} ELSE {})
    BY <1>3 DEF Door!Start
  <2>2. DoorShape(p)'
    <3>1. minted' \in Nat /\ server'.on
      BY <1>0, <2>1 DEF DoorShape
    <3>2. UNCHANGED <<edgeAt, fails, own, jar, member>>
      BY <1>1
    <3> QED
      BY <1>0, <2>1, <3>1, <3>2 DEF DoorShape, Door!Sources
  <2>3. ServerIsSound(p)'
    <3>1. server'.https \in BOOLEAN
      BY <2>1 DEF Door!served_domain
    <3>2. server'.https => server'.url = "domain"
      BY <2>1 DEF Door!PrintedHost
    <3>3. Door(p)!usable_trusted(o) \subseteq {"proxy"}
      BY <2>0 DEF Door!Option, Door!usable_trusted
    <3>4. /\ server'.trusted \subseteq Door(p)!Addresses \cup {"proxy"}
          /\ \A a \in Door(p)!Addresses : a \in server'.trusted => server'.https
      BY <1>0, <2>1, <3>3 DEF DoorShape, Door!Addresses
    <3>5. server'.key # 0 => server'.first_run
      BY <2>1
    <3> QED
      BY <1>3, <3>1, <3>2, <3>4, <3>5, PrintedIsNamed DEF ServerIsSound
  <2>4. NobodyYet(p)' /\ Blamed(p)' /\ Cookies(p)'
    BY <1>0, <1>1, <2>1 DEF NobodyYet, Blamed, Cookies
  <2> QED
    BY <2>2, <2>3, <2>4 DEF DoorInv
<1> QED
  BY <1>2, <1>3 DEF Door!Serve

\* A browser that has signed in keeps the cookie, if it typed what was printed.
LEMMA CookieIsKept ==
  ASSUME NEW p \in {"edge", "lab"}, NEW b \in Guests(p), DoorShape(p), ServerIsSound(p), server.on,
         Door(p)!set_session_cookie(b)
  PROVE  /\ jar' \in [Guests(p) -> SUBSET {"plain", "secure"}]
         /\ \A d \in Guests(p) : jar[d] \subseteq jar'[d]
         /\ server.url = b.host => Door(p)!cookie_name(Hop(b)) \in jar'[b]
<1> DEFINE c == Door(p)!cookie_name(Door(p)!Https(b))
<1>1. c \in {"plain", "secure"} /\ jar \in [Guests(p) -> SUBSET {"plain", "secure"}]
  BY DEF DoorShape, Door!cookie_name
<1>2. jar' = jar \/ jar' = [jar EXCEPT ![b] = @ \cup {c}]
  BY DEF Door!set_session_cookie
<1>3. jar' \in [Guests(p) -> SUBSET {"plain", "secure"}] /\ \A d \in Guests(p) : jar[d] \subseteq jar'[d]
  <2> HIDE DEF c
  <2> QED
    BY <1>1, <1>2
<1>4. ASSUME server.url = b.host PROVE Door(p)!cookie_name(Hop(b)) \in jar'[b]
  <2>1. c = Door(p)!cookie_name(Hop(b)) /\ Hop(b) \in BOOLEAN /\ (server.https => b.https)
    BY <1>4, SchemeOfHop
  <2>2. c = "plain" \/ b.https
    BY <2>1 DEF Hop, Door!cookie_name
  <2>3. jar' = [jar EXCEPT ![b] = @ \cup {c}]
    BY <2>2 DEF Door!set_session_cookie
  <2> HIDE DEF c
  <2>4. c \in jar'[b]
    BY <1>1, <2>3
  <2> QED
    BY <2>1, <2>4
<1> QED
  BY <1>3, <1>4

LEMMA Forgiven ==
  ASSUME NEW p \in {"edge", "lab"}, NEW b \in Guests(p), DoorShape(p), Blamed(p), Door(p)!signin_ok(b), own' = own
  PROVE  fails' \in [Door(p)!Sources -> Nat] /\ Blamed(p)'
<1>1. PICK s \in Door(p)!Sources, n \in Nat : s = Door(p)!Source(b) /\ n = fails[s]
  BY PeersAreSources DEF DoorShape
<1>2. PICK k \in Nat : k <= n /\ fails' = [fails EXCEPT ![s] = k]
  <2>1. fails' = [fails EXCEPT ![s] = IF n <= 1 THEN 0 ELSE n - (n \div 2)]
    BY <1>1 DEF Door!signin_ok, DoorShape
  <2>2. (IF n <= 1 THEN 0 ELSE n - (n \div 2)) \in Nat /\ (IF n <= 1 THEN 0 ELSE n - (n \div 2)) <= n
    OBVIOUS
  <2> QED
    BY <2>1, <2>2
<1>3. \A d \in Guests(p) : fails'[d.name] <= own'[d]
  <2> SUFFICES ASSUME NEW d \in Guests(p) PROVE fails'[d.name] <= own'[d]
    OBVIOUS
  <2>1. d.name \in Door(p)!Sources /\ fails[d.name] <= own[d] /\ fails[d.name] \in Nat /\ own[d] \in Nat
    BY TheBrowsers DEF Blamed, DoorShape
  <2>2. fails'[d.name] = IF d.name = s THEN k ELSE fails[d.name]
    BY <1>2, <2>1 DEF DoorShape
  <2> QED
    BY <1>1, <1>2, <2>1, <2>2
<1> QED
  BY <1>2, <1>3 DEF DoorShape, Blamed

LEMMA FailuresAreOwn ==
  ASSUME NEW p \in {"edge", "lab"}, NEW b \in Guests(p), DoorShape(p), Blamed(p), Door(p)!signin_failed(b)
  PROVE  fails' \in [Door(p)!Sources -> Nat] /\ own' \in [Guests(p) -> Nat] /\ Blamed(p)'
<1>0. Limit \in Nat
  BY WebConstants DEF DoorConstants
<1>1. PICK s \in Door(p)!Sources, n \in Nat, m \in Nat : s = Door(p)!Source(b) /\ n = fails[s] /\ m = own[b]
  BY PeersAreSources DEF DoorShape
<1>2. /\ fails' = [fails EXCEPT ![s] = IF n < Limit THEN n + 1 ELSE n]
      /\ own' = [own EXCEPT ![b] = IF m < Limit THEN m + 1 ELSE m]
  BY <1>1 DEF Door!signin_failed, DoorShape
<1>3. \A d \in Guests(p) : fails'[d.name] <= own'[d]
  <2> SUFFICES ASSUME NEW d \in Guests(p) PROVE fails'[d.name] <= own'[d]
    OBVIOUS
  <2>1. d.name \in Door(p)!Sources /\ fails[d.name] <= own[d] /\ fails[d.name] \in Nat /\ own[d] \in Nat
    BY TheBrowsers DEF Blamed, DoorShape
  <2>2. /\ fails'[d.name] = IF d.name = s THEN (IF n < Limit THEN n + 1 ELSE n) ELSE fails[d.name]
        /\ own'[d] = IF d = b THEN (IF m < Limit THEN m + 1 ELSE m) ELSE own[d]
    BY <1>2, <2>1 DEF DoorShape
  <2>3. d.name = s => d = b
    BY <1>1, PeersAreSources DEF DoorShape
  <2> QED
    BY <1>0, <1>1, <2>1, <2>2, <2>3
<1> QED
  BY <1>0, <1>2, <1>3 DEF DoorShape, Blamed

LEMMA RequestsAreAnswered ==
  ASSUME NEW p \in {"edge", "lab"}, NEW b \in Guests(p), DoorInv(p), Door(p)!Request(b)
  PROVE  DoorInv(p)'
<1>0. DoorShape(p) /\ ServerIsSound(p) /\ NobodyYet(p) /\ Blamed(p) /\ Cookies(p)
  BY DEF DoorInv
<1>1. CASE Door(p)!SignOut(b)
  <2>1. /\ UNCHANGED <<accounts, minted, key, edgeAt, server, fails, own>>
        /\ jar' = [jar EXCEPT ![b] = {}] /\ member' = member \ {b}
    BY <1>1 DEF Door!SignOut, Door!files
  <2>2. DoorShape(p)'
    BY <1>0, <2>1 DEF DoorShape, Door!Sources
  <2>3. NobodyYet(p)' /\ Blamed(p)' /\ ServerIsSound(p)'
    BY <1>0, <2>1 DEF NobodyYet, Blamed, ServerIsSound, DoorShape
  <2>4. Cookies(p)'
    BY <1>0, <2>1 DEF Cookies, DoorShape, Hop, Door!cookie_name
  <2> QED
    BY <2>2, <2>3, <2>4 DEF DoorInv
<1>2. ASSUME NEW right \in BOOLEAN, Door(p)!SignIn(b, right) PROVE DoorInv(p)'
  <2>1. /\ server.on /\ accounts # {}
        /\ UNCHANGED <<accounts, minted, key, edgeAt, server>>
    BY <1>2 DEF Door!SignIn, Door!signin_gate, Door!Reaches, Door!files
  <2>2. NobodyYet(p)' /\ ServerIsSound(p)'
    BY <1>0, <2>1 DEF NobodyYet, ServerIsSound
  <2>3. CASE right
    <3>1. Door(p)!signin_ok(b) /\ Door(p)!set_session_cookie(b) /\ member' = member \cup {b} /\ own' = own
      BY <1>2, <2>3 DEF Door!SignIn
    <3>2. /\ jar' \in [Guests(p) -> SUBSET {"plain", "secure"}]
          /\ \A d \in Guests(p) : jar[d] \subseteq jar'[d]
          /\ server.url = b.host => Door(p)!cookie_name(Hop(b)) \in jar'[b]
      BY <1>0, <2>1, <3>1, CookieIsKept
    <3>3. fails' \in [Door(p)!Sources -> Nat] /\ Blamed(p)'
      BY <1>0, <3>1, Forgiven
    <3>4. DoorShape(p)'
      BY <1>0, <2>1, <3>1, <3>2, <3>3 DEF DoorShape, Door!Sources
    <3>5. Cookies(p)'
      BY <1>0, <2>1, <3>1, <3>2 DEF Cookies, DoorShape, Hop, Door!cookie_name
    <3> QED
      BY <2>2, <3>3, <3>4, <3>5 DEF DoorInv
  <2>4. CASE ~right
    <3>1. Door(p)!signin_failed(b) /\ UNCHANGED <<jar, member>>
      BY <1>2, <2>4 DEF Door!SignIn
    <3>2. fails' \in [Door(p)!Sources -> Nat] /\ own' \in [Guests(p) -> Nat] /\ Blamed(p)'
      BY <1>0, <3>1, FailuresAreOwn
    <3>3. DoorShape(p)'
      BY <1>0, <2>1, <3>1, <3>2 DEF DoorShape, Door!Sources
    <3>4. Cookies(p)'
      BY <1>0, <2>1, <3>1 DEF Cookies, Hop, Door!cookie_name
    <3> QED
      BY <2>2, <3>2, <3>3, <3>4 DEF DoorInv
  <2> QED
    BY <2>3, <2>4
<1>3. ASSUME NEW k, Door(p)!BeginClaim(b, k) PROVE DoorInv(p)'
  <2>1. UNCHANGED <<accounts, minted, key, edgeAt, server, jar, member>>
    BY <1>3 DEF Door!BeginClaim, Door!files
  <2>2. /\ fails' \in [Door(p)!Sources -> Nat] /\ own' \in [Guests(p) -> Nat] /\ Blamed(p)'
    <3>1. CASE UNCHANGED <<fails, own>>
      BY <1>0, <3>1 DEF DoorShape, Blamed
    <3>2. CASE Door(p)!signin_failed(b)
      BY <1>0, <3>2, FailuresAreOwn
    <3> QED
      BY <1>3, <3>1, <3>2 DEF Door!BeginClaim
  <2>3. DoorShape(p)'
    BY <1>0, <2>1, <2>2 DEF DoorShape, Door!Sources
  <2>4. NobodyYet(p)' /\ ServerIsSound(p)' /\ Cookies(p)'
    BY <1>0, <2>1 DEF NobodyYet, ServerIsSound, Cookies, Hop, Door!cookie_name
  <2> QED
    BY <2>2, <2>3, <2>4 DEF DoorInv
<1>4. ASSUME NEW accepted \in BOOLEAN, Door(p)!EndClaim(b, accepted) PROVE DoorInv(p)'
  <2>1. server.on /\ UNCHANGED <<minted, edgeAt, server, own>>
    BY <1>4 DEF Door!EndClaim
  <2>2. ServerIsSound(p)'
    BY <1>0, <2>1 DEF ServerIsSound
  <2>3. CASE UNCHANGED <<accounts, key, fails, jar, member>>
    BY <1>0, <2>1, <2>3 DEF DoorInv, DoorShape, ServerIsSound, NobodyYet, Blamed, Cookies, Hop, Door!cookie_name
  <2>4. CASE /\ accounts' = accounts \cup {b.name}
             /\ Door(p)!signin_ok(b) /\ Door(p)!set_session_cookie(b) /\ member' = member \cup {b}
    <3>2. /\ jar' \in [Guests(p) -> SUBSET {"plain", "secure"}]
          /\ \A d \in Guests(p) : jar[d] \subseteq jar'[d]
          /\ server.url = b.host => Door(p)!cookie_name(Hop(b)) \in jar'[b]
      BY <1>0, <2>1, <2>4, CookieIsKept
    <3>3. fails' \in [Door(p)!Sources -> Nat] /\ Blamed(p)'
      BY <1>0, <2>1, <2>4, Forgiven
    <3>4. DoorShape(p)'
      BY <1>0, <2>1, <2>4, <3>2, <3>3 DEF DoorShape, Door!Sources
    <3>5. Cookies(p)'
      BY <1>0, <2>1, <2>4, <3>2 DEF Cookies, DoorShape, Hop, Door!cookie_name
    <3>6. NobodyYet(p)'
      BY <2>4 DEF NobodyYet
    <3> QED
      BY <2>2, <3>3, <3>4, <3>5, <3>6 DEF DoorInv
  <2> QED
    BY <1>4, <2>3, <2>4 DEF Door!EndClaim
<1> QED
  BY <1>1, <1>2, <1>3, <1>4 DEF Door!Request

LEMMA DoorSteps ==
  ASSUME NEW p \in {"edge", "lab"}, DoorInv(p), Door(p)!Next
  PROVE  DoorInv(p)'
<1>0. DoorShape(p) /\ ServerIsSound(p) /\ NobodyYet(p) /\ Blamed(p) /\ Cookies(p)
  BY DEF DoorInv
<1>1. ASSUME NEW o \in OptionsOf[p], Door(p)!Serve(o) PROVE DoorInv(p)'
  BY <1>1, ServerStarts
<1>2. ASSUME NEW b \in BrowsersOf[p], Door(p)!Request(b) PROVE DoorInv(p)'
  BY <1>2, RequestsAreAnswered DEF Guests
<1>3. CASE Door(p)!Stop \/ Door(p)!WindowPasses
  <2>1. /\ UNCHANGED <<accounts, minted, key, edgeAt, jar>>
        /\ fails' = [s \in Door(p)!Sources |-> 0] /\ own' = [b \in BrowsersOf[p] |-> 0]
        /\ UNCHANGED <<server, member>> \/ (server' = [on |-> FALSE] /\ member' = {})
    BY <1>3 DEF Door!Stop, Door!WindowPasses, Door!files, Door!Off
  <2>2. DoorShape(p)'
    <3>1. fails' \in [Door(p)!Sources -> Nat] /\ own' \in [Guests(p) -> Nat]
      BY <2>1 DEF Guests
    <3>2. server'.on \in BOOLEAN /\ (~server'.on => member' = {}) /\ member' \subseteq Guests(p)
      <4>1. CASE UNCHANGED <<server, member>>
        BY <1>0, <4>1 DEF DoorShape
      <4>2. CASE server' = [on |-> FALSE] /\ member' = {}
        BY <4>2
      <4> QED
        BY <2>1, <4>1, <4>2
    <3> QED
      BY <1>0, <2>1, <3>1, <3>2 DEF DoorShape, Door!Sources
  <2>3. Blamed(p)'
    <3>1. \A b \in Guests(p) : fails'[b.name] = 0 /\ own'[b] = 0
      BY <2>1, TheBrowsers DEF Guests
    <3> QED
      BY <3>1 DEF Blamed
  <2>4. NobodyYet(p)' /\ ServerIsSound(p)' /\ Cookies(p)'
    BY <1>0, <2>1 DEF NobodyYet, ServerIsSound, Cookies, Hop, Door!cookie_name
  <2> QED
    BY <2>2, <2>3, <2>4 DEF DoorInv
<1>4. CASE Door(p)!AddUser \/ Door(p)!EdgeMoves \/ Door(p)!KeyExpires
  <2>1. /\ UNCHANGED <<minted, key, server, fails, jar, own, member>>
        /\ accounts' = accounts \/ accounts' = accounts \cup {"cli"}
        /\ edgeAt' = edgeAt \/ edgeAt' \in Door(p)!Addresses
    BY <1>4 DEF Door!AddUser, Door!EdgeMoves, Door!KeyExpires, Door!files
  <2>2. DoorShape(p)'
    BY <1>0, <2>1 DEF DoorShape, Door!Sources, Door!Addresses
  <2>3. NobodyYet(p)'
    BY <1>0, <2>1 DEF NobodyYet
  <2>4. ServerIsSound(p)' /\ Blamed(p)' /\ Cookies(p)'
    BY <1>0, <2>1 DEF ServerIsSound, Blamed, Cookies, Hop, Door!cookie_name
  <2> QED
    BY <2>2, <2>3, <2>4 DEF DoorInv
<1> QED
  BY <1>1, <1>2, <1>3, <1>4 DEF Door!Next

\* Who types the address that serve has printed gets in (serve, cli.py; the app,
\* web/app.py).
THEOREM PrintedAddressLetsIn == MCSpec => []PrintedAddressWorks
<1> DEFINE Inv == \A p \in {"edge", "lab"} : part = p => DoorInv(p)
<1>1. MCInit => Inv
  BY DoorOpens DEF MCInit
<1>2. Inv /\ [MCNext]_<<part, vars, log, door, files>> => Inv'
  <2> SUFFICES ASSUME Inv, [MCNext]_<<part, vars, log, door, files>>, NEW p \in {"edge", "lab"}, part' = p
               PROVE  DoorInv(p)'
    OBVIOUS
  <2>1. part' = part /\ DoorInv(p)
    BY DEF MCNext
  <2>2. CASE Door(p)!Next
    BY <2>1, <2>2, DoorSteps
  <2>3. CASE UNCHANGED door
    <3>1. UNCHANGED <<accounts, minted, key, late, known, edgeAt, server, fails, jar, claim, own, member>>
      BY <2>3 DEF door
    <3> QED
      BY <2>1, <3>1
      DEF DoorInv, DoorShape, ServerIsSound, NobodyYet, Blamed, Cookies, Hop
  <2> QED
    BY <2>1, <2>2, <2>3 DEF MCNext
<1>3. Inv => PrintedAddressWorks
  BY DoorWorks DEF PrintedAddressWorks
<1> QED
  BY <1>1, <1>2, <1>3, PTL DEF MCSpec

=============================================================================
