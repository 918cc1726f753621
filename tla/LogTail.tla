------------------------------- MODULE LogTail -------------------------------
(****************************************************************************)
(* One log stream of the console (web/app.py, logs_stream): a child process *)
(* that follows the logs, the thread that pumps its lines into the event    *)
(* loop, the bounded queue that drops its oldest line, the handler that     *)
(* sends to the browser, and the task that notices when the browser leaves. *)
(* Lines are their numbers 1, 2, 3 ...                                      *)
(****************************************************************************)
EXTENDS Naturals, Sequences

CONSTANTS QueueMax,   \* WS_QUEUE_MAX
          Lines       \* bound: lines the child prints

End == 0              \* the sentinel behind the last line

VARIABLES
  child,     \* "running" or "exited"
  printed,   \* lines the child has printed
  offered,   \* of those, the lines the event loop has offered to the queue
  over,      \* the sentinel has been offered
  queue, dropped,
  pc, hand,  \* the handler, and what it got from the queue
  owed,      \* the skipped lines of the notice it is sending
  client, watched,   \* the browser, and whether watch_client has seen it go
  page       \* what the browser has: how many lines, the last one, the skipped it was told of

feed == <<child, printed, offered, over>>
handler == <<pc, hand, owed>>
browser == <<client, watched, page>>
vars == <<feed, queue, dropped, handler, browser>>

Init ==
  /\ child = "running" /\ printed = 0 /\ offered = 0 /\ over = FALSE
  /\ queue = <<>> /\ dropped = 0
  /\ pc = "waiting" /\ hand = End /\ owed = 0
  /\ client = "there" /\ watched = FALSE
  /\ page = [lines |-> 0, last |-> 0, skipped |-> 0]

PrintLine ==
  /\ child = "running" /\ printed < Lines
  /\ printed' = printed + 1
  /\ UNCHANGED <<child, offered, over, queue, dropped, handler, browser>>

ContainerStops ==
  /\ child = "running"
  /\ child' = "exited"
  /\ UNCHANGED <<printed, offered, over, queue, dropped, handler, browser>>

\* Mutant of Put: a full queue drops what comes, and does not say so.
PutIfRoom(x) ==
  /\ queue' = IF Len(queue) < QueueMax THEN Append(queue, x) ELSE queue
  /\ UNCHANGED dropped

\* make_log_offer: a full queue loses its oldest entry, which is counted.
Put(x) ==
  IF Len(queue) < QueueMax
  THEN queue' = Append(queue, x) /\ UNCHANGED dropped
  ELSE queue' = Append(Tail(queue), x) /\ dropped' = dropped + 1

\* pump: a callback per line, in their order, and one for the end of the output.
Offer ==
  /\ offered < printed
  /\ offered' = offered + 1
  /\ Put(offered + 1)
  /\ UNCHANGED <<child, printed, over, handler, browser>>

OfferEnd ==
  /\ child = "exited" /\ offered = printed /\ ~over
  /\ over' = TRUE
  /\ Put(End)
  /\ UNCHANGED <<child, printed, offered, handler, browser>>

\* The task of q.get() takes an entry; the handler goes on in a later round of
\* the loop, and more may be offered before.
Get ==
  /\ pc = "waiting" /\ queue # <<>>
  /\ hand' = Head(queue) /\ queue' = Tail(queue)
  /\ pc' = "got"
  /\ UNCHANGED <<feed, dropped, owed, browser>>

\* asyncio.wait has returned because there was an entry.
Resume ==
  /\ pc = "got"
  /\ \/ /\ watched \/ hand = End
        /\ pc' = "leaving" /\ UNCHANGED <<dropped, owed>>
     \/ /\ ~watched /\ hand # End
        /\ pc' = IF dropped > 0 THEN "notice" ELSE "sending"
        /\ owed' = dropped /\ dropped' = 0
  /\ UNCHANGED <<feed, queue, hand, browser>>

\* The browser left: asyncio.wait returned because of that, or a send raised.
Abandon ==
  /\ \/ pc = "waiting" /\ watched
     \/ pc \in {"notice", "sending"} /\ client = "gone"
  /\ pc' = "leaving"
  /\ UNCHANGED <<feed, queue, dropped, hand, owed, browser>>

\* A send returns when the browser has taken the message, which may be never.
SendNotice ==
  /\ pc = "notice" /\ client = "there"
  /\ page' = [page EXCEPT !.skipped = @ + owed]
  /\ pc' = "sending"
  /\ UNCHANGED <<feed, queue, dropped, hand, owed, client, watched>>

Send ==
  /\ pc = "sending" /\ client = "there"
  /\ page' = [page EXCEPT !.lines = @ + 1, !.last = hand]
  /\ pc' = "waiting"
  /\ UNCHANGED <<feed, queue, dropped, hand, owed, client, watched>>

\* finally: terminate the child, kill it if it takes longer than three seconds.
Leave ==
  /\ pc = "leaving"
  /\ child' = "exited" /\ pc' = "done"
  /\ UNCHANGED <<printed, offered, over, queue, dropped, hand, owed, browser>>

\* The tab is closed, another workspace is selected, or the connection breaks.
Go ==
  /\ client = "there"
  /\ client' = "gone"
  /\ UNCHANGED <<feed, queue, dropped, handler, watched, page>>

WatchClient ==
  /\ client = "gone" /\ ~watched /\ pc # "done"
  /\ watched' = TRUE
  /\ UNCHANGED <<feed, queue, dropped, handler, client, page>>

Server == Get \/ Resume \/ Abandon \/ Leave

Next == \/ PrintLine \/ ContainerStops \/ Go
        \/ Offer \/ OfferEnd \/ WatchClient \/ SendNotice \/ Send \/ Server

Spec == Init /\ [][Next]_vars

\* The event loop runs what is ready.  A container need not log, and a browser
\* need not read.
FairSpec == Spec /\ WF_vars(Server) /\ WF_vars(WatchClient)

-----------------------------------------------------------------------------
\* A log never has a silent gap: by the time the browser has a line, it was told
\* of every line it did not get before it, and of all when the output ended.
\* (app.py: "A log with a silent gap in it looks complete".)
GapsAreTold ==
  /\ page.lines + page.skipped >= page.last
  /\ pc = "done" /\ client = "there" => page.lines + page.skipped = printed

\* When the browser has left, the child that follows the logs ends, also of a
\* container that logs nothing (watch_client).
ChildEnds == client = "gone" ~> child = "exited"
=============================================================================
