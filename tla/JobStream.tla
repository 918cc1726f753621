----------------------------- MODULE JobStream -----------------------------
(****************************************************************************)
(* How a browser follows one job: the job's bounded event buffer            *)
(* (web/jobs.py, Job), the SSE generator that polls it (web/app.py,         *)
(* job_stream), and the dialog that reads the stream, reconnects, and falls *)
(* back to asking GET /api/jobs/<id> (data/webui/app.js, streamJob ...      *)
(* pollJobUntilDone).  Events are their absolute indices 0, 1, 2 ...        *)
(****************************************************************************)
EXTENDS Integers, Sequences

CONSTANTS MaxEvents,   \* MAX_EVENTS_PER_JOB
          MaxRetries,  \* reconnects before the dialog polls instead
          Chatter      \* bound: events the operation emits before the terminal one

ASSUME StreamLimits == MaxEvents \in Nat \ {0} /\ MaxRetries \in Nat /\ Chatter \in Nat

None == -1

VARIABLES
  emitted,   \* Job._emitted
  status,    \* Job.status
  terminal,  \* index of the terminal event, or None
  listed,    \* the registry still has the job
  conn,      \* "none", "open", or "ending": the generator has returned
  sidx,      \* the generator's idx
  wire,      \* events sent and not yet received
  mode,      \* the dialog: "connecting", "streaming", "reconciling", "polling", "finished"
  cidx,      \* job.idx in the dialog: the next event it expects
  retries,   \* job.retries in the dialog
  title,     \* what the dialog reports: "", "Done" or "Failed"
  unasked    \* its last line says that the job could not be queried

job == <<emitted, status, terminal, listed>>
link == <<conn, sidx, wire>>
dialog == <<mode, cidx, retries, title, unasked>>
vars == <<job, link, dialog>>

Init ==
  /\ emitted = 0 /\ status = "running" /\ terminal = None /\ listed = TRUE
  /\ conn = "none" /\ sidx = 0 /\ wire = <<>>
  /\ mode = "connecting" /\ cidx = 0 /\ retries = 0 /\ title = "" /\ unasked = FALSE

Over == status # "running"

\* Absolute index of the oldest event still in the buffer.
First == IF emitted > MaxEvents THEN emitted - MaxEvents ELSE 0

\* Job.emit from the operation.
Emit ==
  /\ ~Over /\ emitted < Chatter
  /\ emitted' = emitted + 1
  /\ UNCHANGED <<status, terminal, listed, link, dialog>>

\* The operation ended: status first, the terminal event after it.
Settle ==
  /\ ~Over
  /\ status' \in {"done", "error"}
  /\ UNCHANGED <<emitted, terminal, listed, link, dialog>>

Tell ==
  /\ Over /\ terminal = None
  /\ terminal' = emitted
  /\ emitted' = emitted + 1
  /\ UNCHANGED <<status, listed, link, dialog>>

\* _evict_locked, when enough other jobs were submitted.
Evict ==
  /\ Over /\ listed
  /\ listed' = FALSE
  /\ UNCHANGED <<emitted, status, terminal, link, dialog>>

\* Mutant of Connect: the new stream starts at 0 instead of `since`.
ConnectAtStart ==
  /\ mode = "connecting"
  /\ IF listed
     THEN conn' = "open" /\ sidx' = 0 /\ mode' = "streaming"
     ELSE conn' = "none" /\ mode' = "reconciling" /\ UNCHANGED sidx
  /\ wire' = <<>>
  /\ UNCHANGED <<job, cidx, retries, title, unasked>>

\* connectJob: the request finds the job and a generator starts at `since`, or
\* the answer is a 404, which EventSource reports as an error.
Connect ==
  /\ mode = "connecting"
  /\ IF listed
     THEN conn' = "open" /\ sidx' = cidx /\ mode' = "streaming"
     ELSE conn' = "none" /\ mode' = "reconciling" /\ UNCHANGED sidx
  /\ wire' = <<>>
  /\ UNCHANGED <<job, cidx, retries, title, unasked>>

\* One round of gen(): what the buffer has from sidx on, or from its start.
\* When the job is over and there was nothing, the generator returns.
Snapshot ==
  LET start == IF sidx > First THEN sidx ELSE First
      evs == [i \in 1..(emitted - start) |-> start + i - 1]
  IN /\ conn = "open"
     /\ wire' = wire \o evs
     /\ sidx' = emitted
     /\ conn' = IF Over /\ evs = <<>> THEN "ending" ELSE "open"
     /\ UNCHANGED <<job, dialog>>

\* es.onmessage; the terminal event closes the stream and reports.
Receive ==
  /\ mode = "streaming" /\ wire # <<>>
  /\ cidx' = Head(wire) + 1
  /\ IF Head(wire) = terminal
     THEN /\ mode' = "finished"
          /\ title' = IF status = "error" THEN "Failed" ELSE "Done"
          /\ conn' = "none" /\ wire' = <<>>
     ELSE wire' = Tail(wire) /\ UNCHANGED <<mode, title, conn>>
  /\ UNCHANGED <<job, sidx, retries, unasked>>

\* es.onerror: the connection broke, or the generator returned and all it sent
\* was read.
Lost ==
  /\ mode = "streaming"
  /\ conn = "open" \/ (conn = "ending" /\ wire = <<>>)
  /\ conn' = "none" /\ wire' = <<>>
  /\ mode' = "reconciling"
  /\ UNCHANGED <<job, sidx, cidx, retries, title, unasked>>

\* What GET /api/jobs/<id> tells: the status, or nothing, where the job is gone or
\* the request fails (the network, a session that has ended, a 5xx).
Outcome == (IF listed THEN {status} ELSE {}) \cup {"unknown"}

\* The dialog ends: what it was not told, it reports as a failure.
Report(answer) ==
  /\ mode' = "finished"
  /\ title' = IF answer = "done" THEN "Done" ELSE "Failed"
  /\ unasked' = (answer = "unknown")

\* Mutant of Reconcile: reconnects without asking for the outcome.
ReconnectsOnly ==
  /\ mode = "reconciling"
  /\ mode' = "connecting"
  /\ UNCHANGED <<job, link, cidx, retries, title, unasked>>

\* reconcileJob: over or unknown is reported, else reconnect or fall back.
Reconcile ==
  /\ mode = "reconciling"
  /\ \/ \E answer \in Outcome \ {"running"} : Report(answer) /\ UNCHANGED retries
     \/ /\ "running" \in Outcome
        /\ retries' = retries + 1
        /\ mode' = IF retries < MaxRetries THEN "connecting" ELSE "polling"
        /\ UNCHANGED <<title, unasked>>
  /\ UNCHANGED <<job, link, cidx>>

\* pollJobUntilDone, a tick that finds an outcome; others change nothing.
Poll ==
  /\ mode = "polling"
  /\ \E answer \in Outcome \ {"running"} : Report(answer)
  /\ UNCHANGED <<job, link, cidx, retries>>

Worker == Emit \/ Settle \/ Tell
Client == Connect \/ Receive \/ Reconcile \/ (Poll /\ (Over \/ ~listed))

Next == Worker \/ Evict \/ Snapshot \/ Client \/ Poll \/ Lost

Spec == Init /\ [][Next]_vars

\* Both sides poll on timers, the worker goes on, and a stream that has ended
\* raises onerror.  A connection need never break, and may always break; a request
\* about a job that runs need never fail.
FairSpec ==
  /\ Spec
  /\ WF_vars(Worker) /\ WF_vars(Snapshot) /\ WF_vars(Client)
  /\ WF_vars(Lost /\ conn = "ending")
-----------------------------------------------------------------------------
\* However often the stream breaks, no line is shown twice, and one is skipped
\* only if the buffer had already dropped it (app.js, connectJob: "a reconnect
\* cannot duplicate or skip lines").
LinesInOrder ==
  cidx' # cidx => /\ cidx' > cidx
                  /\ \A i \in cidx..(cidx' - 2) : i < First

\* The dialog reports what happened.  The exception is a dialog whose request to
\* the job failed: it says "Failed" over a line that says so (app.js:2388-2392,
\* 2406-2411), also of a job that still runs or has succeeded.
ReportsTheOutcome ==
  /\ title = "Done" => status = "done"
  /\ title = "Failed" => (status = "error" \/ unasked)

DialogIsTrue == [][LinesInOrder /\ ReportsTheOutcome']_vars

\* A dialog that stays open reports in the end, through stream, reconnects,
\* or polling ("this dialog will still report the result").
DialogReports == <>(mode = "finished")
=============================================================================
