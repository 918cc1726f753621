------------------------------- MODULE MCWeb -------------------------------
(****************************************************************************)
(* Parts of the web console, one at a time: the events of a job, the log of *)
(* a workspace, getting in, over the edge and in a lab, and the two files   *)
(* that `serve` and the command line write of what they do.                 *)
(****************************************************************************)
EXTENDS JobStream

CONSTANTS Parts, QueueMax, Lines, BrowsersOf, OptionsOf, Limit, MaxKeys,
          Writers, ProcOf, Cap, MaxSize, MAX, KEEP, Unset

VARIABLES
  part,
  child, printed, offered, over, queue, dropped, pc, hand, owed, client, watched, page,
  accounts, minted, key, late, known, edgeAt, server, fails, jar, claim, own, member,
  file, counted, disabled, at, fd, flocked, since, trail, kept, moving, ready, crowded

Log == INSTANCE LogTail
Door(p) == INSTANCE Console WITH
  link <- key, Browsers <- BrowsersOf[p], Options <- OptionsOf[p]
Events == INSTANCE EventLog WITH None <- Unset
Audit == INSTANCE AuditTrail WITH log <- trail, None <- Unset

log == <<child, printed, offered, over, queue, dropped, pc, hand, owed, client, watched, page>>
door == <<accounts, minted, key, late, known, edgeAt, server, fails, jar, claim, own, member>>
events == <<file, counted, disabled, at, fd, flocked, since>>
audit == <<trail, kept, moving, ready, crowded>>
files == <<events, audit>>

MCInit == /\ Events!Init /\ Audit!Init /\ Init /\ Log!Init
          /\ \/ part \in Parts \ {"edge"} /\ Door("lab")!Init
             \/ part \in Parts \cap {"edge"} /\ Door("edge")!Init

MCNext == \/ part = "job" /\ Next /\ UNCHANGED <<part, log, door, files>>
          \/ part = "log" /\ Log!Next /\ UNCHANGED <<part, vars, door, files>>
          \/ part = "edge" /\ Door("edge")!Next /\ UNCHANGED <<part, vars, log, files>>
          \/ part = "lab" /\ Door("lab")!Next /\ UNCHANGED <<part, vars, log, files>>
          \/ part = "events" /\ Events!Next /\ UNCHANGED <<part, vars, log, door, audit>>
          \/ part = "audit" /\ Audit!Next /\ UNCHANGED <<part, vars, log, door, events>>

\* Each stream under its own fairness.
MCSpec ==
  /\ MCInit /\ [][MCNext]_<<part, vars, log, door, files>>
  /\ WF_vars(part = "job" /\ Worker) /\ WF_vars(part = "job" /\ Snapshot)
  /\ WF_vars(part = "job" /\ Client) /\ WF_vars(part = "job" /\ Lost /\ conn = "ending")
  /\ WF_log(part = "log" /\ Log!Server) /\ WF_log(part = "log" /\ Log!WatchClient)

-----------------------------------------------------------------------------
\* By the time the browser has a log line, it was told of every line it missed
\* before it, and of all when the output ended (LogTail.tla).
GapsAreTold == Log!GapsAreTold

\* The dialog of a job reports in the end (JobStream.tla), and the child that
\* follows a log ends when its browser has left (LogTail.tla).
StreamsEnd == (part = "job" => DialogReports) /\ Log!ChildEnds

\* The address and the link that serve prints let people in (Console.tla).
PrintedAddressWorks == /\ part = "edge" => Door("edge")!PrintedAddressWorks
                       /\ part = "lab" => Door("lab")!PrintedAddressWorks

\* No rotation throws away what is newest (EventLog.tla, AuditTrail.tla).
NewestSurvive == [][Events!KeepsTheNewest /\ Audit!KeepsTheNewest]_<<events, audit>>
-----------------------------------------------------------------------------
(* What is taken of the constants.                                         *)

\* A line that is dropped at the end of the output leaves another before the end,
\* so that the handler comes by once more and says so.
QueueHoldsTwo == QueueMax \in Nat /\ QueueMax > 1 /\ Lines \in Nat

\* A browser has a name of its own, and the address that is printed for a domain
\* is one of https.
DoorConstants ==
  /\ Limit \in Nat
  /\ \A p \in {"edge", "lab"} :
       /\ OptionsOf[p] \subseteq Door(p)!Option
       /\ BrowsersOf[p] \subseteq Door(p)!Browser
       /\ \A b \in BrowsersOf[p] : /\ b.name \notin Door(p)!Addresses \cup {"proxy"}
                                   /\ b.host = "domain" => b.https
       /\ \A b, d \in BrowsersOf[p] : b.name = d.name => b = d

FileConstants ==
  /\ Cap \in Nat /\ Unset \notin Nat \cup {"here", "old", "gone"}
  /\ MAX \in Nat \ {0} /\ KEEP \in Nat \ {0}

ASSUME WebConstants == QueueHoldsTwo /\ DoorConstants /\ FileConstants

-----------------------------------------------------------------------------
(* The instance.                                                           *)
CONSTANTS t1, t2, t3, serve, cli

Browser(name, host, https, by) == [name |-> name, host |-> host, https |-> https, by |-> by]
Here == Browser("here", "localhost", FALSE, "none")

\* Two browsers behind the edge; one that comes to the lab's name directly, and
\* one through its proxy.
EdgeBrowsers == {Here, Browser("ann", "domain", TRUE, "edge"), Browser("bob", "domain", TRUE, "edge")}
LabBrowsers == {Here, Browser("eve", "lab", FALSE, "none"), Browser("pat", "lab", TRUE, "proxy")}

Plain == [domain |-> FALSE, no_domain |-> FALSE, email |-> FALSE, bind |-> "",
          allow |-> {}, insecure |-> FALSE, trust |-> {}]
LabName == [host |-> "lab", dressed |-> TRUE]
AnyName == [host |-> "*", dressed |-> FALSE]

EdgeOptions == {Plain, [Plain EXCEPT !.no_domain = TRUE],
                [Plain EXCEPT !.domain = TRUE, !.email = TRUE]}
LabOptions == {Plain,
               [Plain EXCEPT !.bind = "every", !.allow = {LabName}, !.trust = {"proxy"}],
               [Plain EXCEPT !.bind = "address", !.allow = {LabName, AnyName}, !.trust = {"0.0.0.0"}],
               [Plain EXCEPT !.bind = "every", !.insecure = TRUE]}

MCBrowsersOf == [p \in {"edge", "lab"} |-> IF p = "edge" THEN EdgeBrowsers ELSE LabBrowsers]
MCOptionsOf == [p \in {"edge", "lab"} |-> IF p = "edge" THEN EdgeOptions ELSE LabOptions]

\* Two threads of serve and a command.
MCProcOf == [w \in {t1, t2, t3} |-> IF w = t3 THEN cli ELSE serve]
=============================================================================
