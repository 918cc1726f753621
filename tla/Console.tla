------------------------------- MODULE Console -------------------------------
(*****************************************************************************)
(* Getting into the console: what `serve` (cli.py) makes of its options and  *)
(* of what the box remembers, the address and the first-run link it prints,  *)
(* and what the running application (web/app.py) then makes of a browser     *)
(* that comes over the loopback, the edge, a proxy, or none of them: Host,   *)
(* scheme and address of the peer, cookies, and the sign-in throttle.  A     *)
(* name is right or wrong, an address is who holds it; a `serve` that docker *)
(* stops (no bridge, no edge) changes nothing here.  Sessions that end by    *)
(* themselves are in Accounts, and cookies of another site are left out.     *)
(*****************************************************************************)
EXTENDS Naturals, FiniteSets

CONSTANTS Options,     \* of `serve`: subset of Option
          Browsers,    \* subset of Browser
          Limit,       \* SIGNIN_MAX_FAILURES
          MaxKeys      \* bound: first-run links

Addresses == {"edge1", "edge2"}     \* which the edge's container may have
Hosts == {"localhost", "lab", "domain", "address"}

\* A --allow-host as it was typed, maybe dressed up as a url.
Given == [host : {"lab", "*"}, dressed : BOOLEAN]
Option == [domain : BOOLEAN, no_domain : BOOLEAN, email : BOOLEAN,
           bind : {"", "loopback", "every", "address"}, allow : SUBSET Given,
           insecure : BOOLEAN, trust : SUBSET {"proxy", "0.0.0.0"}]
\* A browser: the host it types, its own hop's scheme, and what is in between.
Browser == [name : STRING, host : Hosts, https : BOOLEAN, by : {"none", "edge", "proxy"}]

VARIABLES
  accounts,          \* the users file
  minted, link,      \* first-run keys so far, and the one in the file (0: none)
  late,              \* keys that have expired
  known,             \* what the box remembers of earlier serves
  edgeAt,            \* the edge's address
  server,            \* the running `serve`
  fails,             \* failures the throttle counts, by source
  jar,               \* session cookies of each browser
  claim,             \* claims that have passed the checks of first_run
  own, member        \* history: who failed, and who is signed in at this server

files == <<accounts, minted, link, late, known>>
vars == <<files, edgeAt, server, fails, jar, claim, own, member>>

Off == [on |-> FALSE]
Sources == {b.name : b \in Browsers} \cup Addresses \cup {"proxy"}

Init ==
  /\ accounts = {} /\ minted = 0 /\ link = 0 /\ late = {}
  /\ known = [domain |-> FALSE, email |-> FALSE]
  /\ edgeAt = "edge1" /\ server = Off
  /\ fails = [s \in Sources |-> 0]
  /\ jar = [b \in Browsers |-> {}] /\ claim = {}
  /\ own = [b \in Browsers |-> 0] /\ member = {}

-----------------------------------------------------------------------------
(* serve *)

\* A host is listed, and printed, without what it was dressed up in.
normalize_allow_host(given) == {g.host : g \in given}

usable_trusted(o) == o.trust \ {"0.0.0.0"}

served_domain(o) == o.domain \/ (~o.no_domain /\ known.domain)

Bind(o) ==
  IF o.bind # "" THEN o.bind ELSE IF served_domain(o) THEN "bridge" ELSE "loopback"

\* Who may sign in over what: each is refused with the command to type.
NeedsEmail(o) == served_domain(o) /\ ~o.email /\ ~known.email
NeedsAccount(o) == accounts = {} /\ ~(Bind(o) = "loopback" /\ ~served_domain(o))
PlainHttp(o) == /\ accounts # {} /\ Bind(o) # "loopback"
                /\ ~(served_domain(o) \/ o.insecure \/ o.trust # {})

\* The address it prints.  Every interface is no address: "?" is to be filled in.
PrintedHost(o) ==
  LET typed == normalize_allow_host(o.allow) \ {"*"}
  IN CASE served_domain(o) -> "domain"
       [] ~served_domain(o) /\ Bind(o) = "loopback" -> "localhost"
       [] ~served_domain(o) /\ Bind(o) # "loopback" /\ typed # {} -> CHOOSE h \in typed : TRUE
       [] OTHER -> IF Bind(o) = "every" THEN "?" ELSE "address"

\* "nothing is in --allow-host, so only localhost is accepted"
Warned(o) == Bind(o) # "loopback" /\ ~served_domain(o) /\ o.allow = {}

\* A loopback without accounts mints a new link; an edge is trusted by the
\* addresses it has now.
Start(o) ==
  LET first == accounts = {} IN
  /\ minted' = IF first THEN minted + 1 ELSE minted
  /\ link' = IF first THEN minted' ELSE link
  /\ server' = [on |-> TRUE, bind |-> Bind(o), https |-> served_domain(o), first_run |-> first,
                names |-> normalize_allow_host(o.allow)
                            \cup (IF served_domain(o) THEN {"domain"} ELSE {}),
                trusted |-> usable_trusted(o) \cup (IF served_domain(o) THEN {edgeAt} ELSE {}),
                url |-> PrintedHost(o), key |-> IF first THEN minted' ELSE 0, warned |-> Warned(o)]
  /\ known' = [domain |-> known.domain \/ served_domain(o),
               email |-> known.email \/ (served_domain(o) /\ o.email)]

\* An email that was given is remembered even where serve then refuses.
Serve(o) ==
  /\ ~server.on
  /\ accounts = {} => minted < MaxKeys
  /\ IF NeedsEmail(o) \/ NeedsAccount(o) \/ PlainHttp(o)
     THEN /\ known' = [known EXCEPT !.email = @ \/ (served_domain(o) /\ o.email)]
          /\ UNCHANGED <<minted, link, server>>
     ELSE Start(o)
  /\ UNCHANGED <<accounts, late, edgeAt, fails, jar, claim, own, member>>

\* The throttle and the claims are in its memory.
Stop ==
  /\ server.on
  /\ server' = Off /\ claim' = {} /\ member' = {}
  /\ fails' = [s \in Sources |-> 0] /\ own' = [b \in Browsers |-> 0]
  /\ UNCHANGED <<files, edgeAt, jar>>

-----------------------------------------------------------------------------
(* What the application makes of a request *)

host_ok(b) == "*" \in server.names \/ b.host \in server.names \cup {"localhost"}

\* Browsers send Sec-Fetch-Site over https and on localhost, else the Origin.
cross_site(b) == ~(b.https \/ b.host = "localhost") /\ ~host_ok(b)

Peer(b) == CASE b.by = "edge" -> edgeAt [] b.by = "proxy" -> "proxy" [] OTHER -> b.name

\* resolve_peer: a trusted peer says who is behind it and how it came.
Source(b) == IF Peer(b) \in server.trusted THEN b.name ELSE Peer(b)
Https(b) == IF Peer(b) \in server.trusted THEN b.https ELSE server.https

cookie_name(https) == IF https THEN "secure" ELSE "plain"

\* A browser keeps a Secure cookie only where its own hop is safe.
set_session_cookie(b) ==
  LET c == cookie_name(Https(b)) IN
  IF c = "plain" \/ b.https \/ b.host = "localhost"
  THEN jar' = [jar EXCEPT ![b] = @ \cup {c}] ELSE UNCHANGED jar

Recognised(b) == cookie_name(Https(b)) \in jar[b]

signin_retry_after(b) == fails[Source(b)] >= Limit
signin_failed(b) == /\ fails' = [fails EXCEPT ![Source(b)] = IF @ < Limit THEN @ + 1 ELSE @]
                    /\ own' = [own EXCEPT ![b] = IF @ < Limit THEN @ + 1 ELSE @]
\* A success forgets the older half of the failures.
signin_ok(b) == fails' = [fails EXCEPT ![Source(b)] = IF @ <= 1 THEN 0 ELSE @ - (@ \div 2)]

\* The network, and who the edge or a proxy forwards to.
Reaches(b) ==
  /\ server.on
  /\ CASE b.by = "edge" -> known.domain /\ server.bind \in {"bridge", "every"}
       [] b.by # "edge" /\ b.host = "localhost" -> server.bind \in {"loopback", "every"}
       [] OTHER -> server.bind \in {"every", "address"}

first_run_open == server.first_run /\ accounts = {}

\* GET of the page that was printed: the first-run page, the sign-in page, or
\* the console.
Page(b) ==
  CASE ~host_ok(b) -> "refused"
    [] host_ok(b) /\ Recognised(b) -> "console"
    [] host_ok(b) /\ ~Recognised(b) /\ server.key = 0 -> "signin"
    [] OTHER -> IF first_run_open THEN "setup" ELSE "not found"

\* A log stream checks for itself, and wants an Origin; behind a proxy its scope
\* may lack the peer (`seen`), and then a secure cookie counts as well.
LogOpens(b, seen) ==
  LET want == cookie_name(IF seen THEN Https(b) ELSE server.https)
  IN /\ host_ok(b) /\ ~cross_site(b)
     /\ want \in jar[b] \/ (want = "plain" /\ "secure" \in jar[b])

\* POST /signin, up to the password.
signin_gate(b) ==
  CASE ~host_ok(b) \/ cross_site(b) -> "refused"
    [] host_ok(b) /\ ~cross_site(b) /\ accounts = {} -> "no account"
    [] OTHER -> IF signin_retry_after(b) THEN "later" ELSE "asked"

SignIn(b, right) ==
  /\ Reaches(b) /\ signin_gate(b) = "asked"
  /\ IF right
     THEN signin_ok(b) /\ set_session_cookie(b) /\ member' = member \cup {b} /\ UNCHANGED own
     ELSE signin_failed(b) /\ UNCHANGED <<jar, member>>
  /\ UNCHANGED <<files, edgeAt, server, claim>>

\* POST /api/session/first-run, up to the key.
claim_gate(b, key) ==
  CASE ~host_ok(b) \/ cross_site(b) -> "refused"
    [] host_ok(b) /\ ~cross_site(b) /\ ~first_run_open -> "taken"
    [] host_ok(b) /\ ~cross_site(b) /\ first_run_open /\ signin_retry_after(b) -> "later"
    [] OTHER -> IF link = key /\ key \notin late THEN "good" ELSE "wrong"

\* Mutant of BeginClaim: the key is spent when it has been checked.
SpendFirst(b, key) ==
  /\ Reaches(b) /\ b \notin claim
  /\ claim_gate(b, key) = "good"
  /\ claim' = claim \cup {b} /\ link' = 0
  /\ UNCHANGED <<accounts, minted, late, known, edgeAt, server, fails, jar, own, member>>

BeginClaim(b, key) ==
  /\ Reaches(b) /\ b \notin claim
  /\ \/ claim_gate(b, key) = "good" /\ claim' = claim \cup {b} /\ UNCHANGED <<fails, own>>
     \/ claim_gate(b, key) = "wrong" /\ signin_failed(b) /\ UNCHANGED claim
  /\ UNCHANGED <<files, edgeAt, server, jar, member>>

\* From there on: the name or the password is not accepted, somebody has the
\* name by now, or the account is made and then the key is spent.
EndClaim(b, accepted) ==
  /\ server.on /\ b \in claim
  /\ claim' = claim \ {b}
  /\ IF accepted /\ b.name \notin accounts
     THEN /\ accounts' = accounts \cup {b.name} /\ link' = 0
          /\ signin_ok(b) /\ set_session_cookie(b) /\ member' = member \cup {b}
     ELSE UNCHANGED <<accounts, link, fails, jar, member>>
  /\ UNCHANGED <<minted, late, known, edgeAt, server, own>>

SignOut(b) ==
  /\ Reaches(b) /\ host_ok(b) /\ ~cross_site(b)
  /\ jar' = [jar EXCEPT ![b] = {}]
  /\ member' = member \ {b}
  /\ UNCHANGED <<files, edgeAt, server, fails, claim, own>>

-----------------------------------------------------------------------------
(* Around it *)

\* `users add` in a terminal.
AddUser ==
  /\ "cli" \notin accounts
  /\ accounts' = accounts \cup {"cli"}
  /\ UNCHANGED <<minted, link, late, known, edgeAt, server, fails, jar, claim, own, member>>

\* The edge is recreated, or joins a workspace's network.
EdgeMoves ==
  /\ edgeAt' \in Addresses \ {edgeAt}
  /\ UNCHANGED <<files, server, fails, jar, claim, own, member>>

\* Fifteen minutes; a minute.
KeyExpires ==
  /\ link # 0 /\ late' = late \cup {link}
  /\ UNCHANGED <<accounts, minted, link, known, edgeAt, server, fails, jar, claim, own, member>>

WindowPasses ==
  /\ fails' = [s \in Sources |-> 0] /\ own' = [b \in Browsers |-> 0]
  /\ UNCHANGED <<files, edgeAt, server, jar, claim, member>>

Request(b) == \/ SignOut(b)
              \/ \E yes \in BOOLEAN : SignIn(b, yes) \/ EndClaim(b, yes)
              \/ \E key \in 1..minted : BeginClaim(b, key)

Next == \/ \E o \in Options : Serve(o)
        \/ Stop \/ AddUser \/ EdgeMoves \/ KeyExpires \/ WindowPasses
        \/ \E b \in Browsers : Request(b)

Spec == Init /\ [][Next]_vars

-----------------------------------------------------------------------------
\* The address is trusted to name the browser behind it: always, unless the
\* edge has moved since serve started, or nobody named the proxy.
Told(b) == b.by = "none" \/ Peer(b) \in server.trusted

\* The address and the link that serve has printed work: no browser that types
\* them is refused by its Host or its Origin; the link is good until it expires,
\* an account exists, or a later serve prints another; the right password signs
\* in unless that browser has itself failed too often; and who is signed in is
\* recognised, by the pages and by the log stream.
Works(b) ==
  /\ Page(b) # "refused" /\ signin_gate(b) # "refused"
  /\ b \in member => Page(b) = "console" /\ \A seen \in {TRUE, b.by = "none"} : LogOpens(b, seen)
  /\ signin_gate(b) = "later" => own[b] >= Limit \/ ~Told(b)
  /\ server.key = minted /\ server.key # 0 /\ server.key \notin late /\ accounts = {} =>
       Page(b) = "setup" /\ (claim_gate(b, server.key) # "good" => own[b] >= Limit \/ ~Told(b))
PrintedAddressWorks ==
  \A b \in Browsers : Reaches(b) /\ server.url = b.host /\ ~server.warned => Works(b)
=============================================================================
