------------------------------ MODULE Accounts ------------------------------
(****************************************************************************)
(* The accounts and the browser sessions of `serve` (services/users.py,     *)
(* services/sessions.py, and the handlers of web/app.py and cli.py that     *)
(* call them).  Two files that every process reads and replaces: each under *)
(* a lock of its own for a writer, while a request that only checks its     *)
(* session reads a copy that its process keeps until the file's stamp       *)
(* changes.                                                                 *)
(****************************************************************************)
EXTENDS Naturals, FiniteSets

CONSTANTS People,    \* account names
          Sids,      \* sessions; each is made at most once
          UserOf,    \* UserOf[s]: whose session s would be
          Threads,   \* request threads of `serve`, and CLI commands
          ProcOf,    \* ProcOf[t]: the process of t
          Offers,    \* Offers[t]: the requests t may serve
          Nobody,    \* no account
          Unlocked   \* no thread

VARIABLES
  users,     \* users[n]: role and password of n, or Nobody
  rows,      \* the sessions in the sessions file
  made,      \* the sessions there have been
  aged,      \* those that have been idle too long
  kept,      \* kept[P]: _cache of process P
  old,       \* old[P]: the file was replaced after P stamped its copy
  ulock,     \* holder of users.lock (with the thread lock in front of it)
  flock,     \* holder of sessions.lock
  mutex,     \* mutex[P]: holder of sessions._lock, the thread lock of P
  stage, req,   \* where each thread is, and its request
  copy,      \* copy[t]: what t read of the file it is about to replace
  torn,      \* torn[t]: the sessions file was replaced since t took its stamp
  late,      \* late[t]: t's session had ended when its request began, and still has
  unread     \* unread[t]: for this request the sessions file could not be read

files == <<users, rows, made, aged>>
caches == <<kept, old>>
locks == <<ulock, flock, mutex>>
local == <<req, copy, torn, late, unread>>
vars == <<files, caches, locks, stage, local>>

Processes == {ProcOf[t] : t \in Threads}
Entries == [role : {"admin", "member"}, pw : {1, 2}]
NoRequest == [op |-> "none"]

Init ==
  /\ users = [n \in People |-> Nobody]
  /\ rows = {} /\ made = {} /\ aged = {}
  /\ kept = [P \in Processes |-> {}] /\ old = [P \in Processes |-> TRUE]
  /\ ulock = Unlocked /\ flock = Unlocked /\ mutex = [P \in Processes |-> Unlocked]
  /\ stage = [t \in Threads |-> "idle"] /\ req = [t \in Threads |-> NoRequest]
  /\ copy = [t \in Threads |-> {}]
  /\ torn = [t \in Threads |-> FALSE] /\ late = [t \in Threads |-> FALSE]
  /\ unread = [t \in Threads |-> FALSE]

Exists(n) == users[n] # Nobody
Admins(book) == {n \in People : book[n] # Nobody /\ book[n].role = "admin"}

-----------------------------------------------------------------------------
At(t, l) == stage[t] = l
Go(t, l) == stage' = [stage EXCEPT ![t] = l]

\* Requests: sign in, sign out, a request with a session, and the account
\* commands.
Begin(t) ==
  \E r \in Offers[t] :
    /\ At(t, "idle")
    /\ r.op \in {"request", "signout"} => r.sid \in made    \* a token was handed out
    /\ req' = [req EXCEPT ![t] = r]
    /\ late' = [late EXCEPT ![t] = r.op = "request" /\ r.sid \notin rows]
    /\ Go(t, CASE r.op = "request" -> "stamp" [] r.op = "signout" -> "enter"
               [] r.op = "signin" -> "password" [] OTHER -> "account")
    /\ UNCHANGED <<files, caches, locks, copy, torn, unread>>

Done(t) ==
  /\ Go(t, "idle")
  /\ req' = [req EXCEPT ![t] = NoRequest]
  /\ copy' = [copy EXCEPT ![t] = {}]
  /\ torn' = [torn EXCEPT ![t] = FALSE] /\ late' = [late EXCEPT ![t] = FALSE]
  /\ unread' = [unread EXCEPT ![t] = FALSE]

-----------------------------------------------------------------------------
(* The accounts file: add, set_password, remove, set_role.                 *)

Allowed(r, book) ==
  CASE r.op = "add" -> book[r.name] = Nobody
    [] r.op = "passwd" -> book[r.name] # Nobody
    [] r.op = "remove" -> book[r.name] # Nobody /\ Admins(book) # {r.name}
    [] r.op = "role" -> book[r.name] # Nobody /\ (r.role # "admin" => Admins(book) # {r.name})

\* Under the lock the file is read; the command is refused or goes on.
ReadUsers(t) ==
  /\ At(t, "account") /\ ulock = Unlocked
  /\ IF Allowed(req[t], users)
     THEN /\ ulock' = t /\ copy' = [copy EXCEPT ![t] = users] /\ Go(t, "change")
          /\ UNCHANGED <<req, torn, late, unread>>
     ELSE Done(t) /\ UNCHANGED ulock
  /\ UNCHANGED <<files, caches, flock, mutex>>

\* An account with no role given is an admin if it is the first one.
Changed(r, book) ==
  [book EXCEPT ![r.name] =
     CASE r.op = "add" -> [role |-> IF \A n \in People : book[n] = Nobody
                                    THEN "admin" ELSE "member", pw |-> 1]
       [] r.op = "passwd" -> [@ EXCEPT !.pw = r.pw]
       [] r.op = "role" -> [@ EXCEPT !.role = r.role]
       [] OTHER -> Nobody]

\* The whole file is replaced; all but `add` then end the sessions of the name.
WriteUsers(t) ==
  /\ At(t, "change")
  /\ users' = Changed(req[t], copy[t])
  /\ ulock' = IF ulock = t THEN Unlocked ELSE ulock
  /\ IF req[t].op = "add" THEN Done(t)
     ELSE /\ Go(t, "enter") /\ copy' = [copy EXCEPT ![t] = {}]
          /\ UNCHANGED <<req, torn, late, unread>>
  /\ UNCHANGED <<rows, made, aged, caches, flock, mutex>>

\* _do_signin: the password is checked, with no lock.
Password(t) ==
  /\ At(t, "password")
  /\ IF Exists(req[t].name) /\ users[req[t].name].pw = req[t].pw
     THEN Go(t, "enter") /\ UNCHANGED local
     ELSE Done(t)
  /\ UNCHANGED <<files, caches, locks>>

-----------------------------------------------------------------------------
(* The sessions file.                                                      *)

\* Mutant of Enter: a copy that the process keeps is taken for the file.
EnterWithCopy(t) ==
  LET P == ProcOf[t] IN
  /\ At(t, "enter") /\ flock = Unlocked /\ mutex[P] = Unlocked
  /\ flock' = t /\ mutex' = [mutex EXCEPT ![P] = t]
  /\ copy' = [copy EXCEPT ![t] = IF kept[P] = {} THEN rows ELSE kept[P]]
  /\ Go(t, "rewrite")
  /\ UNCHANGED <<files, caches, ulock, req, torn, late, unread>>

\* _load: the file as it is; or, when it cannot be read, what P has kept of it.
Load(t, P, current) ==
  \/ /\ kept' = [kept EXCEPT ![P] = rows] /\ old' = [old EXCEPT ![P] = ~current]
     /\ UNCHANGED unread
  \/ UNCHANGED caches /\ unread' = [unread EXCEPT ![t] = TRUE]

\* _flocked and _load(force): both locks, and the rows to change.
Enter(t) ==
  LET P == ProcOf[t] IN
  /\ At(t, "enter") /\ flock = Unlocked /\ mutex[P] = Unlocked
  /\ flock' = t /\ mutex' = [mutex EXCEPT ![P] = t]
  /\ Load(t, P, TRUE) /\ copy' = [copy EXCEPT ![t] = kept'[P]]
  /\ Go(t, "rewrite")
  /\ UNCHANGED <<files, ulock, req, torn, late>>

Leave(t) ==
  /\ flock' = IF flock = t THEN Unlocked ELSE flock
  /\ mutex' = [mutex EXCEPT ![ProcOf[t]] = IF @ = t THEN Unlocked ELSE @]

\* _write: what has expired is dropped, the file is replaced, the copy of this
\* process is current and everybody else's is not.
Replace(t, new) ==
  /\ rows' = new \ aged'
  /\ kept' = [kept EXCEPT ![ProcOf[t]] = rows']
  /\ old' = [P \in Processes |-> P # ProcOf[t]]
  /\ torn' = [u \in Threads |-> IF u = t THEN FALSE ELSE At(u, "text")]

\* What ends here is the request; nothing is written when nothing changes.
Rewrite(t) ==
  LET r == req[t]
      ending == IF r.op = "signout" THEN {r.sid}
                ELSE {s \in Sids : r.op # "signin" /\ r.op # "request" /\ UserOf[s] = r.name}
      End == Go(t, "idle") /\ req' = [req EXCEPT ![t] = NoRequest]
               /\ copy' = [copy EXCEPT ![t] = {}] /\ unread' = [unread EXCEPT ![t] = FALSE]
  IN
  /\ At(t, "rewrite")
  /\ \/ /\ r.op = "signin"                                    \* create
        /\ \E s \in Sids \ made :
             /\ UserOf[s] = r.name
             /\ made' = made \cup {s} /\ UNCHANGED aged
             /\ Replace(t, copy[t] \cup {s})
        /\ End
     \/ /\ r.op = "request"                                   \* the touch of verify
        /\ UNCHANGED made
        /\ IF r.sid \in copy[t]
           THEN aged' = aged \ {r.sid} /\ Replace(t, copy[t])
           ELSE UNCHANGED <<aged, rows, kept, old, torn>>
        /\ Go(t, "answer") /\ UNCHANGED <<req, copy, unread>>
     \/ /\ r.op \notin {"signin", "request"}                  \* revoke_sid, revoke_user
        /\ UNCHANGED <<made, aged>>
        /\ IF copy[t] \cap ending # {} THEN Replace(t, copy[t] \ ending)
           ELSE UNCHANGED <<rows, kept, old, torn>>
        /\ End
  /\ late' = [u \in Threads |-> late[u] /\ req[u].sid \notin rows']
  /\ Leave(t)
  /\ UNCHANGED <<users, ulock>>

\* verify: _load under the thread lock alone, the stamp before the text.
Stamp(t) ==
  LET P == ProcOf[t] IN
  /\ At(t, "stamp") /\ mutex[P] = Unlocked
  /\ mutex' = [mutex EXCEPT ![P] = t]
  /\ IF ~old[P] /\ kept[P] # {} THEN Go(t, "look") ELSE Go(t, "text")
  /\ torn' = [torn EXCEPT ![t] = FALSE]
  /\ UNCHANGED <<files, caches, ulock, flock, req, copy, late, unread>>

Text(t) ==
  /\ At(t, "text")
  /\ Load(t, ProcOf[t], ~torn[t])
  /\ Go(t, "look")
  /\ UNCHANGED <<files, locks, req, copy, torn, late>>

\* No row, or one that has expired, is no session.  A row that was not touched
\* lately is touched before the request is answered, unless it cannot be.
Look(t) ==
  /\ At(t, "look")
  /\ mutex' = [mutex EXCEPT ![ProcOf[t]] = Unlocked]
  /\ IF req[t].sid \in kept[ProcOf[t]] \ aged
     THEN stage' \in {[stage EXCEPT ![t] = l] : l \in {"enter", "answer"}} /\ UNCHANGED local
     ELSE Done(t)
  /\ UNCHANGED <<files, caches, ulock, flock>>

\* The role is read from the accounts file for every request.
Answered(t) == At(t, "answer") /\ Exists(UserOf[req[t].sid])
Answer(t) == At(t, "answer") /\ Done(t) /\ UNCHANGED <<files, caches, locks>>

\* A session is not used for twelve hours.
Age(s) ==
  /\ s \in rows \ aged /\ aged' = aged \cup {s}
  /\ UNCHANGED <<users, rows, made, caches, locks, stage, local>>

\* A process ends; so do its threads, its locks and its copy.
Kill(P) ==
  LET dead == {t \in Threads : ProcOf[t] = P} IN
  /\ \E t \in dead : stage[t] # "idle"
  /\ stage' = [t \in Threads |-> IF t \in dead THEN "idle" ELSE stage[t]]
  /\ req' = [t \in Threads |-> IF t \in dead THEN NoRequest ELSE req[t]]
  /\ copy' = [t \in Threads |-> IF t \in dead THEN {} ELSE copy[t]]
  /\ torn' = [t \in Threads |-> t \notin dead /\ torn[t]]
  /\ late' = [t \in Threads |-> t \notin dead /\ late[t]]
  /\ unread' = [t \in Threads |-> t \notin dead /\ unread[t]]
  /\ kept' = [kept EXCEPT ![P] = {}] /\ old' = [old EXCEPT ![P] = TRUE]
  /\ ulock' = IF ulock \in dead THEN Unlocked ELSE ulock
  /\ flock' = IF flock \in dead THEN Unlocked ELSE flock
  /\ mutex' = [mutex EXCEPT ![P] = Unlocked]
  /\ UNCHANGED files

Step(t) == \/ Begin(t) \/ ReadUsers(t) \/ WriteUsers(t) \/ Password(t)
           \/ Enter(t) \/ Rewrite(t) \/ Stamp(t) \/ Text(t) \/ Look(t) \/ Answer(t)

Next == \/ \E t \in Threads : Step(t)
        \/ \E s \in Sids : Age(s)
        \/ \E P \in Processes : Kill(P)

Spec == Init /\ [][Next]_vars

-----------------------------------------------------------------------------
\* The locks have one holder each, which is past taking it; what a process
\* keeps of the sessions is of sessions there have been.
TypeOK ==
  /\ users \in [People -> Entries \cup {Nobody}]
  /\ rows \subseteq made /\ aged \subseteq made /\ made \subseteq Sids
  /\ kept \in [Processes -> SUBSET made] /\ old \in [Processes -> BOOLEAN]
  /\ ulock \in Threads \cup {Unlocked} /\ flock \in Threads \cup {Unlocked}
  /\ \A t \in Threads :
       /\ (ulock = t) = At(t, "change") /\ (flock = t) = At(t, "rewrite")
       /\ (mutex[ProcOf[t]] = t) = (stage[t] \in {"rewrite", "text", "look"})
  /\ torn \in [Threads -> BOOLEAN] /\ late \in [Threads -> BOOLEAN]
  /\ unread \in [Threads -> BOOLEAN]

\* Every command changes one account, whoever else is at work, and once there
\* is an account there is an admin (users._locked, _require_not_last_admin,
\* default_role_for_new_account).
AccountsChangeOneByOne ==
  [][users' # users =>
       /\ \E m \in People : \A o \in People \ {m} : users'[o] = users[o]
       /\ Admins(users') # {}]_vars

\* A session that has ended does not come back into the file, and a request
\* that begins afterwards is not answered for it, in this process or another
\* (the stamp of sessions._load; "not revoked while we waited" in verify).
\* A request for which the file could not be read is exempt: it uses, and writes
\* back, what its process read of it earlier (sessions.py:163-164).
SessionsStayEnded ==
  [][/\ (rows' \ rows) \cap made # {} => \E t \in Threads : At(t, "rewrite") /\ unread[t]
     /\ \A t \in Threads : late[t] /\ Answered(t)' => unread[t]]_vars
=============================================================================
