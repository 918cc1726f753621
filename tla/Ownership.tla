----------------------------- MODULE Ownership ------------------------------
(***************************************************************************)
(* Whose a workspace is, and which one a typed word means.  `up` makes a   *)
(* name out of the word and the person, every other command has to find it *)
(* again; deleting data is for owners and admins.  services/lifecycle.py,  *)
(* cli.py up, down, use, chown and prune, web/app.py's routes.  A name is  *)
(* the sequence of its parts, which the source joins by dashes.            *)
(***************************************************************************)
EXTENDS Naturals, SequencesExt, FiniteSetsExt

CONSTANTS People,     \* names of accounts, each a sequence
          Asserting,  \* those who set RC_REPRO_USER
          Roles,      \* the roles each may be given, "none" for no account
          Words,      \* what is typed: its parts, and whether it is odd (TICKET-1)
          Unnamed,    \* no word at all; a default_repro is left out
          Shells,     \* tasks that delete
          Base,       \* the name made of a version and a preset
          MaxSpaces   \* workspaces at a time

VARIABLES spaces,    \* the records: name -> [made, owner]
          role,      \* of each account
          policy,    \* gui.destroy_policy
          task       \* of each shell

vars == <<spaces, role, policy, task>>

NoOne == <<>>
NoName == <<>>
Idle == [at |-> "idle", who |-> NoOne, name |-> NoName, undisturbed |-> TRUE]

Init == /\ spaces = << >>
        /\ role = [p \in People |-> "none"]
        /\ policy \in {"owner", "anyone"}
        /\ task = [t \in Shells |-> Idle]

Exists(n) == n \in DOMAIN spaces
any_users == \E p \in People : role[p] # "none"

\* Who the command line takes p for; an asserted name needs no account.
cli_actor(p) ==
  IF any_users /\ (p \in Asserting \/ role[p] # "none") THEN p ELSE NoOne

-----------------------------------------------------------------------------
(* Names *)

sanitize(w) == w.parts
legal(w) == ~w.odd /\ w.parts # NoName

\* `name`, unless it begins with the actor's already.
owner_prefix(name, who) ==
  IF IsStrictPrefix(who, name) \/ who = NoOne THEN name ELSE who \o name

derive_name(who) == who \o Base

\* The name `up` makes, none of a word without usable characters.
derive_for(w, who) ==
  IF w = Unnamed THEN derive_name(who)
  ELSE IF sanitize(w) = NoName THEN NoName ELSE owner_prefix(sanitize(w), who)

\* What is typed, what `up` would make of it, and that without the person.
name_candidates(w, who) ==
  LET exact == IF legal(w) THEN <<w.parts>> ELSE <<>>
      made == IF sanitize(w) = NoName THEN <<>> ELSE <<owner_prefix(sanitize(w), who), sanitize(w)>>
  IN exact \o made

\* The first of them that exists.
resolve_name(w, who) ==
  LET names == name_candidates(w, who)
      found == {i \in DOMAIN names : Exists(names[i])}
  IN IF found = {} THEN NoName ELSE names[CHOOSE i \in found : \A j \in found : i <= j]

-----------------------------------------------------------------------------
(* Owners *)

\* Mutant of owner_of: the one who made it.
MakerOf(n) == IF Exists(n) THEN spaces[n].made ELSE NoOne

\* Who owns n now: the one it was handed to, else its maker.
owner_of(n) ==
  IF ~Exists(n) THEN NoOne
  ELSE IF spaces[n].owner # NoOne THEN spaces[n].owner ELSE spaces[n].made

may_destroy(n, who) ==
  \/ policy = "anyone" \/ who = NoOne
  \/ who \in People /\ role[who] = "admin"
  \/ owner_of(n) \in {NoOne, who}

\* The shells that wait to delete one of `names` no longer act on what they checked.
Disturb(names) ==
  task' = [t \in Shells |-> IF task[t].name \in names
                            THEN [task[t] EXCEPT !.undisturbed = FALSE] ELSE task[t]]

\* `up`: a workspace that exists is used again unless it is rebuilt, which
\* writes its record anew.
Up(p, w, rebuild) ==
  LET who == cli_actor(p)
      n == derive_for(w, who)
      fresh == [made |-> who, owner |-> NoOne]
      new == ~Exists(n) \/ rebuild
  IN /\ n # NoName
     /\ Exists(n) \/ Cardinality(DOMAIN spaces) < MaxSpaces
     /\ spaces' = IF new THEN [m \in DOMAIN spaces \cup {n} |-> IF m = n THEN fresh ELSE spaces[m]] ELSE spaces
     /\ IF new THEN Disturb({n}) ELSE UNCHANGED task
     /\ UNCHANGED <<role, policy>>

\* `chown` looks for the word without the person.
set_owner(w, to) ==
  LET n == resolve_name(w, NoOne) IN
  /\ n # NoName
  /\ any_users => role[to] # "none"
  /\ spaces' = [spaces EXCEPT ![n].owner = to]
  /\ Disturb({n})
  /\ UNCHANGED <<role, policy>>

SetRole(p, r) ==
  /\ role' = [role EXCEPT ![p] = r]
  /\ Disturb(DOMAIN spaces)
  /\ UNCHANGED <<spaces, policy>>

-----------------------------------------------------------------------------
(* Deleting: asked for, checked, done once the lock is free *)

Ask(t, who, n) ==
  /\ task[t].at = "idle"
  /\ task' = [task EXCEPT ![t] = [at |-> "asked", who |-> who, name |-> n, undisturbed |-> TRUE]]
  /\ UNCHANGED <<spaces, role, policy>>

\* `down --volumes` shows whose it is, and waits for the person.
AskDown(t, p, w) ==
  LET n == resolve_name(w, cli_actor(p)) IN n # NoName /\ Ask(t, cli_actor(p), n)

\* The GUI has the word as it is, and checks before there is a job.
check_teardown_request(t, p, w) ==
  LET who == IF any_users THEN p ELSE NoOne
      n == resolve_name(w, NoOne)
  IN /\ n # NoName
     /\ any_users => role[p] # "none"
     /\ may_destroy(n, who)
     /\ Ask(t, who, n)

prunable(who) == {n \in DOMAIN spaces : may_destroy(n, who)}

\* `prune` shows what it would delete, here one of it.
AskPrune(t, p) == \E n \in prunable(cli_actor(p)) : Ask(t, cli_actor(p), n)

\* The check of teardown, and the second list of prune.
Allowed(t) == task[t].name \in prunable(task[t].who)

Check(t) ==
  /\ task[t].at = "asked"
  /\ task' = [task EXCEPT ![t] = IF Allowed(t) THEN [@ EXCEPT !.at = "waiting", !.undisturbed = TRUE] ELSE Idle]
  /\ UNCHANGED <<spaces, role, policy>>

Destroy(t) ==
  LET n == task[t].name IN
  /\ task[t].at = "waiting"
  /\ spaces' = [m \in DOMAIN spaces \ {n} |-> spaces[m]]
  /\ task' = [s \in Shells |-> IF s = t THEN Idle
                               ELSE IF task[s].name = n THEN [task[s] EXCEPT !.undisturbed = FALSE] ELSE task[s]]
  /\ UNCHANGED <<role, policy>>

\* The lock is not free for a minute, or docker refuses.
GiveUp(t) ==
  /\ task[t].at # "idle"
  /\ task' = [task EXCEPT ![t] = Idle]
  /\ UNCHANGED <<spaces, role, policy>>

Next ==
  \/ \E p \in People, w \in Words, rebuild \in BOOLEAN : Up(p, w, rebuild)
  \/ \E w \in Words, to \in People : set_owner(w, to)
  \/ \E p \in People : \E r \in Roles[p] : SetRole(p, r)
  \/ \E t \in Shells, p \in People : AskPrune(t, p)
  \/ \E t \in Shells, p \in People, w \in Words : AskDown(t, p, w) \/ check_teardown_request(t, p, w)
  \/ \E t \in Shells : Check(t) \/ Destroy(t) \/ GiveUp(t)

Spec == Init /\ [][Next]_vars
-----------------------------------------------------------------------------
TypeOK ==
  /\ \A n \in DOMAIN spaces : /\ n # NoName
                              /\ spaces[n] \in [made : People \cup {NoOne}, owner : People \cup {NoOne}]
  /\ \A p \in People : role[p] \in Roles[p]
  /\ \A t \in Shells : task[t].at \in {"idle", "asked", "waiting"}

\* A word that made a workspace finds it: for the same person, and for one who
\* made it before there were accounts, unless a name of their own or the word
\* itself comes first (lifecycle.py:525-556).
Finds == \A p \in People, w \in Words :
  LET who == cli_actor(p)
      now == derive_for(w, who)
      before == derive_for(w, NoOne)
      exact == legal(w) /\ Exists(w.parts)
      one == resolve_name(w, who)
  IN w # Unnamed =>
       /\ exact => one = w.parts
       /\ ~exact /\ Exists(now) => one = now
       /\ ~exact /\ ~Exists(now) /\ Exists(before) => one = before

\* A person's `up` takes no workspace that somebody else made: two who type
\* --name test do not meet (lifecycle.py:70-78, 88-93).
Apart == \A p \in People, w \in Words :
  LET n == derive_for(w, cli_actor(p))
  IN cli_actor(p) # NoOne /\ Exists(n) => spaces[n].made \in {NoOne, p}

NamesFindTheirs == Finds /\ Apart

\* What is deleted belongs to the one who deletes it, was nobody's, or an admin
\* deletes it; unless it was handed over, rebuilt or made again, or roles were
\* changed, since the check and while the lock was waited for
\* (lifecycle.py:3022-3060).
Owned(n, who) ==
  LET it == spaces[n] IN
  IF it.owner # NoOne THEN it.owner = who ELSE it.made \in {NoOne, who}
DestroysItsOwn == \A t \in Shells :
  (/\ task[t].at = "waiting" /\ task'[t].at = "idle"
   /\ Exists(task[t].name) /\ task[t].name \notin DOMAIN spaces'
   /\ task[t].undisturbed)
    => \/ policy = "anyone" \/ task[t].who = NoOne
       \/ role[task[t].who] = "admin"
       \/ Owned(task[t].name, task[t].who)
=============================================================================
