----------------------------- MODULE DockerView -----------------------------
(****************************************************************************)
(* What the console shows of the Compose workspaces: the list, which every  *)
(* open tab asks for and which reads docker through a short-lived cache     *)
(* (runner.py, _cached_query), and the panel, which asks docker itself.     *)
(* Meanwhile a thread of `serve` acts on a workspace and clears the cache,  *)
(* and docker changes by itself, by other processes and by calls of `serve` *)
(* that do not clear it.  The first half is about when an answer was true:  *)
(* it stands for the moment of docker's that it was read from.  The second  *)
(* half is about what list and panel make of an answer.                     *)
(****************************************************************************)
EXTENDS Integers, Sequences

CONSTANTS Tabs,            \* threads of serve that answer a request
          Asks,            \* what each asks docker, in turn: list_repros whether it answers,
                           \* for the projects, and twice for the services
          Instances,       \* the Rocket.Chat services, in the order compose lists them
          QUERY_TTL, DOCKER_TTL,
          MaxTime,         \* bound of the clock
          MaxChanges       \* bound: changes of docker

Queries == UNION {{Asks[t][i] : i \in DOMAIN Asks[t]} : t \in Tabs}
Ttl(query) == IF query = "info" THEN DOCKER_TTL ELSE QUERY_TTL

VARIABLES
  clock,
  past,      \* the moments of docker, since when and whether it answers; the last is now
  cache,     \* the answers that serve keeps, by query: Unset or [at, value]
  tab,       \* the requests: where each is, at which question, since when and what it read
  acting,    \* a command is changing containers under _mutating
  settled    \* the moment at which the last such command was done

vars == <<clock, past, cache, tab, acting, settled>>

Unset == [at |-> -1]
\* An answer: the moment it was read at, and whether a command of serve was
\* done between its being read and its being kept.
Value(moment) == [moment |-> moment, late |-> FALSE]
Idle == [pc |-> "idle", next |-> 1, began |-> 0, value |-> Value(0)]

Init ==
  /\ clock = 0
  /\ \E answers \in BOOLEAN : past = <<[at |-> 0, answers |-> answers]>>
  /\ cache = [q \in Queries |-> Unset]
  /\ tab = [t \in Tabs |-> Idle]
  /\ acting = FALSE /\ settled = 1

-----------------------------------------------------------------------------
(* The requests.                                                           *)

Query(t) == Asks[t][tab[t].next]
Kept(query, now) == cache[query] # Unset /\ now - cache[query].at < Ttl(query)
Fresh(query) == Kept(query, clock)

Poll(t) ==
  /\ tab[t].pc = "idle"
  /\ tab' = [tab EXCEPT ![t].pc = "look"]
  /\ UNCHANGED <<clock, past, cache, acting, settled>>

\* The request goes on to its next question; list_repros asks a docker that does
\* not answer nothing more.
Got(t, value) ==
  LET last == \/ tab[t].next = Len(Asks[t])
              \/ Query(t) = "info" /\ ~past[value.moment].answers
  IN  tab' = [tab EXCEPT ![t] = IF last THEN Idle ELSE [Idle EXCEPT !.pc = "look", !.next = tab[t].next + 1]]

Hit(t) ==
  /\ tab[t].pc = "look" /\ Fresh(Query(t))
  /\ Got(t, cache[Query(t)].value)
  /\ UNCHANGED <<clock, past, cache, acting, settled>>

\* The time is taken before docker is asked.
Miss(t) ==
  /\ tab[t].pc = "look" /\ ~Fresh(Query(t))
  /\ tab' = [tab EXCEPT ![t].pc = "ask", ![t].began = clock]
  /\ UNCHANGED <<clock, past, cache, acting, settled>>

Ask(t) ==
  /\ tab[t].pc = "ask"
  /\ tab' = [tab EXCEPT ![t].pc = "store", ![t].value = Value(Len(past))]
  /\ UNCHANGED <<clock, past, cache, acting, settled>>

Store(t) ==
  /\ tab[t].pc = "store"
  /\ cache' = [cache EXCEPT ![Query(t)] = [at |-> tab[t].began, value |-> tab[t].value]]
  /\ Got(t, tab[t].value)
  /\ UNCHANGED <<clock, past, acting, settled>>

-----------------------------------------------------------------------------
(* What changes docker.                                                    *)

Changes(answers) ==
  /\ Len(past) <= MaxChanges
  /\ past' = Append(past, [at |-> clock, answers |-> answers])
  /\ UNCHANGED <<clock, cache, tab, acting, settled>>

Now == past[Len(past)]

\* A container comes or goes: under a compose command of serve; or in another
\* process, the `up` of a create, or the stops and starts around a dump or an
\* upgrade, all of which leave the cache alone; or on its own.
Change == Now.answers /\ Changes(TRUE)
DaemonStops == Now.answers /\ Changes(FALSE)
DaemonStarts == ~Now.answers /\ Changes(TRUE)

Act ==
  /\ ~acting
  /\ acting' = TRUE
  /\ UNCHANGED <<clock, past, cache, tab, settled>>

Done ==
  /\ acting /\ acting' = FALSE
  /\ settled' = Len(past)
  /\ tab' = [t \in Tabs |-> [tab[t] EXCEPT !.value.late = @ \/ tab[t].pc = "store"]]
  /\ UNCHANGED <<clock, past>>

\* Mutant of Return: what is kept expires by itself.
ReturnOnly == Done /\ UNCHANGED cache

\* The command has returned, or failed: the cache is cleared in any case.
Return == Done /\ cache' = [q \in Queries |-> Unset]

\* An answer that is kept too long is as good as none.
Tick ==
  /\ clock < MaxTime
  /\ clock' = clock + 1
  /\ cache' = [q \in Queries |-> IF Kept(q, clock + 1) THEN cache[q] ELSE Unset]
  /\ UNCHANGED <<past, tab, acting, settled>>

Next ==
  \/ \E t \in Tabs : Poll(t) \/ Hit(t) \/ Miss(t) \/ Ask(t) \/ Store(t)
  \/ Act \/ Return \/ Change \/ DaemonStops \/ DaemonStarts \/ Tick

-----------------------------------------------------------------------------
(* What list and panel make of the containers of a workspace: a status for *)
(* each service, "none" where it has no container.                          *)

Database == "mongodb"
Services == {Database} \cup {Instances[i] : i \in DOMAIN Instances}
Statuses == {"none", "up", "paused", "exited", "restarting"}
Boxes == [Services -> Statuses]

HasContainers(box) == \E s \in Services : box[s] # "none"

repro_state(status, has_containers) ==
  CASE status = "none"   -> IF has_containers THEN "stopped" ELSE "down"
    [] status = "up"     -> "running"
    [] status = "exited" -> "stopped"
    [] OTHER             -> status

\* A paused container is "Up 3 days (Paused)".
degraded_reason(box) == box[Database] \notin {"none", "up", "paused"}

Row(status, box) ==
  LET state == repro_state(status, HasContainers(box))
  IN  [state |-> state, degraded |-> state = "running" /\ degraded_reason(box)]

rc_status_by_project(box) == box[Instances[1]]
list_repros(box) == Row(rc_status_by_project(box), box)

\* The first instance that has a container.
rc_status(box) ==
  LET made == {i \in DOMAIN Instances : box[Instances[i]] # "none"}
  IN  IF made = {} THEN "none"
      ELSE box[Instances[CHOOSE i \in made : \A j \in made : i <= j]]
detail(box) == Row(rc_status(box), box)

-----------------------------------------------------------------------------
TypeOK ==
  /\ clock \in 0 .. MaxTime
  /\ \A i \in DOMAIN past : past[i].at \in 0 .. clock /\ past[i].answers \in BOOLEAN
  /\ \A q \in Queries : cache[q] = Unset \/ cache[q].value.moment \in DOMAIN past
  /\ \A t \in Tabs : tab[t].pc \in {"idle", "look", "ask", "store"} /\ tab[t].next \in DOMAIN Asks[t]
  /\ acting \in BOOLEAN /\ settled \in DOMAIN past

\* An answer that will be shown was still true less than its time to live ago.
Young(query) ==
  LET moment == cache[query].value.moment
  IN  moment < Len(past) => past[moment + 1].at + Ttl(query) > clock

\* It is not from before a command of serve that is done, but for one that was
\* read before the command was done and kept afterwards.
AfterTheAction(query) ==
  cache[query].value.late \/ cache[query].value.moment >= settled

\* Of one moment, list and panel say the same, unless the first instance alone
\* has lost its container.
RowIsThePanels ==
  \A box \in Boxes :
    rc_status_by_project(box) # "none" \/ rc_status(box) = "none"
    => list_repros(box) = detail(box)

\* ViewsAreHonest: the console shows nothing older than its
\* cache may be, shows what it has done once that is done (runner.py:414-424,
\* 923-928), and its list agrees with its panel (lifecycle.py:2403-2410).  The last
\* part is the same in every state, and looked at while the clock stands at its start.
ViewsAreHonest ==
  /\ \A query \in Queries : Fresh(query) => Young(query) /\ AfterTheAction(query)
  /\ past[1].at = clock => RowIsThePanels
=============================================================================
