----------------------------- MODULE SeedRooms -----------------------------
(****************************************************************************)
(* A seed, what it reports, and the check that follows it (seed.py: seed,   *)
(* readback, verify; lifecycle.check_seed).  The rooms of the plan are made *)
(* one after the other through Rocket.Chat's API, filled, and read back.    *)
(* A call may be refused, or carried out and its answer lost, or answered   *)
(* with a page of a proxy's in place of JSON; a workspace may have been     *)
(* seeded before.                                                           *)
(****************************************************************************)
EXTENDS Naturals, Sequences, FiniteSets, SequencesExt

CONSTANTS Plan,     \* the rooms in order; a team before its channels
          Kind,     \* Kind[r]: "channel", "team", "teamroom", "discussion" or "dm"
          Parent,   \* Parent[r]: the team of a teamroom, the room of a discussion
          Want,     \* messages planned for every room (bound)
          Outcomes, \* of a call: a subset of {"ok", "refused", "lost"} with "ok"
          MaxPages, \* bound: answers that are a page in place of JSON
          Earlier   \* bound: what seeds before may have left: rooms, with their messages

Rooms == ToSet(Plan)
Discussions == {r \in Rooms : Kind[r] = "discussion"}
TeamRooms == {r \in Rooms : Kind[r] = "teamroom"}
Dms == {r \in Rooms : Kind[r] = "dm"}

VARIABLES
  there,     \* the rooms Rocket.Chat has
  content,   \* content[r]: messages in r
  inTeam,    \* the team channels that are in their team
  step,      \* "create", "fill", "discuss", "read" or "done"
  at,        \* position in the plan
  sent,      \* messages tried in the room at hand
  rid,       \* the rooms the seed has an id for
  teamIds,   \* the teams it made itself
  failed,    \* the rooms it calls failed
  blank,     \* the rooms whose creation was answered, and without an id
  counted,   \* counted[r]: messages it reports
  before,    \* content when it began
  fact,      \* fact[r]: what readback knows of r
  unowned,   \* the dms whose first user could not sign in
  paged      \* history: <<"sent", r>>, <<"read", r>>: a page was an answer about r

server == <<there, content, inTeam>>
report == <<rid, teamIds, failed, blank, counted>>
vars == <<server, step, at, sent, report, before, fact, unowned, paged>>

Unread == [found |-> FALSE, unreadable |-> FALSE, messages |-> 0, inTeam |-> TRUE]

\* A workspace that a seed, or part of one, may have been put into before.  A
\* discussion is made anew each time.
Init ==
  /\ \E left \in Earlier :
       /\ there = DOMAIN left
       /\ content = [r \in Rooms |-> IF r \in DOMAIN left THEN left[r] ELSE 0]
  /\ inTeam \in SUBSET (there \cap TeamRooms)
  /\ step = "create" /\ at = 1 /\ sent = 0
  /\ rid = {} /\ teamIds = {} /\ failed = {} /\ blank = {} /\ paged = {}
  /\ unowned \in SUBSET Dms /\ ("refused" \notin Outcomes => unowned = {})
  /\ counted = [r \in Rooms |-> 0] /\ before = content
  /\ fact = [r \in Rooms |-> Unread]

Room == Plan[at]

\* The next room of this part of the seed; after the last, the next part.
After(part) == [create |-> "fill", fill |-> "discuss", discuss |-> "read", read |-> "done"][part]
NextRoom ==
  IF at < Len(Plan) THEN at' = at + 1 /\ step' = step
  ELSE at' = 1 /\ step' = After(step)
Advance == NextRoom /\ sent' = 0

-----------------------------------------------------------------------------
\* A 200 whose body is no JSON, as a front proxy gives.
Page == Cardinality(blank) + Cardinality(paged) < MaxPages

\* The room exists, and a team channel is put into its team if the seed has the
\* team's id.  A dm is made by its first user; the admin makes another room.
Make(r) ==
  /\ there' = there \cup ({r} \ unowned)
  /\ inTeam' = IF Kind[r] = "teamroom" /\ Parent[r] \in teamIds THEN inTeam \cup {r} ELSE inTeam

Answered(r) ==
  /\ rid' = rid \cup {r}
  /\ teamIds' = IF Kind[r] = "team" THEN teamIds \cup {r} ELSE teamIds
  /\ UNCHANGED failed

\* _lookup: a room that could not be made may be there already.  A page is as
\* good as a refusal.
Reuse(r) ==
  \/ r \in there' /\ rid' = rid \cup {r} /\ UNCHANGED <<teamIds, failed>>
  \/ /\ r \notin there' \/ "refused" \in Outcomes
     /\ failed' = failed \cup {r} /\ UNCHANGED <<rid, teamIds>>

\* im.create finds the room of the two users again; there is nothing to look up.
MakeDm(r) ==
  \/ Make(r) /\ Answered(r)
  \/ "lost" \in Outcomes /\ Make(r) /\ failed' = failed \cup {r} /\ UNCHANGED <<rid, teamIds>>
  \/ "refused" \in Outcomes /\ failed' = failed \cup {r} /\ UNCHANGED <<there, inTeam, rid, teamIds>>

MakeRoom(r) ==
  \/ r \notin there /\ Make(r) /\ Answered(r)
  \/ r \notin there /\ "lost" \in Outcomes /\ Make(r) /\ Reuse(r)
  \/ /\ r \in there \/ "refused" \in Outcomes
     /\ UNCHANGED <<there, inTeam>> /\ Reuse(r)

\* _json of a 200 that is a page is {}: no id and no failure, made or not.
NoId(r) ==
  /\ Page
  /\ \/ UNCHANGED <<there, inTeam>>
     \/ r \notin there /\ Make(r)
  /\ blank' = blank \cup {r} /\ UNCHANGED <<rid, teamIds, failed>>

Create ==
  /\ step = "create"
  /\ \/ /\ CASE Kind[Room] = "discussion" -> UNCHANGED <<there, inTeam, rid, teamIds, failed>>
            [] Kind[Room] = "dm" -> MakeDm(Room)
            [] OTHER -> MakeRoom(Room)
        /\ UNCHANGED blank
     \/ Room \notin Discussions /\ NoId(Room)
  /\ Advance
  /\ UNCHANGED <<content, counted, before, fact, unowned, paged>>

Arrives(r) == content' = [content EXCEPT ![r] = IF r \in unowned THEN @ ELSE @ + 1]
Counts(r) == counted' = [counted EXCEPT ![r] = @ + 1]

\* chat.sendMessage; what was answered with a 200 is counted.
Send(r) ==
  /\ \/ Arrives(r) /\ Counts(r) /\ UNCHANGED paged
     \/ "lost" \in Outcomes /\ Arrives(r) /\ UNCHANGED <<counted, paged>>
     \/ "refused" \in Outcomes /\ UNCHANGED <<content, counted, paged>>
     \/ /\ Page /\ Counts(r) /\ (Arrives(r) \/ UNCHANGED content)
        /\ paged' = paged \cup {<<"sent", r>>}
  /\ sent' = sent + 1

Fill ==
  /\ \/ step = "fill" /\ Room \notin Discussions
     \/ step = "discuss" /\ Room \in Discussions
  /\ Room \in rid /\ sent < Want
  /\ Send(Room)
  /\ UNCHANGED <<there, inTeam, step, at, rid, teamIds, failed, blank, before, fact, unowned>>

\* Full, or there is no id to send to, or the room is not of this part.
Filled ==
  /\ step \in {"fill", "discuss"}
  /\ \/ (step = "discuss") # (Room \in Discussions)
     \/ sent = Want
     \/ Room \notin rid /\ (Room \in Discussions => Room \in failed \cup blank)
  /\ Advance
  /\ UNCHANGED <<server, report, before, fact, unowned, paged>>

Discuss ==
  /\ step = "discuss" /\ Room \in Discussions \ (rid \cup failed \cup blank)
  /\ \/ Parent[Room] \in rid /\ Make(Room) /\ Answered(Room) /\ UNCHANGED blank
     \/ Parent[Room] \in rid /\ NoId(Room)
     \/ /\ Parent[Room] \in rid /\ "lost" \in Outcomes
        /\ Make(Room) /\ failed' = failed \cup {Room} /\ UNCHANGED <<rid, teamIds, blank>>
     \/ /\ Parent[Room] \notin rid \/ "refused" \in Outcomes
        /\ failed' = failed \cup {Room} /\ UNCHANGED <<there, inTeam, rid, teamIds, blank>>
  /\ UNCHANGED <<content, step, at, sent, counted, before, fact, unowned, paged>>

-----------------------------------------------------------------------------
\* A discussion whose parent was not found is not looked for.
Orphan(r) == Kind[r] = "discussion" /\ ~fact[Parent[r]].found

\* Mutant of Facts: a refused read is taken for "not there".
FactsOfRefused(r) ==
  IF r \notin there THEN {Unread}
  ELSE {Unread} \cup {[Unread EXCEPT !.found = TRUE, !.messages = content[r],
                                     !.inTeam = r \notin TeamRooms \/ r \in inTeam]}

\* readback of one room: its info, its messages, and for a team channel the
\* rooms of the team.  A read that is refused leaves the room unreadable, the
\* last one leaves it out of its team.
Facts(r) ==
  LET lost == [Unread EXCEPT !.unreadable = TRUE]
      full == [Unread EXCEPT !.found = TRUE, !.messages = content[r],
                             !.inTeam = r \notin TeamRooms \/ r \in inTeam]
  IN
  IF Orphan(r) THEN {IF fact[Parent[r]].unreadable THEN lost ELSE Unread}
  ELSE (IF r \in there THEN {full} ELSE {Unread})
       \cup (IF "refused" \in Outcomes THEN {lost} ELSE {})
       \cup (IF "refused" \in Outcomes /\ r \in there
             THEN {[lost EXCEPT !.found = TRUE]} ELSE {})
       \cup (IF "refused" \in Outcomes /\ r \in there \cap TeamRooms
             THEN {[full EXCEPT !.inTeam = FALSE]} ELSE {})

\* A page says of the room, of its messages, or of its team that there are none.
PagedFacts(r) ==
  {Unread} \cup {[found |-> TRUE, unreadable |-> FALSE, messages |-> n, inTeam |-> in] :
                n \in {0, content[r]}, in \in {r \notin TeamRooms, r \notin TeamRooms \/ r \in inTeam}}

Readback ==
  /\ step = "read"
  /\ \/ /\ fact' \in {[fact EXCEPT ![Room] = f] : f \in Facts(Room)}
        /\ paged' = IF Orphan(Room) /\ <<"read", Parent[Room]>> \in paged
                    THEN paged \cup {<<"read", Room>>} ELSE paged
     \/ /\ Page /\ ~Orphan(Room)
        /\ fact' \in {[fact EXCEPT ![Room] = f] :
                       f \in IF Room \in there THEN PagedFacts(Room) ELSE {Unread}}
        /\ paged' = paged \cup {<<"read", Room>>}
  /\ Advance
  /\ UNCHANGED <<server, report, before, unowned>>

\* verify: what is unreadable is no fault, more than the plan is none either.
FaultyRooms == {r \in Rooms : /\ ~fact[r].unreadable
                              /\ ~fact[r].found \/ fact[r].messages < Want \/ ~fact[r].inTeam}
Unreadable == {r \in Rooms : fact[r].unreadable}
Ok == FaultyRooms = {}

Done == step = "done" /\ UNCHANGED vars

Next == Create \/ Fill \/ Filled \/ Discuss \/ Readback \/ Done

Spec == Init /\ [][Next]_vars

-----------------------------------------------------------------------------
TypeOK ==
  /\ there \subseteq Rooms /\ inTeam \subseteq there \cap TeamRooms
  /\ content \in [Rooms -> 0..(2 * Want)] /\ counted \in [Rooms -> 0..Want]
  /\ step \in {"create", "fill", "discuss", "read", "done"}
  /\ at \in 1..Len(Plan) /\ sent \in 0..Want
  /\ rid \subseteq Rooms /\ teamIds \subseteq rid /\ failed \subseteq Rooms \ rid
  /\ blank \subseteq Rooms \ (rid \cup failed)
  /\ unowned \subseteq Dms /\ paged \subseteq {"sent", "read"} \X Rooms
  /\ fact \in [Rooms -> [found : BOOLEAN, unreadable : BOOLEAN,
                         messages : 0..(2 * Want), inTeam : BOOLEAN]]

\* What a seed says is so, whatever was refused or lost and whatever was there
\* before it: a room it calls created exists, a message it counts arrived, a
\* plan found complete is complete, and nothing is called missing that is there
\* (_result; readback's ABSENT and unreadable; verify).  Left out are a team
\* channel whose team could not be read, which is called a fault; a dm that the
\* admin made, which is another room; and what was counted, or not found, on the
\* word of a 200 without JSON (seed.py:503-519, 638-640).
SeedReportIsTrue ==
  step = "done" =>
    /\ rid \ unowned \subseteq there
    /\ \A r \in Rooms \ unowned :
         counted[r] <= content[r] - before[r] \/ <<"sent", r>> \in paged
    /\ Ok /\ Unreadable = {} =>
         \A r \in Rooms : r \in there /\ content[r] >= Want /\ (r \in TeamRooms => r \in inTeam)
    /\ \A r \in FaultyRooms \ TeamRooms :
         r \notin there \/ content[r] < Want \/ <<"read", r>> \in paged
=============================================================================
