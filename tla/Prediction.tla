----------------------------- MODULE Prediction -----------------------------
(***************************************************************************)
(* The prediction service: groups and their members, the picks they submit *)
(* while a match's lock window is open, and lock_match, which locks every  *)
(* pick of a match, adds an automatic loss for each member without one and *)
(* publishes a PickLocked event per group.                                 *)
(*                                                                         *)
(* Request threads, the lock job and an administrator's force-lock share   *)
(* the tables under READ COMMITTED.  A call reads with one SELECT after    *)
(* another, takes no lock on what it read, and writes everything when it   *)
(* commits: the INSERTs meet the unique constraint, the UPDATEs set the    *)
(* columns whose value differs from the value read.                        *)
(*                                                                         *)
(* A match's stake is left out: Fixture never changes it, so it is the     *)
(* same whenever a pick row is made.                                       *)
(***************************************************************************)
EXTENDS Integers, FiniteSets

CONSTANTS
    Users, Groups, Matches,
    Outcomes,       \* what a player may predict
    Null,           \* SQL NULL: no prediction
    Requests,       \* request threads of players
    Job,            \* the scheduler's lock job (max_instances=1)
    Admins,         \* request threads of administrators
    LockTimes,      \* times a match's lock_at may be set to
    MaxClock,       \* bound: the last moment of the clock
    MaxFaults       \* bound: injected failures in one behaviour

ASSUME PredictionAssumption ==
    /\ Null \notin Outcomes
    /\ Job \notin Admins
    /\ LockTimes \subseteq Nat
    /\ MaxClock \in Nat /\ MaxFaults \in Nat

Lockers == Admins \cup {Job}

-----------------------------------------------------------------------------
VARIABLES
    members,      \* group_members: <<group, user>>; a group has its owner in it
    clock,
    refs,         \* match_ref: [status, lockAt] of each match
    picks,        \* picks: [group, user, match, predicted, status]
    request,      \* the submit_pick call of each request thread
    due,          \* matches the current round of the lock job has still to lock
    run,          \* the lock_match call of each locker
    announced,    \* contents of the PickLocked events on the exchange
    faults

vars == <<clock, members, refs, picks, request, due, run, announced, faults>>

PickRow == [group : Groups, user : Users, match : Matches,
            predicted : Outcomes \cup {Null}, status : {"OPEN", "LOCKED"}]

\* An entry of picks_payload; found says whether the pick row was there already.
PayloadLine == [group : Groups, user : Users, predicted : Outcomes \cup {Null}, found : BOOLEAN]

PickLocked == [match : Matches, group : Groups,
               picks : SUBSET [user : Users, predicted : Outcomes \cup {Null}]]

NoRequest == [step |-> "idle"]
NoRun == [step |-> "idle"]

\* The row before the first sync.
NoRef == [status |-> "absent", lockAt |-> 0]

Submission == [step : {"check", "read", "insert", "update"}, now : 0..MaxClock,
               user : Users, group : Groups, match : Matches, predicted : Outcomes]

\* lock_match before its first query, while it reads, once the locks are committed.
Run ==
    {NoRun}
    \cup [step : {"groups"}, match : Matches]
    \cup [step : {"picks"}, match : Matches, groups : SUBSET Groups,
          todo : SUBSET (Groups \X Users), lines : SUBSET PayloadLine]
    \cup [step : {"publish"}, match : Matches, events : SUBSET PickLocked]

Ref == {NoRef} \cup [status : {"SCHEDULED", "LOCKED"}, lockAt : LockTimes]

TypeOK ==
    /\ members \subseteq Groups \X Users
    /\ clock \in 0..MaxClock
    /\ refs \in [Matches -> Ref]
    /\ picks \subseteq PickRow
    /\ request \in [Requests -> {NoRequest} \cup Submission]
    /\ due \subseteq Matches
    /\ run \in [Lockers -> Run]
    /\ announced \subseteq PickLocked
    /\ faults \in Nat

Init ==
    /\ members = {}
    /\ clock = 0
    /\ refs = [m \in Matches |-> NoRef]
    /\ picks = {}
    /\ request = [r \in Requests |-> NoRequest]
    /\ due = {}
    /\ run = [w \in Lockers |-> NoRun]
    /\ announced = {}
    /\ faults = 0

-----------------------------------------------------------------------------
(***************************************************************************)
(* Groups, the fixture sync and the clock.                                 *)
(***************************************************************************)
MembersOf(g) == {u \in Users : <<g, u>> \in members}

CreateGroup(g, u) ==
    /\ MembersOf(g) = {}
    /\ members' = members \cup {<<g, u>>}
    /\ UNCHANGED <<clock, refs, picks, request, due, run, announced, faults>>

\* Joining twice returns the existing membership; two requests at once meet the
\* unique constraint.
JoinGroup(g, u) ==
    /\ MembersOf(g) # {}
    /\ u \notin MembersOf(g)
    /\ members' = members \cup {<<g, u>>}
    /\ UNCHANGED <<clock, refs, picks, request, due, run, announced, faults>>

\* sync_match_ref inserts the matches it has not seen; of the known ones it
\* refreshes the fixture's own columns (an administrator may move a kickoff),
\* never the status.  All of Fixture's matches are in its list, one commit.
SyncMatchRef(lockAt) ==
    /\ refs' = [m \in Matches |->
          [status |-> IF refs[m] = NoRef THEN "SCHEDULED" ELSE refs[m].status,
           lockAt |-> lockAt[m]]]
    /\ UNCHANGED <<clock, members, picks, request, due, run, announced, faults>>

Tick ==
    /\ clock < MaxClock
    /\ clock' = clock + 1
    /\ UNCHANGED <<members, refs, picks, request, due, run, announced, faults>>

-----------------------------------------------------------------------------
(***************************************************************************)
(* submit_pick.  The time is read first, the match and the pick later.     *)
(***************************************************************************)
SubmitPick(r, u, g, m, p) ==
    /\ request[r] = NoRequest
    /\ request' = [request EXCEPT ![r] = [step |-> "check", now |-> clock, user |-> u,
                                          group |-> g, match |-> m, predicted |-> p]]
    /\ UNCHANGED <<clock, members, refs, picks, due, run, announced, faults>>

\* 403, 404 or 409 unless the user is a member and the window is open.
CheckWindow(r) ==
    LET q == request[r] IN
    /\ q.step = "check"
    /\ request' = [request EXCEPT ![r] =
          IF /\ q.user \in MembersOf(q.group)
             /\ refs[q.match].status = "SCHEDULED" /\ q.now < refs[q.match].lockAt
          THEN [q EXCEPT !.step = "read"] ELSE NoRequest]
    /\ UNCHANGED <<clock, members, refs, picks, due, run, announced, faults>>

RowsOf(g, u, m) == {row \in picks : row.group = g /\ row.user = u /\ row.match = m}

RequestedRows(r) == RowsOf(request[r].group, request[r].user, request[r].match)

\* A pick that is not OPEN is refused; one with this prediction needs no UPDATE.
ReadPick(r) ==
    /\ request[r].step = "read"
    /\ request' = [request EXCEPT ![r] =
          CASE RequestedRows(r) = {} -> [@ EXCEPT !.step = "insert"]
            [] \E row \in RequestedRows(r) :
                  row.status = "OPEN" /\ row.predicted # request[r].predicted
                     -> [@ EXCEPT !.step = "update"]
            [] OTHER -> NoRequest]
    /\ UNCHANGED <<clock, members, refs, picks, due, run, announced, faults>>

\* The INSERT fails if another call has inserted the row; the UPDATE goes by id.
CommitPick(r) ==
    LET q == request[r] IN
    /\ \/ /\ q.step = "insert"
          /\ picks' = IF RequestedRows(r) = {}
                      THEN picks \cup {[group |-> q.group, user |-> q.user, match |-> q.match,
                                        predicted |-> q.predicted, status |-> "OPEN"]}
                      ELSE picks
       \/ /\ q.step = "update"
          /\ picks' = (picks \ RequestedRows(r)) \cup
                      {[row EXCEPT !.predicted = q.predicted] : row \in RequestedRows(r)}
    /\ request' = [request EXCEPT ![r] = NoRequest]
    /\ UNCHANGED <<clock, members, refs, due, run, announced, faults>>

-----------------------------------------------------------------------------
(***************************************************************************)
(* The lock job and lock_match.                                            *)
(***************************************************************************)
WindowClosed(m) == refs[m].status = "SCHEDULED" /\ refs[m].lockAt <= clock

QueryDue ==
    /\ due = {} /\ run[Job] = NoRun
    /\ due' = {m \in Matches : WindowClosed(m)}
    /\ UNCHANGED <<clock, members, refs, picks, request, run, announced, faults>>

\* The job locks the matches of its round one by one, an administrator any
\* match at any time; a match that is absent or LOCKED is left alone.
LockMatch(w, m) ==
    /\ run[w] = NoRun
    /\ w = Job => m \in due
    /\ due' = IF w = Job THEN due \ {m} ELSE due
    /\ run' = IF refs[m].status = "SCHEDULED"
              THEN [run EXCEPT ![w] = [step |-> "groups", match |-> m]] ELSE run
    /\ UNCHANGED <<clock, members, refs, picks, request, announced, faults>>

ReadGroups(w) ==
    /\ run[w].step = "groups"
    /\ run' = [run EXCEPT ![w] = [step |-> "picks", match |-> @.match,
                                  groups |-> {g \in Groups : MembersOf(g) # {}},
                                  todo |-> {}, lines |-> {}]]
    /\ UNCHANGED <<clock, members, refs, picks, request, due, announced, faults>>

ReadMembers(w, g) ==
    /\ run[w].step = "picks"
    /\ run[w].todo = {} /\ g \in run[w].groups
    /\ run' = [run EXCEPT ![w] =
          [run[w] EXCEPT !.groups = @ \ {g}, !.todo = {g} \X MembersOf(g)]]
    /\ UNCHANGED <<clock, members, refs, picks, request, due, announced, faults>>

PayloadOf(g, u, m) ==
    LET rows == RowsOf(g, u, m) IN
    [group |-> g, user |-> u, found |-> rows # {},
     predicted |-> IF rows = {} THEN Null ELSE (CHOOSE row \in rows : TRUE).predicted]

ReadMemberPick(w, g, u) ==
    /\ run[w].step = "picks"
    /\ <<g, u>> \in run[w].todo
    /\ run' = [run EXCEPT ![w] =
          [run[w] EXCEPT !.todo = @ \ {<<g, u>>},
                         !.lines = @ \cup {PayloadOf(g, u, run[w].match)}]]
    /\ UNCHANGED <<clock, members, refs, picks, request, due, announced, faults>>

Events(m, lines) ==
    {[match |-> m, group |-> g,
      picks |-> {[user |-> line.user, predicted |-> line.predicted] :
                    line \in {x \in lines : x.group = g}}] :
        g \in {x.group : x \in lines}}

\* Defects: no unique constraint on picks; re-locking inserts every pick again.
NoConflicts(w) == {}

ConflictsOnRelock(w) ==
    {line \in run[w].lines : RowsOf(line.group, line.user, run[w].match) # {}}

\* Rows that another call inserted after this one looked for them.
Conflicts(w) ==
    {line \in run[w].lines :
        ~line.found /\ RowsOf(line.group, line.user, run[w].match) # {}}

\* Defect: a status the other code does not know.
LockedLowercase(rows) == {[row EXCEPT !.status = "locked"] : row \in rows}

Locked(rows) == {[row EXCEPT !.status = "LOCKED"] : row \in rows}

\* The first commit: found picks become LOCKED, the synthetic ones are inserted.
PersistLocks(w) ==
    LET m == run[w].match
        found == UNION {RowsOf(line.group, line.user, m) : line \in run[w].lines} IN
    /\ run[w].step = "picks"
    /\ run[w].groups = {} /\ run[w].todo = {}
    /\ Conflicts(w) = {}
    /\ picks' = (picks \ found) \cup Locked(found) \cup
                {[group |-> line.group, user |-> line.user, match |-> m,
                  predicted |-> Null, status |-> "LOCKED"] :
                    line \in {x \in run[w].lines : ~x.found}}

\* Defects: the events go out before the picks are committed; the match is
\* marked with the picks, before the events are out.
PublishBeforeCommit(w) ==
    /\ run[w].step = "picks"
    /\ run[w].groups = {} /\ run[w].todo = {}
    /\ run' = [run EXCEPT ![w] = [step |-> "publish", match |-> @.match,
                                  events |-> Events(@.match, @.lines)]]
    /\ UNCHANGED <<clock, members, refs, picks, request, due, announced, faults>>

CommitLocksAndMark(w) ==
    /\ PersistLocks(w)
    /\ refs' = [refs EXCEPT ![run[w].match].status = "LOCKED"]
    /\ run' = [run EXCEPT ![w] = [step |-> "publish", match |-> @.match,
                                  events |-> Events(@.match, @.lines)]]
    /\ UNCHANGED <<clock, members, request, due, announced, faults>>

CommitLocks(w) ==
    /\ PersistLocks(w)
    /\ run' = [run EXCEPT ![w] = [step |-> "publish", match |-> @.match,
                                  events |-> Events(@.match, @.lines)]]
    /\ UNCHANGED <<clock, members, refs, request, due, announced, faults>>

Unpublished(w) == IF run[w].step = "publish" THEN run[w].events ELSE {}

PublishNext(w, event) ==
    /\ event \in Unpublished(w)
    /\ announced' = announced \cup {event}
    /\ run' = [run EXCEPT ![w] = [run[w] EXCEPT !.events = @ \ {event}]]
    /\ UNCHANGED <<clock, members, refs, picks, request, due, faults>>

\* The second commit.
MarkLocked(w) ==
    /\ run[w].step = "publish"
    /\ run[w].events = {}
    /\ refs' = [refs EXCEPT ![run[w].match].status = "LOCKED"]
    /\ run' = [run EXCEPT ![w] = NoRun]
    /\ UNCHANGED <<clock, members, picks, request, due, announced, faults>>

-----------------------------------------------------------------------------
(***************************************************************************)
(* Failures.  An exception ends the call and, in the job, its round.       *)
(***************************************************************************)
Abort(w) ==
    /\ run' = [run EXCEPT ![w] = NoRun]
    /\ due' = IF w = Job THEN {} ELSE due

\* The unique constraint refuses a synthetic pick: nothing is committed.
LockConflicts(w) ==
    /\ run[w].step = "picks"
    /\ run[w].groups = {} /\ run[w].todo = {}
    /\ Conflicts(w) # {}
    /\ Abort(w)
    /\ UNCHANGED <<clock, members, refs, picks, request, announced, faults>>

Fault ==
    /\ faults < MaxFaults
    /\ faults' = faults + 1

\* The database or the broker is lost, or the database breaks a deadlock.
LockFails(w) ==
    /\ Fault
    /\ run[w] # NoRun
    /\ Abort(w)
    /\ UNCHANGED <<clock, members, refs, picks, request, announced>>

\* The locks are committed, but the call does not learn it.
CommitAnswerLost(w) ==
    /\ Fault
    /\ PersistLocks(w)
    /\ Abort(w)
    /\ UNCHANGED <<clock, members, refs, request, announced>>

\* The event is on the exchange, but the confirmation does not arrive.
ConfirmLost(w, event) ==
    /\ Fault
    /\ event \in Unpublished(w)
    /\ announced' = announced \cup {event}
    /\ Abort(w)
    /\ UNCHANGED <<clock, members, refs, picks, request>>

Restart ==
    /\ Fault
    /\ request' = [r \in Requests |-> NoRequest]
    /\ run' = [w \in Lockers |-> NoRun]
    /\ due' = {}
    /\ UNCHANGED <<clock, members, refs, picks, announced>>

-----------------------------------------------------------------------------
RequestStep(r) == CheckWindow(r) \/ ReadPick(r) \/ CommitPick(r)

\* What lock_match does next, whoever called it.
LockStep(w) ==
    \/ ReadGroups(w)
    \/ \E g \in Groups : ReadMembers(w, g)
    \/ \E g \in Groups, u \in Users : ReadMemberPick(w, g, u)
    \/ CommitLocks(w)
    \/ LockConflicts(w)
    \/ \E event \in Unpublished(w) : PublishNext(w, event)
    \/ MarkLocked(w)

JobStep == QueryDue \/ \E m \in Matches : LockMatch(Job, m)

Next ==
    \/ \E g \in Groups, u \in Users : CreateGroup(g, u) \/ JoinGroup(g, u)
    \/ \E lockAt \in [Matches -> LockTimes] : SyncMatchRef(lockAt)
    \/ Tick
    \/ \E r \in Requests, u \in Users, g \in Groups, m \in Matches, p \in Outcomes :
          SubmitPick(r, u, g, m, p)
    \/ \E r \in Requests : RequestStep(r)
    \/ JobStep
    \/ \E a \in Admins, m \in Matches : LockMatch(a, m)
    \/ \E w \in Lockers :
          \/ LockStep(w)
          \/ LockFails(w)
          \/ CommitAnswerLost(w)
          \/ \E event \in Unpublished(w) : ConfirmLost(w, event)
    \/ Restart

Spec == Init /\ [][Next]_vars

(***************************************************************************)
(* Calls that were received run, and the scheduler starts the job again    *)
(* every few seconds.  Nobody is obliged to join, to submit, to move a     *)
(* kickoff or to force a lock.                                             *)
(***************************************************************************)
Fairness ==
    /\ \A r \in Requests : WF_vars(RequestStep(r))
    /\ \A w \in Lockers : WF_vars(LockStep(w))
    /\ WF_vars(JobStep)

FairSpec == Spec /\ Fairness

-----------------------------------------------------------------------------
(***************************************************************************)
(* Properties.                                                             *)
(***************************************************************************)
\* Whatever is announced is on record: each line of a PickLocked event has its
\* pick row, and the row is LOCKED (lock_match: "picks are now locked and
\* durable" before anything is published).
AnnouncedIsDurable ==
    \A event \in announced : \A line \in event.picks :
        \E row \in RowsOf(event.group, line.user, event.match) : row.status = "LOCKED"

\* Nobody with a prediction on record is announced as an automatic loss, however
\* the first submission races the lock: whoever inserts the row second fails
\* (lock_match's synthetic picks, uq_picks_group_user_match).
AutoLossMeansNoPick ==
    \A event \in announced : \A line \in event.picks :
        line.predicted = Null =>
            \A row \in RowsOf(event.group, line.user, event.match) : row.predicted = Null

\* Without force-locks, a match is LOCKED, and so never locked again, only when
\* every locked pick of it has been announced: a failure between the commit of
\* the picks and the last publication leaves the match to the next round
\* (lock_match's two commits, _lock_job).
LockedIsAnnounced ==
    \A row \in picks :
        row.status = "LOCKED" /\ refs[row.match].status = "LOCKED" =>
            \E event \in announced :
                /\ event.match = row.match /\ event.group = row.group
                /\ \E line \in event.picks : line.user = row.user

\* A match whose window has closed is LOCKED in the end, whatever fails and
\* whoever joins or submits at the same time, unless its kickoff is moved and the
\* window opens again.
DueMatchesLock ==
    \A m \in Matches : WindowClosed(m) ~> ~WindowClosed(m)

\* services/prediction-service/README.md: "a pick is rejected once it is within
\* T-15min of kickoff", and a locked pick stands as it was locked and announced.
LockedPicksStand ==
    [][\A row \in picks : row.status = "LOCKED" => row \in picks']_vars

=============================================================================
