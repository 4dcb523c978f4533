--------------------------- MODULE PredictionProofs ---------------------------
(***************************************************************************)
(* Theorems about the prediction service, for all users, groups, matches,  *)
(* request threads, administrators and bounds: types, that what is         *)
(* announced is on record, that an automatic loss is announced only for a  *)
(* player without a prediction, and that a match is LOCKED only when its   *)
(* locked picks are announced, as long as nobody forces a lock.            *)
(***************************************************************************)
EXTENDS Prediction, TLAPS

-----------------------------------------------------------------------------
(***************************************************************************)
(* The inductive invariants.                                               *)
(***************************************************************************)
\* A match that is being locked has been synced: MarkLocked keeps its lock_at.
RunsAreSynced ==
    \A w \in Lockers : run[w].step # "idle" => refs[run[w].match].status # "absent"

TypeInv == TypeOK /\ RunsAreSynced

\* uq_picks_group_user_match.
OneRowPerPick ==
    \A p, q \in picks :
        p.group = q.group /\ p.user = q.user /\ p.match = q.match => p = q

\* A pick without a prediction is an automatic loss, LOCKED from the start.
NoPredictionIsLocked == \A row \in picks : row.predicted = Null => row.status = "LOCKED"

\* An UPDATE goes to a row that had a prediction when it was read.
UpdatesHavePredictions ==
    \A r \in Requests : request[r].step = "update" =>
        RequestedRows(r) # {} /\ \A row \in RequestedRows(r) : row.predicted # Null

PicksInv == OneRowPerPick /\ NoPredictionIsLocked /\ UpdatesHavePredictions

OnRecord(g, u, m) == RowsOf(g, u, m) # {}

LockedOnRecord(g, u, m) == \E row \in RowsOf(g, u, m) : row.status = "LOCKED"

AutoLoss(g, u, m) ==
    RowsOf(g, u, m) # {} /\ \A row \in RowsOf(g, u, m) : row.predicted = Null

\* What lock_match has read still stands when it commits.
LineStands(line, m) ==
    line.found => /\ OnRecord(line.group, line.user, m)
                  /\ line.predicted = Null => AutoLoss(line.group, line.user, m)

EventStands(event) ==
    \A line \in event.picks :
        /\ LockedOnRecord(event.group, line.user, event.match)
        /\ line.predicted = Null => AutoLoss(event.group, line.user, event.match)

RunStands(r) ==
    /\ r.step = "picks" => \A line \in r.lines : LineStands(line, r.match)
    /\ r.step = "publish" => \A event \in r.events : EventStands(event)

RunsStand == \A w \in Lockers : RunStands(run[w])

RecordInv == PicksInv /\ RunsStand /\ \A event \in announced : EventStands(event)

\* A LOCKED pick belongs to a member, so that the next run comes across it.
LockedAreMembers ==
    \A g \in Groups, u \in Users, m \in Matches :
        LockedOnRecord(g, u, m) => <<g, u>> \in members

AnnouncedPick(g, u, m, events) ==
    \E event \in events :
        /\ event.match = m /\ event.group = g
        /\ \E line \in event.picks : line.user = u

\* The run has still to reach the pick, or has reached it.
RunCovers(r, g, u) ==
    /\ r.step = "picks" =>
          \/ g \in r.groups
          \/ <<g, u>> \in r.todo
          \/ \E line \in r.lines : line.group = g /\ line.user = u
    /\ r.step = "publish" => AnnouncedPick(g, u, r.match, announced \cup r.events)

\* The job's run misses no LOCKED pick of its match, which nobody else marks.
JobRun(r) ==
    /\ r.step = "picks" =>
          /\ r.todo \subseteq members
          /\ \A line \in r.lines : <<line.group, line.user>> \in members
    /\ r.step # "idle" =>
          /\ refs[r.match].status = "SCHEDULED"
          /\ \A g \in Groups, u \in Users : LockedOnRecord(g, u, r.match) => RunCovers(r, g, u)

LockedAreAnnounced ==
    \A g \in Groups, u \in Users, m \in Matches :
        LockedOnRecord(g, u, m) /\ refs[m].status = "LOCKED" => AnnouncedPick(g, u, m, announced)

JobInv == LockedAreMembers /\ JobRun(run[Job]) /\ LockedAreAnnounced

-----------------------------------------------------------------------------
(***************************************************************************)
(* Types.  TypeOK is not inductive: MarkLocked keeps the lock_at of its    *)
(* match, which must be one.                                               *)
(***************************************************************************)
\* The idle records belong to their types.
LEMMA IdleRecords == NoRun \in Run /\ NoRun.step = "idle" /\ NoRequest.step = "idle"
  BY DEF NoRun, Run, NoRequest

\* What a run holds at each of its steps.
LEMMA RunSteps ==
    ASSUME NEW r \in Run
    PROVE  /\ r.step \in {"idle", "groups", "picks", "publish"}
           /\ r = NoRun <=> r.step = "idle"
           /\ r.step # "idle" => r.match \in Matches
           /\ r.step = "picks" =>
                 r \in [step : {"picks"}, match : Matches, groups : SUBSET Groups,
                        todo : SUBSET (Groups \X Users), lines : SUBSET PayloadLine]
           /\ r.step = "publish" =>
                 r \in [step : {"publish"}, match : Matches, events : SUBSET PickLocked]
  BY DEF Run, NoRun

\* What a submission holds once it has begun.
LEMMA RequestSteps ==
    ASSUME NEW q \in {NoRequest} \cup Submission
    PROVE  /\ q.step \in {"idle", "check", "read", "insert", "update"}
           /\ q.step # "idle" => q \in Submission
           /\ q \in Submission => q.step # "idle" /\ q.user \in Users /\ q.group \in Groups
                                  /\ q.match \in Matches /\ q.predicted \in Outcomes
           /\ \A step \in {"read", "insert", "update"} :
                 q \in Submission => [q EXCEPT !.step = step] \in Submission
  BY DEF Submission, NoRequest

\* A match, once synced, stays synced, and keeps its lock_at as it is LOCKED.
LEMMA LockedRef ==
    ASSUME NEW ref \in Ref, ref.status # "absent"
    PROVE  [ref EXCEPT !.status = "LOCKED"] \in Ref
  BY DEF Ref, NoRef

\* What lock_match reads about a member is a typed line.
LEMMA PayloadType ==
    ASSUME picks \subseteq PickRow, NEW g \in Groups, NEW u \in Users, NEW m \in Matches
    PROVE  PayloadOf(g, u, m) \in PayloadLine
<1> DEFINE rows == RowsOf(g, u, m)
           predicted == IF rows = {} THEN Null ELSE (CHOOSE row \in rows : TRUE).predicted
<1>1. predicted \in Outcomes \cup {Null}
  <2>1. CASE rows = {}
    BY <2>1
  <2>2. CASE rows # {}
    <3>1. (CHOOSE row \in rows : TRUE) \in PickRow
      BY <2>2 DEF RowsOf
    <3> QED
      BY <2>2, <3>1 DEF PickRow
  <2> QED
    BY <2>1, <2>2
<1>2. PayloadOf(g, u, m) = [group |-> g, user |-> u, found |-> rows # {},
                            predicted |-> predicted]
  BY DEF PayloadOf
<1>3. (rows # {}) \in BOOLEAN
  OBVIOUS
<1> HIDE DEF rows, predicted
<1> QED
  BY <1>1, <1>2, <1>3 DEF PayloadLine

\* Typed lines make typed events.
LEMMA EventsType ==
    ASSUME NEW m \in Matches, NEW lines \in SUBSET PayloadLine
    PROVE  Events(m, lines) \subseteq PickLocked
<1> SUFFICES ASSUME NEW g \in {x.group : x \in lines}
             PROVE  [match |-> m, group |-> g,
                     picks |-> {[user |-> line.user, predicted |-> line.predicted] :
                                   line \in {x \in lines : x.group = g}}] \in PickLocked
  BY DEF Events
<1> DEFINE ps == {[user |-> line.user, predicted |-> line.predicted] :
                     line \in {x \in lines : x.group = g}}
<1>1. g \in Groups
  BY DEF PayloadLine
<1>2. ps \subseteq [user : Users, predicted : Outcomes \cup {Null}]
  BY DEF PayloadLine
<1> HIDE DEF ps
<1>3. [match |-> m, group |-> g, picks |-> ps] \in PickLocked
  BY <1>1, <1>2 DEF PickLocked
<1> QED
  BY <1>3 DEF ps

\* A row keeps its type as it is locked, or as its prediction changes.
LEMMA UpdatedRows ==
    ASSUME NEW row \in PickRow
    PROVE  /\ [row EXCEPT !.status = "LOCKED"] \in PickRow
           /\ \A p \in Outcomes : [row EXCEPT !.predicted = p] \in PickRow
  BY DEF PickRow

\* The first commit of lock_match writes typed rows.
LEMMA PersistType ==
    ASSUME TypeOK, NEW w \in Lockers, PersistLocks(w)
    PROVE  picks' \subseteq PickRow
<1> DEFINE m == run[w].match
           found == UNION {RowsOf(line.group, line.user, m) : line \in run[w].lines}
           synthetic == {[group |-> line.group, user |-> line.user, match |-> m,
                          predicted |-> Null, status |-> "LOCKED"] :
                            line \in {x \in run[w].lines : ~x.found}}
<1>1. m \in Matches /\ run[w].lines \subseteq PayloadLine
  BY RunSteps DEF TypeOK, PersistLocks
<1>2. picks' = (picks \ found) \cup Locked(found) \cup synthetic
  BY DEF PersistLocks
<1>3. found \subseteq PickRow
  BY DEF RowsOf, TypeOK
<1>4. Locked(found) \subseteq PickRow
  BY <1>3, UpdatedRows DEF Locked
<1>5. synthetic \subseteq PickRow
  BY <1>1 DEF PickRow, PayloadLine
<1> HIDE DEF found, synthetic
<1> QED
  BY <1>2, <1>4, <1>5 DEF TypeOK

\* A run that is dropped or replaced by a typed run of the same match keeps the
\* type invariant's part on runs, as long as the matches stay synced.
LEMMA UpdatedRun ==
    ASSUME TypeInv, NEW w \in Lockers, NEW r \in Run,
           run' = [run EXCEPT ![w] = r],
           r.step = "idle" \/ refs'[r.match].status # "absent",
           \A m \in Matches : refs[m].status # "absent" => refs'[m].status # "absent"
    PROVE  run' \in [Lockers -> Run] /\ RunsAreSynced'
  BY RunSteps DEF TypeInv, TypeOK, RunsAreSynced

\* There are no matches, picks, calls and events at first.
LEMMA InitTypeInv == Init => TypeInv
  BY PredictionAssumption, IdleRecords
  DEF Init, TypeInv, TypeOK, RunsAreSynced, Ref

\* A step that leaves runs and matches alone keeps the type invariant's part on
\* them.
LEMMA KeptRuns ==
    ASSUME TypeInv, UNCHANGED <<run, refs>>
    PROVE  /\ run' \in [Lockers -> Run] /\ refs' \in [Matches -> Ref]
           /\ RunsAreSynced'
  BY DEF TypeInv, TypeOK, RunsAreSynced

\* A call that aborts leaves typed runs.
LEMMA AbortType ==
    ASSUME TypeInv, NEW w \in Lockers, Abort(w), UNCHANGED refs
    PROVE  run' \in [Lockers -> Run] /\ RunsAreSynced' /\ due' \subseteq Matches
  BY IdleRecords, UpdatedRun DEF Abort, TypeInv, TypeOK

\* The steps of a player's submission, one request at a time.
LEMMA RequestTypes ==
    ASSUME TypeOK, NEW r \in Requests, RequestStep(r)
    PROVE  request' \in [Requests -> {NoRequest} \cup Submission] /\ picks' \subseteq PickRow
<1>1. request[r] \in {NoRequest} \cup Submission
  BY DEF TypeOK
<1>2. CASE CheckWindow(r)
  BY <1>1, <1>2, RequestSteps DEF CheckWindow, TypeOK
<1>3. CASE ReadPick(r)
  <2>1. /\ [request[r] EXCEPT !.step = "insert"] \in Submission
        /\ [request[r] EXCEPT !.step = "update"] \in Submission
    BY <1>1, <1>3, RequestSteps DEF ReadPick
  <2>2. PICK q \in {[request[r] EXCEPT !.step = "insert"],
                    [request[r] EXCEPT !.step = "update"], NoRequest} :
            request' = [request EXCEPT ![r] = q]
    BY <1>3 DEF ReadPick
  <2> QED
    BY <1>3, <2>1, <2>2 DEF ReadPick, TypeOK
<1>4. CASE CommitPick(r)
  <2>1. request' \in [Requests -> {NoRequest} \cup Submission]
    BY <1>4 DEF CommitPick, TypeOK
  <2>2. /\ request[r].user \in Users /\ request[r].group \in Groups
        /\ request[r].match \in Matches /\ request[r].predicted \in Outcomes
    BY <1>1, <1>4, RequestSteps DEF CommitPick
  <2>3. RequestedRows(r) \subseteq picks
    BY DEF RequestedRows, RowsOf
  <2>4. [group |-> request[r].group, user |-> request[r].user, match |-> request[r].match,
         predicted |-> request[r].predicted, status |-> "OPEN"] \in PickRow
    BY <2>2 DEF PickRow
  <2>5. \A row \in RequestedRows(r) : [row EXCEPT !.predicted = request[r].predicted] \in PickRow
    BY <2>2, <2>3, UpdatedRows DEF TypeOK
  <2> QED
    BY <1>4, <2>1, <2>4, <2>5 DEF CommitPick, TypeOK
<1> QED
  BY <1>2, <1>3, <1>4 DEF RequestStep

\* Every step keeps the types; only LockMatch begins a run, for a synced match,
\* and no step makes a synced match absent.
LEMMA NextTypeInv == TypeInv /\ [Next]_vars => TypeInv'
<1> SUFFICES ASSUME TypeInv, [Next]_vars PROVE TypeInv'
  OBVIOUS
<1>a. TypeOK
  BY DEF TypeInv
<1>0. CASE UNCHANGED vars
  BY <1>a, <1>0, KeptRuns DEF vars, TypeInv, TypeOK
<1>1. ASSUME NEW g \in Groups, NEW u \in Users, CreateGroup(g, u) \/ JoinGroup(g, u)
      PROVE  TypeInv'
  BY <1>a, <1>1, KeptRuns DEF CreateGroup, JoinGroup, TypeInv, TypeOK
<1>2. ASSUME NEW lockAt \in [Matches -> LockTimes], SyncMatchRef(lockAt)
      PROVE  TypeInv'
  <2>1. \A m \in Matches : refs'[m] \in Ref /\ refs'[m].status # "absent"
    BY <1>a, <1>2 DEF SyncMatchRef, TypeOK, Ref, NoRef
  <2>2. refs' \in [Matches -> Ref]
    BY <1>2, <2>1 DEF SyncMatchRef
  <2>3. RunsAreSynced'
    BY <1>a, <1>2, <2>1, RunSteps DEF SyncMatchRef, TypeOK, RunsAreSynced
  <2> QED
    BY <1>a, <1>2, <2>2, <2>3 DEF SyncMatchRef, TypeInv, TypeOK
<1>3. CASE Tick
  <2>1. clock' \in 0..MaxClock
    BY <1>a, <1>3, PredictionAssumption DEF Tick, TypeOK
  <2> QED
    BY <1>a, <1>3, <2>1, KeptRuns DEF Tick, TypeInv, TypeOK
<1>4. ASSUME NEW r \in Requests, NEW u \in Users, NEW g \in Groups, NEW m \in Matches,
             NEW p \in Outcomes, SubmitPick(r, u, g, m, p)
      PROVE  TypeInv'
  <2>1. [step |-> "check", now |-> clock, user |-> u, group |-> g, match |-> m,
         predicted |-> p] \in Submission
    BY <1>a DEF Submission, TypeOK
  <2>2. request' \in [Requests -> {NoRequest} \cup Submission]
    BY <1>a, <1>4, <2>1 DEF SubmitPick, TypeOK
  <2> QED
    BY <1>a, <1>4, <2>2, KeptRuns DEF SubmitPick, TypeInv, TypeOK
<1>5. ASSUME NEW r \in Requests, RequestStep(r)
      PROVE  TypeInv'
  <2>1. UNCHANGED <<clock, members, refs, due, run, announced, faults>>
    BY <1>5 DEF RequestStep, CheckWindow, ReadPick, CommitPick
  <2> QED
    BY <1>a, <1>5, <2>1, KeptRuns, RequestTypes DEF TypeInv, TypeOK
<1>6. CASE QueryDue
  BY <1>a, <1>6, KeptRuns DEF QueryDue, TypeInv, TypeOK
<1>7. ASSUME NEW w \in Lockers, NEW m \in Matches, LockMatch(w, m)
      PROVE  TypeInv'
  <2>1. run' \in [Lockers -> Run] /\ RunsAreSynced'
    <3>1. CASE refs[m].status = "SCHEDULED"
      <4> DEFINE r == [step |-> "groups", match |-> m]
      <4>1. r \in Run /\ r.match = m
        BY DEF Run
      <4>2. run' = [run EXCEPT ![w] = r] /\ refs' = refs
        BY <1>7, <3>1 DEF LockMatch
      <4> HIDE DEF r
      <4> QED
        BY <3>1, <4>1, <4>2, UpdatedRun
    <3>2. CASE refs[m].status # "SCHEDULED"
      BY <1>7, <3>2, KeptRuns DEF LockMatch
    <3> QED
      BY <3>1, <3>2
  <2>2. due' \subseteq Matches
    BY <1>a, <1>7 DEF LockMatch, TypeOK
  <2> QED
    BY <1>a, <1>7, <2>1, <2>2 DEF LockMatch, TypeInv, TypeOK
<1>8. ASSUME NEW w \in Lockers, LockStep(w)
      PROVE  TypeInv'
  <2>0. /\ run[w] \in Run
        /\ run[w].step # "idle" =>
              run[w].match \in Matches /\ refs[run[w].match].status # "absent"
    BY <1>a, RunSteps DEF TypeInv, TypeOK, RunsAreSynced
  <2>1. CASE ReadGroups(w)
    <3> DEFINE r == [step |-> "picks", match |-> run[w].match,
                     groups |-> {g \in Groups : MembersOf(g) # {}}, todo |-> {}, lines |-> {}]
    <3>1. r \in Run /\ r.match = run[w].match
      BY <2>0, <2>1 DEF ReadGroups, Run
    <3>2. run' = [run EXCEPT ![w] = r] /\ refs' = refs /\ run[w].step # "idle"
      BY <2>1 DEF ReadGroups
    <3> HIDE DEF r
    <3>3. run' \in [Lockers -> Run] /\ RunsAreSynced'
      BY <2>0, <3>1, <3>2, UpdatedRun
    <3> QED
      BY <1>a, <2>1, <3>3 DEF ReadGroups, TypeInv, TypeOK
  <2>2. ASSUME NEW g \in Groups, ReadMembers(w, g)
        PROVE  TypeInv'
    <3> DEFINE r == [run[w] EXCEPT !.groups = @ \ {g}, !.todo = {g} \X MembersOf(g)]
    <3>1. r \in Run /\ r.match = run[w].match
      <4>1. run[w] \in [step : {"picks"}, match : Matches, groups : SUBSET Groups,
                        todo : SUBSET (Groups \X Users), lines : SUBSET PayloadLine]
        BY <2>0, <2>2, RunSteps DEF ReadMembers
      <4>2. {g} \X MembersOf(g) \subseteq Groups \X Users
        BY DEF MembersOf
      <4>3. r \in [step : {"picks"}, match : Matches, groups : SUBSET Groups,
                   todo : SUBSET (Groups \X Users), lines : SUBSET PayloadLine]
        BY <4>1, <4>2
      <4> QED
        BY <4>1, <4>3 DEF Run
    <3>2. run' = [run EXCEPT ![w] = r] /\ refs' = refs /\ run[w].step # "idle"
      BY <2>2 DEF ReadMembers
    <3> HIDE DEF r
    <3>3. run' \in [Lockers -> Run] /\ RunsAreSynced'
      BY <2>0, <3>1, <3>2, UpdatedRun
    <3> QED
      BY <1>a, <2>2, <3>3 DEF ReadMembers, TypeInv, TypeOK
  <2>3. ASSUME NEW g \in Groups, NEW u \in Users, ReadMemberPick(w, g, u)
        PROVE  TypeInv'
    <3> DEFINE r == [run[w] EXCEPT !.todo = @ \ {<<g, u>>},
                                   !.lines = @ \cup {PayloadOf(g, u, run[w].match)}]
    <3>1. r \in Run /\ r.match = run[w].match
      <4>1. run[w] \in [step : {"picks"}, match : Matches, groups : SUBSET Groups,
                        todo : SUBSET (Groups \X Users), lines : SUBSET PayloadLine]
        BY <2>0, <2>3, RunSteps DEF ReadMemberPick
      <4>2. PayloadOf(g, u, run[w].match) \in PayloadLine
        BY <1>a, <4>1, PayloadType DEF TypeOK
      <4>3. r \in [step : {"picks"}, match : Matches, groups : SUBSET Groups,
                   todo : SUBSET (Groups \X Users), lines : SUBSET PayloadLine]
        BY <4>1, <4>2
      <4> QED
        BY <4>1, <4>3 DEF Run
    <3>2. run' = [run EXCEPT ![w] = r] /\ refs' = refs /\ run[w].step # "idle"
      BY <2>3 DEF ReadMemberPick
    <3> HIDE DEF r
    <3>3. run' \in [Lockers -> Run] /\ RunsAreSynced'
      BY <2>0, <3>1, <3>2, UpdatedRun
    <3> QED
      BY <1>a, <2>3, <3>3 DEF ReadMemberPick, TypeInv, TypeOK
  <2>4. CASE CommitLocks(w)
    <3> DEFINE r == [step |-> "publish", match |-> run[w].match,
                     events |-> Events(run[w].match, run[w].lines)]
    <3>1. r \in Run /\ r.match = run[w].match
      <4>1. run[w].match \in Matches /\ run[w].lines \in SUBSET PayloadLine
        BY <2>0, <2>4, RunSteps DEF CommitLocks, PersistLocks
      <4> QED
        BY <4>1, EventsType DEF Run
    <3>2. run' = [run EXCEPT ![w] = r] /\ refs' = refs /\ run[w].step # "idle"
      BY <2>4 DEF CommitLocks, PersistLocks
    <3> HIDE DEF r
    <3>3. run' \in [Lockers -> Run] /\ RunsAreSynced'
      BY <2>0, <3>1, <3>2, UpdatedRun
    <3> QED
      BY <1>a, <2>4, <3>3, PersistType DEF CommitLocks, TypeInv, TypeOK
  <2>5. CASE LockConflicts(w)
    BY <1>a, <2>5, AbortType DEF LockConflicts, TypeInv, TypeOK
  <2>6. ASSUME NEW event \in Unpublished(w), PublishNext(w, event)
        PROVE  TypeInv'
    <3> DEFINE r == [run[w] EXCEPT !.events = @ \ {event}]
    <3>0. run[w] \in [step : {"publish"}, match : Matches, events : SUBSET PickLocked]
      BY <2>0, <2>6, RunSteps DEF Unpublished
    <3>1. r \in Run /\ r.match = run[w].match
      <4>1. r \in [step : {"publish"}, match : Matches, events : SUBSET PickLocked]
        BY <3>0
      <4> QED
        BY <3>0, <4>1 DEF Run
    <3>2. run' = [run EXCEPT ![w] = r] /\ refs' = refs /\ run[w].step # "idle"
      BY <2>6, <3>0 DEF PublishNext
    <3>4. announced' \subseteq PickLocked
      BY <1>a, <2>6, <3>0 DEF PublishNext, Unpublished, TypeOK
    <3> HIDE DEF r
    <3>3. run' \in [Lockers -> Run] /\ RunsAreSynced'
      BY <2>0, <3>1, <3>2, UpdatedRun
    <3> QED
      BY <1>a, <2>6, <3>3, <3>4 DEF PublishNext, TypeInv, TypeOK
  <2>7. CASE MarkLocked(w)
    <3> DEFINE ref == [refs[run[w].match] EXCEPT !.status = "LOCKED"]
    <3>1. run[w].match \in Matches /\ refs[run[w].match].status # "absent"
      BY <2>0, <2>7 DEF MarkLocked
    <3>2. ref \in Ref /\ ref.status # "absent"
      <4>1. refs[run[w].match] \in Ref
        BY <1>a, <3>1 DEF TypeOK
      <4> QED
        BY <3>1, <4>1, LockedRef DEF Ref, NoRef
    <3>3. refs' = [refs EXCEPT ![run[w].match] = ref] /\ run' = [run EXCEPT ![w] = NoRun]
      BY <2>7 DEF MarkLocked
    <3> HIDE DEF ref
    <3>4. refs' \in [Matches -> Ref]
          /\ \A m \in Matches : refs[m].status # "absent" => refs'[m].status # "absent"
      BY <1>a, <3>1, <3>2, <3>3 DEF TypeOK
    <3>5. run' \in [Lockers -> Run] /\ RunsAreSynced'
      BY <3>3, <3>4, IdleRecords, UpdatedRun
    <3> QED
      BY <1>a, <2>7, <3>4, <3>5 DEF MarkLocked, TypeInv, TypeOK
  <2> QED
    BY <1>8, <2>1, <2>2, <2>3, <2>4, <2>5, <2>6, <2>7 DEF LockStep
<1>9. ASSUME NEW w \in Lockers, LockFails(w)
      PROVE  TypeInv'
  BY <1>a, <1>9, AbortType DEF LockFails, Fault, TypeInv, TypeOK
<1>10. ASSUME NEW w \in Lockers, CommitAnswerLost(w)
       PROVE  TypeInv'
  BY <1>a, <1>10, AbortType, PersistType DEF CommitAnswerLost, Fault, TypeInv, TypeOK
<1>11. ASSUME NEW w \in Lockers, NEW event \in Unpublished(w), ConfirmLost(w, event)
       PROVE  TypeInv'
  <2>1. announced' \subseteq PickLocked
    <3>1. run[w] \in [step : {"publish"}, match : Matches, events : SUBSET PickLocked]
      BY <1>a, <1>11, RunSteps DEF Unpublished, TypeOK
    <3> QED
      BY <1>a, <1>11, <3>1 DEF ConfirmLost, Unpublished, TypeOK
  <2> QED
    BY <1>a, <1>11, <2>1, AbortType DEF ConfirmLost, Fault, TypeInv, TypeOK
<1>12. CASE Restart
  <2>1. run' \in [Lockers -> Run] /\ RunsAreSynced'
    BY <1>12, IdleRecords DEF Restart, RunsAreSynced
  <2> QED
    BY <1>a, <1>12, <2>1 DEF Restart, Fault, TypeInv, TypeOK
<1> QED
  BY <1>0, <1>1, <1>2, <1>3, <1>4, <1>5, <1>6, <1>7, <1>8, <1>9, <1>10, <1>11, <1>12
  DEF Next, JobStep, Lockers

\* The variables stay in their types, whichever submissions, locks, moved kickoffs
\* and failures interleave.
THEOREM TypeCorrect == Spec => []TypeOK
<1>1. TypeInv => TypeOK
  BY DEF TypeInv
<1> QED
  BY <1>1, InitTypeInv, NextTypeInv, PTL DEF Spec

-----------------------------------------------------------------------------
(***************************************************************************)
(* What is on record stands: no step removes a row, unlocks one or gives   *)
(* an automatic loss a prediction.                                         *)
(***************************************************************************)
RecordsStand ==
    \A g, u, m :
        /\ OnRecord(g, u, m) => OnRecord(g, u, m)'
        /\ LockedOnRecord(g, u, m) => LockedOnRecord(g, u, m)'
        /\ AutoLoss(g, u, m) => AutoLoss(g, u, m)'

\* A step that leaves the rows alone.
LEMMA UnchangedRecords ==
    ASSUME UNCHANGED picks
    PROVE  RecordsStand
  BY DEF RecordsStand, OnRecord, LockedOnRecord, AutoLoss, RowsOf

\* What a line or an event says stands as long as the records do.
LEMMA LinesAndEventsStand ==
    ASSUME RecordsStand
    PROVE  /\ \A line, m : LineStands(line, m) => LineStands(line, m)'
           /\ \A event : EventStands(event) => EventStands(event)'
<1>1. ASSUME NEW line, NEW m, LineStands(line, m)
      PROVE  LineStands(line, m)'
  <2>1. LineStands(line, m)' <=>
          (line.found => /\ OnRecord(line.group, line.user, m)'
                         /\ line.predicted = Null => AutoLoss(line.group, line.user, m)')
    BY DEF LineStands
  <2> QED
    BY <1>1, <2>1 DEF LineStands, RecordsStand
<1>2. ASSUME NEW event, EventStands(event)
      PROVE  EventStands(event)'
  <2>1. EventStands(event)' <=>
          \A line \in event.picks :
              /\ LockedOnRecord(event.group, line.user, event.match)'
              /\ line.predicted = Null => AutoLoss(event.group, line.user, event.match)'
    BY DEF EventStands
  <2> QED
    BY <1>2, <2>1 DEF EventStands, RecordsStand
<1> QED
  BY <1>1, <1>2

\* What an UPDATE of one column does to a row.
LEMMA ChangedColumns ==
    ASSUME NEW row \in PickRow
    PROVE  /\ LET new == [row EXCEPT !.status = "LOCKED"] IN
                 /\ new.group = row.group /\ new.user = row.user /\ new.match = row.match
                 /\ new.predicted = row.predicted /\ new.status = "LOCKED"
           /\ \A p : LET new == [row EXCEPT !.predicted = p] IN
                 /\ new.group = row.group /\ new.user = row.user /\ new.match = row.match
                 /\ new.predicted = p /\ new.status = row.status
  BY DEF PickRow

\* The rows of a pick are the one row there is, if any.
LEMMA OneRow ==
    ASSUME OneRowPerPick, NEW g, NEW u, NEW m, NEW p \in RowsOf(g, u, m), NEW q \in RowsOf(g, u, m)
    PROVE  p = q
  BY DEF OneRowPerPick, RowsOf

\* A submission inserts a row where there was none, or changes the prediction of
\* a row that had one, LOCKED or not.
LEMMA CommitPickStands ==
    ASSUME TypeOK, PicksInv, NEW r \in Requests, CommitPick(r)
    PROVE  RecordsStand /\ PicksInv'
<1> DEFINE q == request[r]
           rows == RequestedRows(r)
           new == [group |-> q.group, user |-> q.user, match |-> q.match,
                   predicted |-> q.predicted, status |-> "OPEN"]
<1>1. q.predicted # Null
  BY RequestSteps, PredictionAssumption DEF TypeOK, CommitPick
<1>2. rows = {row \in picks : row.group = q.group /\ row.user = q.user /\ row.match = q.match}
  BY DEF RequestedRows, RowsOf
<1>3. \A b \in Requests : request'[b] = request[b] \/ request'[b].step = "idle"
  BY IdleRecords DEF CommitPick, TypeOK
<1>4. CASE picks' = picks
  BY <1>3, <1>4, UnchangedRecords
  DEF PicksInv, OneRowPerPick, NoPredictionIsLocked, UpdatesHavePredictions, RequestedRows, RowsOf
<1>5. CASE rows = {} /\ picks' = picks \cup {new}
  <2>1. RecordsStand
    <3> SUFFICES ASSUME NEW g, NEW u, NEW m
                 PROVE  /\ OnRecord(g, u, m) => OnRecord(g, u, m)'
                        /\ LockedOnRecord(g, u, m) => LockedOnRecord(g, u, m)'
                        /\ AutoLoss(g, u, m) => AutoLoss(g, u, m)'
      BY DEF RecordsStand
    <3>1. RowsOf(g, u, m) \subseteq RowsOf(g, u, m)'
      BY <1>5 DEF RowsOf
    <3>2. RowsOf(g, u, m) # {} => RowsOf(g, u, m)' = RowsOf(g, u, m)
      BY <1>2, <1>5 DEF RowsOf
    <3> QED
      BY <3>1, <3>2 DEF OnRecord, LockedOnRecord, AutoLoss
  <2>2. OneRowPerPick'
    BY <1>2, <1>5 DEF PicksInv, OneRowPerPick
  <2>3. NoPredictionIsLocked'
    BY <1>1, <1>5 DEF PicksInv, NoPredictionIsLocked
  <2>4. UpdatesHavePredictions'
    BY <1>1, <1>3, <1>5 DEF PicksInv, UpdatesHavePredictions, RequestedRows, RowsOf
  <2> QED
    BY <2>1, <2>2, <2>3, <2>4 DEF PicksInv
<1>6. CASE /\ q.step = "update"
           /\ picks' = (picks \ rows) \cup {[row EXCEPT !.predicted = q.predicted] : row \in rows}
  <2>1. \A row \in rows : row \in picks /\ row \in PickRow /\ row.predicted # Null
    BY <1>2, <1>6 DEF TypeOK, PicksInv, UpdatesHavePredictions
  <2>2. ASSUME NEW p \in picks'
        PROVE  \/ p \in picks /\ p \notin rows
               \/ \E row \in rows :
                     /\ p = [row EXCEPT !.predicted = q.predicted]
                     /\ p.group = row.group /\ p.user = row.user /\ p.match = row.match
                     /\ p.predicted = q.predicted /\ p.status = row.status
    <3>1. CASE p \in picks \ rows
      BY <3>1
    <3>2. CASE p \in {[row EXCEPT !.predicted = q.predicted] : row \in rows}
      <4>1. PICK row \in rows : p = [row EXCEPT !.predicted = q.predicted]
        BY <3>2
      <4> QED
        BY <2>1, <4>1, ChangedColumns
    <3> HIDE DEF rows, q
    <3> QED
      BY <1>6, <3>1, <3>2
  <2>3. ASSUME NEW row \in picks
        PROVE  \E p \in picks' :
                   p.group = row.group /\ p.user = row.user /\ p.match = row.match
                   /\ p.status = row.status
    <3>1. CASE row \in rows
      <4>1. [row EXCEPT !.predicted = q.predicted] \in picks'
        BY <1>6, <3>1
      <4> QED
        BY <2>1, <3>1, <4>1, ChangedColumns
    <3>2. CASE row \notin rows
      BY <1>6, <3>2
    <3> QED
      BY <3>1, <3>2
  <2>4. RecordsStand
    <3> SUFFICES ASSUME NEW g, NEW u, NEW m
                 PROVE  /\ OnRecord(g, u, m) => OnRecord(g, u, m)'
                        /\ LockedOnRecord(g, u, m) => LockedOnRecord(g, u, m)'
                        /\ AutoLoss(g, u, m) => AutoLoss(g, u, m)'
      BY DEF RecordsStand
    <3>1. OnRecord(g, u, m) => OnRecord(g, u, m)'
      BY <2>3 DEF OnRecord, RowsOf
    <3>2. LockedOnRecord(g, u, m) => LockedOnRecord(g, u, m)'
      BY <2>3 DEF LockedOnRecord, RowsOf
    <3>3. ASSUME AutoLoss(g, u, m)
          PROVE  AutoLoss(g, u, m)'
      <4>1. \A row \in RowsOf(g, u, m) : row \notin rows
        BY <2>1, <3>3 DEF AutoLoss
      <4>2. RowsOf(g, u, m)' = RowsOf(g, u, m)
        <5>1. \A p \in picks' : p.group = g /\ p.user = u /\ p.match = m => p \in RowsOf(g, u, m)
          BY <1>2, <2>1, <2>2, <3>3, <4>1 DEF RowsOf, AutoLoss
        <5>2. RowsOf(g, u, m) \subseteq picks'
          BY <1>6, <4>1 DEF RowsOf
        <5> QED
          BY <5>1, <5>2 DEF RowsOf
      <4> QED
        BY <3>3, <4>2 DEF AutoLoss
    <3> QED
      BY <3>1, <3>2, <3>3
  <2>5. OneRowPerPick'
    BY <1>2, <2>1, <2>2 DEF PicksInv, OneRowPerPick
  <2>6. NoPredictionIsLocked'
    BY <1>1, <2>1, <2>2 DEF PicksInv, NoPredictionIsLocked
  <2>7. UpdatesHavePredictions'
    <3> SUFFICES ASSUME NEW b \in Requests, request'[b].step = "update"
                 PROVE  RequestedRows(b)' # {} /\ \A row \in RequestedRows(b)' : row.predicted # Null
      BY DEF UpdatesHavePredictions
    <3>1. request'[b] = request[b] /\ request[b].step = "update"
      BY <1>3
    <3>2. RequestedRows(b) # {} /\ \A row \in RequestedRows(b) : row.predicted # Null
      BY <3>1 DEF PicksInv, UpdatesHavePredictions
    <3>3. RequestedRows(b)' = {row \in picks' : row.group = request[b].group
                                  /\ row.user = request[b].user /\ row.match = request[b].match}
      BY <3>1 DEF RequestedRows, RowsOf
    <3> QED
      BY <1>1, <2>2, <2>3, <3>2, <3>3 DEF RequestedRows, RowsOf
  <2> QED
    BY <2>4, <2>5, <2>6, <2>7 DEF PicksInv
<1> QED
  BY <1>4, <1>5, <1>6 DEF CommitPick

\* The automatic losses that a run inserts, and the rows it has read.
Synthetic(w) ==
    {[group |-> line.group, user |-> line.user, match |-> run[w].match,
      predicted |-> Null, status |-> "LOCKED"] : line \in {x \in run[w].lines : ~x.found}}

WasRead(w, row) ==
    \E line \in run[w].lines :
        row.group = line.group /\ row.user = line.user /\ row.match = run[w].match

SamePick(p, q) == p.group = q.group /\ p.user = q.user /\ p.match = q.match

\* The row that the first commit of lock_match leaves of a row.
LeftOf(w, row, new) ==
    /\ SamePick(new, row) /\ new.predicted = row.predicted
    /\ row.status = "LOCKED" \/ WasRead(w, row) => new.status = "LOCKED"

\* Every row has one left of it, and every row but the automatic losses is left of
\* one; an automatic loss goes where there was no row.
LEMMA PersistedRows ==
    ASSUME TypeOK, NEW w \in Lockers, PersistLocks(w)
    PROVE  /\ \A row \in picks : \E new \in picks' : LeftOf(w, row, new)
           /\ \A new \in picks' :
                 \/ new \in Synthetic(w)
                 \/ new \in picks /\ ~WasRead(w, new)
                 \/ \E row \in picks : /\ WasRead(w, row) /\ LeftOf(w, row, new)
                                       /\ new = [row EXCEPT !.status = "LOCKED"]
           /\ Synthetic(w) \subseteq picks'
           /\ \A x \in Synthetic(w), row \in picks : ~SamePick(row, x)
<1> DEFINE m == run[w].match
           found == UNION {RowsOf(line.group, line.user, m) : line \in run[w].lines}
<1>1. picks' = (picks \ found) \cup Locked(found) \cup Synthetic(w)
  BY DEF PersistLocks, Synthetic
<1>2. \A row : row \in found <=> row \in picks /\ WasRead(w, row)
  BY DEF RowsOf, WasRead
<1> HIDE DEF found
<1>3. ASSUME NEW row \in found
      PROVE  LeftOf(w, row, [row EXCEPT !.status = "LOCKED"])
  <2>1. row \in PickRow
    BY <1>2 DEF TypeOK
  <2> QED
    BY <2>1, ChangedColumns DEF LeftOf, SamePick
<1>4. ASSUME NEW row \in picks
      PROVE  \E new \in picks' : LeftOf(w, row, new)
  <2>1. CASE row \in found
    <3>1. [row EXCEPT !.status = "LOCKED"] \in picks'
      BY <1>1, <2>1 DEF Locked
    <3> QED
      BY <1>3, <2>1, <3>1
  <2>2. CASE row \notin found
    <3>1. row \in picks' /\ ~WasRead(w, row)
      BY <1>1, <1>2, <2>2
    <3> QED
      BY <3>1 DEF LeftOf, SamePick
  <2> QED
    BY <2>1, <2>2
<1>5. ASSUME NEW new \in Locked(found)
      PROVE  \E row \in picks : /\ WasRead(w, row) /\ LeftOf(w, row, new)
                                /\ new = [row EXCEPT !.status = "LOCKED"]
  <2>1. PICK row \in found : new = [row EXCEPT !.status = "LOCKED"]
    BY DEF Locked
  <2> QED
    BY <1>2, <1>3, <2>1
<1>6. ASSUME NEW new \in picks'
      PROVE  \/ new \in Synthetic(w)
             \/ new \in picks /\ ~WasRead(w, new)
             \/ \E row \in picks : /\ WasRead(w, row) /\ LeftOf(w, row, new)
                                   /\ new = [row EXCEPT !.status = "LOCKED"]
  BY <1>1, <1>2, <1>5
<1>7. ASSUME NEW x \in Synthetic(w), NEW row \in picks
      PROVE  ~SamePick(row, x)
  <2>1. PICK line \in run[w].lines :
            /\ ~line.found
            /\ x.group = line.group /\ x.user = line.user /\ x.match = m
    BY DEF Synthetic
  <2>2. RowsOf(line.group, line.user, m) = {}
    BY <2>1 DEF PersistLocks, Conflicts
  <2> QED
    BY <2>1, <2>2 DEF RowsOf, SamePick
<1> QED
  BY <1>1, <1>4, <1>6, <1>7

\* The commit locks what it has read and inserts where nothing was: records stand.
LEMMA PersistStands ==
    ASSUME TypeOK, PicksInv, NEW w \in Lockers, PersistLocks(w), UNCHANGED request
    PROVE  RecordsStand /\ PicksInv'
<1>1. ASSUME NEW g, NEW u, NEW m
      PROVE  /\ OnRecord(g, u, m) => OnRecord(g, u, m)'
             /\ LockedOnRecord(g, u, m) => LockedOnRecord(g, u, m)'
             /\ AutoLoss(g, u, m) => AutoLoss(g, u, m)'
  <2>1. OnRecord(g, u, m) => OnRecord(g, u, m)'
    BY PersistedRows DEF OnRecord, RowsOf, LeftOf, SamePick
  <2>2. LockedOnRecord(g, u, m) => LockedOnRecord(g, u, m)'
    BY PersistedRows DEF LockedOnRecord, RowsOf, LeftOf, SamePick
  <2>3. ASSUME AutoLoss(g, u, m), NEW new \in RowsOf(g, u, m)'
        PROVE  new.predicted = Null
    BY <2>3, PersistedRows DEF AutoLoss, RowsOf, LeftOf, SamePick, Synthetic
  <2> QED
    BY <2>1, <2>2, <2>3 DEF OnRecord, AutoLoss
<1>2. RecordsStand
  BY <1>1 DEF RecordsStand
<1>3. OneRowPerPick'
  <2> SUFFICES ASSUME NEW p \in picks', NEW q \in picks', SamePick(p, q)
               PROVE  p = q
    BY DEF OneRowPerPick, SamePick
  <2>1. CASE p \in Synthetic(w) /\ q \in Synthetic(w)
    BY <2>1 DEF Synthetic, SamePick
  <2>2. CASE p \in Synthetic(w) /\ q \notin Synthetic(w)
    BY <2>2, PersistedRows DEF LeftOf, SamePick
  <2>3. CASE p \notin Synthetic(w) /\ q \in Synthetic(w)
    BY <2>3, PersistedRows DEF LeftOf, SamePick
  <2>4. CASE p \notin Synthetic(w) /\ q \notin Synthetic(w)
    BY <2>4, PersistedRows DEF PicksInv, OneRowPerPick, LeftOf, SamePick, WasRead
  <2> QED
    BY <2>1, <2>2, <2>3, <2>4
<1>4. NoPredictionIsLocked'
  <2> SUFFICES ASSUME NEW new \in picks', new.predicted = Null
               PROVE  new.status = "LOCKED"
    BY DEF NoPredictionIsLocked
  <2>1. CASE new \in Synthetic(w)
    BY <2>1 DEF Synthetic
  <2>2. CASE new \notin Synthetic(w)
    BY <2>2, PersistedRows DEF PicksInv, NoPredictionIsLocked, LeftOf
  <2> QED
    BY <2>1, <2>2
<1>5. UpdatesHavePredictions'
  <2> SUFFICES ASSUME NEW r \in Requests, request[r].step = "update"
               PROVE  RequestedRows(r)' # {} /\ \A row \in RequestedRows(r)' : row.predicted # Null
    BY DEF UpdatesHavePredictions
  <2>1. RequestedRows(r) # {} /\ \A row \in RequestedRows(r) : row.predicted # Null
    BY DEF PicksInv, UpdatesHavePredictions
  <2>2. RequestedRows(r)' = {row \in picks' : row.group = request[r].group
                                /\ row.user = request[r].user /\ row.match = request[r].match}
    BY DEF RequestedRows, RowsOf
  <2> QED
    BY <2>1, <2>2, PersistedRows DEF RequestedRows, RowsOf, LeftOf, SamePick, Synthetic
<1> QED
  BY <1>2, <1>3, <1>4, <1>5 DEF PicksInv

\* After the commit, each line that was read has its LOCKED row, and an automatic
\* loss only rows without a prediction.
LEMMA PersistedLine ==
    ASSUME TypeOK, PicksInv, NEW w \in Lockers, PersistLocks(w), UNCHANGED request,
           NEW m, m = run[w].match, NEW line \in run[w].lines, LineStands(line, m)
    PROVE  /\ LockedOnRecord(line.group, line.user, m)'
           /\ line.predicted = Null => AutoLoss(line.group, line.user, m)'
<1> DEFINE x == [group |-> line.group, user |-> line.user, match |-> m,
                 predicted |-> Null, status |-> "LOCKED"]
<1>1. CASE line.found
  <2>1. PICK row \in picks : row.group = line.group /\ row.user = line.user /\ row.match = m
    BY <1>1 DEF LineStands, OnRecord, RowsOf
  <2>2. WasRead(w, row)
    BY <2>1 DEF WasRead
  <2>3. PICK new \in picks' : LeftOf(w, row, new)
    BY PersistedRows
  <2>4. LockedOnRecord(line.group, line.user, m)'
    BY <2>1, <2>2, <2>3 DEF LeftOf, SamePick, LockedOnRecord, RowsOf, PersistLocks
  <2>5. line.predicted = Null => AutoLoss(line.group, line.user, m)
    BY <1>1 DEF LineStands
  <2> QED
    BY <2>4, <2>5, PersistStands DEF RecordsStand
<1>2. CASE ~line.found
  <2>1. x \in Synthetic(w)
    BY <1>2 DEF Synthetic
  <2>2. x \in picks' /\ \A row \in picks : ~SamePick(row, x)
    BY <2>1, PersistedRows
  <2>3. \A new \in picks' : SamePick(new, x) => new \in Synthetic(w)
    BY <2>2, PersistedRows DEF LeftOf, SamePick
  <2>4. \A new \in picks' : SamePick(new, x) => new.predicted = Null
    BY <2>3 DEF Synthetic
  <2> QED
    BY <2>2, <2>4 DEF LockedOnRecord, AutoLoss, RowsOf, SamePick
<1> QED
  BY <1>1, <1>2

\* So has each event that is made of the lines.
LEMMA PersistedEvents ==
    ASSUME TypeOK, PicksInv, NEW w \in Lockers, PersistLocks(w), UNCHANGED request,
           RunStands(run[w]), NEW event \in Events(run[w].match, run[w].lines)
    PROVE  EventStands(event)'
<1>1. PICK m : m = run[w].match
  OBVIOUS
<1>2. \A line \in run[w].lines : LineStands(line, m)
  BY <1>1 DEF RunStands, PersistLocks
<1>3. PICK g : event = [match |-> m, group |-> g,
                        picks |-> {[user |-> line.user, predicted |-> line.predicted] :
                                      line \in {x \in run[w].lines : x.group = g}}]
  BY <1>1 DEF Events
<1>4. ASSUME NEW p \in event.picks
      PROVE  /\ LockedOnRecord(g, p.user, m)'
             /\ p.predicted = Null => AutoLoss(g, p.user, m)'
  <2>1. PICK line \in run[w].lines :
            line.group = g /\ p = [user |-> line.user, predicted |-> line.predicted]
    BY <1>3
  <2> QED
    BY <1>1, <1>2, <2>1, PersistedLine
<1>5. event.match = m /\ event.group = g
  BY <1>3
<1> QED
  BY <1>4, <1>5 DEF EventStands

\* A pick without a prediction is the only row of its member and match.
LEMMA PayloadStands ==
    ASSUME OneRowPerPick, NEW g, NEW u, NEW m
    PROVE  LineStands(PayloadOf(g, u, m), m)
<1> DEFINE rows == RowsOf(g, u, m)
<1>1. /\ PayloadOf(g, u, m).group = g /\ PayloadOf(g, u, m).user = u
      /\ PayloadOf(g, u, m).found = (rows # {})
      /\ rows # {} => PayloadOf(g, u, m).predicted = (CHOOSE row \in rows : TRUE).predicted
  BY DEF PayloadOf
<1>2. CASE rows # {}
  <2>1. (CHOOSE row \in rows : TRUE) \in rows
    BY <1>2
  <2>2. \A row \in rows : row = (CHOOSE q \in rows : TRUE)
    BY <2>1, OneRow
  <2> QED
    BY <1>1, <1>2, <2>2 DEF LineStands, OnRecord, AutoLoss
<1>3. CASE rows = {}
  BY <1>1, <1>3 DEF LineStands
<1> QED
  BY <1>2, <1>3

\* As long as the records stand, so does what the runs hold, but for the run that
\* is replaced.
LEMMA UpdatedRunStands ==
    ASSUME TypeOK, RunsStand, RecordsStand, NEW w \in Lockers, NEW r,
           run' = [run EXCEPT ![w] = r], RunStands(r)'
    PROVE  RunsStand'
<1> SUFFICES ASSUME NEW v \in Lockers
             PROVE  RunStands(run[v])'
  BY DEF RunsStand
<1>1. CASE v = w
  BY <1>1 DEF TypeOK, RunStands
<1>2. CASE v # w
  <2>1. PICK q : q = run[v]
    OBVIOUS
  <2>2. RunStands(q)
    BY <2>1 DEF RunsStand
  <2>3. RunStands(q)'
    BY <2>2, LinesAndEventsStand DEF RunStands
  <2>4. run'[v] = q
    BY <1>2, <2>1 DEF TypeOK
  <2> QED
    BY <2>3, <2>4 DEF RunStands
<1> QED
  BY <1>1, <1>2

\* An empty or abandoned run says nothing.
LEMMA AbortedRunsStand ==
    ASSUME TypeOK, RunsStand, RecordsStand, NEW w \in Lockers, Abort(w)
    PROVE  RunsStand'
  BY UpdatedRunStands, IdleRecords DEF Abort, RunStands

\* A step that leaves the runs alone.
LEMMA KeptRunsStand ==
    ASSUME RunsStand, RecordsStand, run' = run
    PROVE  RunsStand'
  BY LinesAndEventsStand DEF RunsStand, RunStands

\* A step that writes no picks and begins no UPDATE.
LEMMA KeptPicksInv ==
    ASSUME PicksInv, picks' = picks,
           \A r \in Requests : request'[r] = request[r] \/ request'[r].step # "update"
    PROVE  PicksInv'
  BY DEF PicksInv, OneRowPerPick, NoPredictionIsLocked, UpdatesHavePredictions,
         RequestedRows, RowsOf

\* Events on the exchange keep standing, and a new one stood in its run.
LEMMA AnnouncedStand ==
    ASSUME RecordsStand, RunsStand, NEW w \in Lockers, \A e \in announced : EventStands(e),
           announced' \subseteq announced \cup Unpublished(w)
    PROVE  (\A e \in announced : EventStands(e))'
<1> SUFFICES ASSUME NEW e \in announced'
             PROVE  EventStands(e)'
  OBVIOUS
<1>1. EventStands(e)
  BY DEF RunsStand, RunStands, Unpublished
<1> QED
  BY <1>1, LinesAndEventsStand

\* There are no picks, runs and events at first.
LEMMA InitRecordInv == Init => RecordInv
  BY IdleRecords
  DEF Init, RecordInv, PicksInv, OneRowPerPick, NoPredictionIsLocked, UpdatesHavePredictions,
      RunsStand, RunStands

\* Every step keeps what is announced, and what is about to be, on record.
LEMMA NextRecordInv == TypeOK /\ RecordInv /\ [Next]_vars => RecordInv'
<1> SUFFICES ASSUME TypeOK, RecordInv, [Next]_vars PROVE RecordInv'
  OBVIOUS
<1> USE DEF RecordInv
<1>1. ASSUME RecordsStand, PicksInv', RunsStand', announced' = announced
      PROVE  RecordInv'
  BY <1>1, LinesAndEventsStand
<1>2. ASSUME UNCHANGED <<picks, request, announced>>, RunsStand'
      PROVE  RecordInv'
  BY <1>1, <1>2, UnchangedRecords, KeptPicksInv
<1>3. ASSUME UNCHANGED <<picks, request, announced, run>>
      PROVE  RecordInv'
  BY <1>2, <1>3, UnchangedRecords, KeptRunsStand
<1>4. CASE \/ UNCHANGED vars \/ Tick \/ QueryDue
           \/ \E g \in Groups, u \in Users : CreateGroup(g, u) \/ JoinGroup(g, u)
           \/ \E lockAt \in [Matches -> LockTimes] : SyncMatchRef(lockAt)
  BY <1>3, <1>4 DEF vars, CreateGroup, JoinGroup, SyncMatchRef, Tick, QueryDue
<1>5. ASSUME NEW r \in Requests,
             \/ \E u \in Users, g \in Groups, m \in Matches, p \in Outcomes :
                   SubmitPick(r, u, g, m, p)
             \/ CheckWindow(r)
      PROVE  RecordInv'
  <2>1. \A b \in Requests : request'[b] = request[b] \/ request'[b].step # "update"
    <3>1. CASE CheckWindow(r)
      <4>1. \/ request' = [request EXCEPT ![r] = [request[r] EXCEPT !.step = "read"]]
            \/ request' = [request EXCEPT ![r] = NoRequest]
        BY <3>1 DEF CheckWindow
      <4>2. [request[r] EXCEPT !.step = "read"].step # "update"
        <5>1. request[r] \in Submission
          BY <3>1, RequestSteps DEF CheckWindow, TypeOK
        <5> QED
          BY <5>1 DEF Submission
      <4> QED
        BY <4>1, <4>2, IdleRecords DEF TypeOK
    <3> QED
      BY <1>5, <3>1 DEF SubmitPick, TypeOK
  <2>2. UNCHANGED <<picks, run, announced>>
    BY <1>5 DEF SubmitPick, CheckWindow
  <2> QED
    BY <1>1, <2>1, <2>2, UnchangedRecords, KeptPicksInv, KeptRunsStand
<1>6. ASSUME NEW r \in Requests, ReadPick(r)
      PROVE  RecordInv'
  <2>1. UNCHANGED <<picks, run, announced>>
    BY <1>6 DEF ReadPick
  <2>2. UpdatesHavePredictions'
    <3> SUFFICES ASSUME NEW b \in Requests, request'[b].step = "update"
                 PROVE  /\ RequestedRows(b)' # {}
                        /\ \A row \in RequestedRows(b)' : row.predicted # Null
      BY DEF UpdatesHavePredictions
    <3>1. CASE request'[b] = request[b]
      BY <2>1, <3>1 DEF PicksInv, UpdatesHavePredictions, RequestedRows, RowsOf
    <3>2. CASE request'[b] # request[b]
      <4> DEFINE step(s) == [request[r] EXCEPT !.step = s]
      <4>1. request[r] \in Submission
        BY <1>6, RequestSteps DEF ReadPick, TypeOK
      <4>2. step("insert").step = "insert" /\ step("update").user = request[r].user
            /\ step("update").group = request[r].group /\ step("update").match = request[r].match
        BY <4>1 DEF Submission
      <4>3. b = r
        BY <1>6, <3>2 DEF ReadPick, TypeOK
      <4>4. CASE RequestedRows(r) = {}
        BY <1>6, <4>2, <4>3, <4>4 DEF ReadPick, TypeOK
      <4>5. CASE RequestedRows(r) # {}
        <5> DEFINE open == \E row \in RequestedRows(r) :
                              row.status = "OPEN" /\ row.predicted # request[r].predicted
        <5>1. CASE ~open
          <6>1. request' = [request EXCEPT ![r] = NoRequest]
            BY <1>6, <4>5, <5>1 DEF ReadPick
          <6> QED
            BY <4>3, <6>1, IdleRecords DEF TypeOK
        <5>2. CASE open
          <6>1. PICK row \in RequestedRows(r) : row.status = "OPEN"
            BY <5>2
          <6>2. \A q \in RequestedRows(r) : q = row
            BY <6>1, OneRow DEF PicksInv, RequestedRows
          <6>3. row.predicted # Null
            BY <6>1 DEF PicksInv, NoPredictionIsLocked, RequestedRows, RowsOf
          <6>4. request' = [request EXCEPT ![r] = step("update")]
            BY <1>6, <4>5, <5>2 DEF ReadPick
          <6> HIDE DEF step
          <6>5. request'[b] = step("update")
            BY <4>3, <6>4 DEF TypeOK
          <6>6. RequestedRows(b)' = RequestedRows(r)
            BY <2>1, <4>2, <6>5 DEF RequestedRows, RowsOf
          <6> QED
            BY <6>1, <6>2, <6>3, <6>6
        <5> QED
          BY <5>1, <5>2
      <4> QED
        BY <4>4, <4>5
    <3> QED
      BY <3>1, <3>2
  <2>3. PicksInv'
    BY <2>1, <2>2 DEF PicksInv, OneRowPerPick, NoPredictionIsLocked
  <2> QED
    BY <1>1, <2>1, <2>3, UnchangedRecords, KeptRunsStand
<1>7. ASSUME NEW r \in Requests, CommitPick(r)
      PROVE  RecordInv'
  <2>1. UNCHANGED <<run, announced>>
    BY <1>7 DEF CommitPick
  <2> QED
    BY <1>1, <1>7, <2>1, CommitPickStands, KeptRunsStand
<1>8. ASSUME NEW w \in Lockers, NEW m \in Matches, LockMatch(w, m)
      PROVE  RecordInv'
  <2>1. RunStands([step |-> "groups", match |-> m])'
    BY DEF RunStands
  <2>2. RunsStand'
    BY <1>8, <2>1, UpdatedRunStands, KeptRunsStand, UnchangedRecords DEF LockMatch
  <2> QED
    BY <1>2, <1>8, <2>2 DEF LockMatch
<1>9. ASSUME NEW w \in Lockers, ReadGroups(w)
      PROVE  RecordInv'
  <2>1. PICK r : r = [step |-> "picks", match |-> run[w].match,
                      groups |-> {g \in Groups : MembersOf(g) # {}}, todo |-> {}, lines |-> {}]
    OBVIOUS
  <2>2. RunStands(r)'
    BY <2>1 DEF RunStands
  <2>3. run' = [run EXCEPT ![w] = r] /\ UNCHANGED <<picks, request, announced>>
    BY <1>9, <2>1 DEF ReadGroups
  <2> QED
    BY <1>2, <2>2, <2>3, UpdatedRunStands, UnchangedRecords
<1>10. ASSUME NEW w \in Lockers, NEW g \in Groups, ReadMembers(w, g)
       PROVE  RecordInv'
  <2>1. PICK r : r = [run[w] EXCEPT !.groups = @ \ {g}, !.todo = {g} \X MembersOf(g)]
    OBVIOUS
  <2>2. r.step = "picks" /\ r.lines = run[w].lines /\ r.match = run[w].match
    BY <1>10, <2>1, RunSteps DEF ReadMembers, TypeOK
  <2>3. RunStands(r)
    BY <1>10, <2>2 DEF ReadMembers, RunsStand, RunStands
  <2>4. run' = [run EXCEPT ![w] = r] /\ UNCHANGED <<picks, request, announced>>
    BY <1>10, <2>1 DEF ReadMembers
  <2>5. RunStands(r)'
    BY <2>3, <2>4, UnchangedRecords, LinesAndEventsStand DEF RunStands
  <2> QED
    BY <1>2, <2>4, <2>5, UpdatedRunStands, UnchangedRecords
<1>11. ASSUME NEW w \in Lockers, NEW g \in Groups, NEW u \in Users, ReadMemberPick(w, g, u)
       PROVE  RecordInv'
  <2>1. PICK r : r = [run[w] EXCEPT !.todo = @ \ {<<g, u>>},
                                    !.lines = @ \cup {PayloadOf(g, u, run[w].match)}]
    OBVIOUS
  <2>2. /\ r.step = "picks" /\ r.match = run[w].match
        /\ r.lines = run[w].lines \cup {PayloadOf(g, u, run[w].match)}
    BY <1>11, <2>1, RunSteps DEF ReadMemberPick, TypeOK
  <2>3. RunStands(r)
    BY <1>11, <2>2, PayloadStands DEF ReadMemberPick, PicksInv, RunsStand, RunStands
  <2>4. run' = [run EXCEPT ![w] = r] /\ UNCHANGED <<picks, request, announced>>
    BY <1>11, <2>1 DEF ReadMemberPick
  <2>5. RunStands(r)'
    BY <2>3, <2>4, UnchangedRecords, LinesAndEventsStand DEF RunStands
  <2> QED
    BY <1>2, <2>4, <2>5, UpdatedRunStands, UnchangedRecords
<1>12. ASSUME NEW w \in Lockers, CommitLocks(w)
       PROVE  RecordInv'
  <2>1. PICK r : r = [step |-> "publish", match |-> run[w].match,
                      events |-> Events(run[w].match, run[w].lines)]
    OBVIOUS
  <2>2. /\ run' = [run EXCEPT ![w] = r] /\ PersistLocks(w)
        /\ UNCHANGED <<request, announced>>
    BY <1>12, <2>1 DEF CommitLocks
  <2>3. RecordsStand /\ PicksInv'
    BY <2>2, PersistStands
  <2>4. RunStands(r)'
    BY <2>1, <2>2, PersistedEvents DEF RunsStand, RunStands
  <2> QED
    BY <1>1, <2>2, <2>3, <2>4, UpdatedRunStands
<1>13. ASSUME NEW w \in Lockers, CommitAnswerLost(w)
       PROVE  RecordInv'
  BY <1>1, <1>13, PersistStands, AbortedRunsStand DEF CommitAnswerLost
<1>14. ASSUME NEW w \in Lockers, LockConflicts(w) \/ LockFails(w)
       PROVE  RecordInv'
  BY <1>2, <1>14, UnchangedRecords, AbortedRunsStand DEF LockConflicts, LockFails
<1>15. ASSUME NEW w \in Lockers, NEW event \in Unpublished(w), PublishNext(w, event)
       PROVE  RecordInv'
  <2>1. PICK r : r = [run[w] EXCEPT !.events = @ \ {event}]
    OBVIOUS
  <2>2. r.step = "publish" /\ r.events \subseteq run[w].events /\ run[w].step = "publish"
    BY <1>15, <2>1, RunSteps DEF Unpublished, TypeOK
  <2>3. RunStands(r)
    BY <2>2 DEF RunsStand, RunStands
  <2>4. /\ run' = [run EXCEPT ![w] = r] /\ UNCHANGED <<picks, request>>
        /\ announced' \subseteq announced \cup Unpublished(w)
    BY <1>15, <2>1 DEF PublishNext
  <2>5. RunStands(r)'
    BY <2>3, <2>4, UnchangedRecords, LinesAndEventsStand DEF RunStands
  <2> QED
    BY <2>4, <2>5, UpdatedRunStands, UnchangedRecords, KeptPicksInv, AnnouncedStand
<1>16. ASSUME NEW w \in Lockers, NEW event \in Unpublished(w), ConfirmLost(w, event)
       PROVE  RecordInv'
  <2>1. UNCHANGED <<picks, request>> /\ announced' \subseteq announced \cup Unpublished(w)
    BY <1>16 DEF ConfirmLost
  <2>2. RunsStand'
    BY <1>16, <2>1, UnchangedRecords, AbortedRunsStand DEF ConfirmLost
  <2> QED
    BY <2>1, <2>2, UnchangedRecords, KeptPicksInv, AnnouncedStand
<1>17. ASSUME NEW w \in Lockers, MarkLocked(w)
       PROVE  RecordInv'
  <2>1. RunStands(NoRun)'
    BY IdleRecords DEF RunStands
  <2> QED
    BY <1>2, <1>17, <2>1, UnchangedRecords, UpdatedRunStands DEF MarkLocked
<1>18. CASE Restart
  <2>1. RunsStand'
    BY <1>18, IdleRecords DEF Restart, RunsStand, RunStands
  <2>2. \A r \in Requests : request'[r].step # "update"
    BY <1>18, IdleRecords DEF Restart
  <2> QED
    BY <1>1, <1>18, <2>1, <2>2, UnchangedRecords, KeptPicksInv DEF Restart
<1> QED
  BY <1>4, <1>5, <1>6, <1>7, <1>8, <1>9, <1>10, <1>11, <1>12, <1>13, <1>14, <1>15, <1>16,
     <1>17, <1>18
  DEF Next, JobStep, RequestStep, LockStep, Lockers

\* lock_match, "picks are now locked and durable": each line of a PickLocked event
\* has its LOCKED row, whoever else locks, submits or fails.
THEOREM AnnouncedPicksAreDurable == Spec => []AnnouncedIsDurable
<1>1. TypeOK /\ RecordInv /\ [Next]_vars => RecordInv'
  BY NextRecordInv
<1>2. RecordInv => AnnouncedIsDurable
  BY DEF RecordInv, EventStands, LockedOnRecord, AnnouncedIsDurable
<1> QED
  BY <1>1, <1>2, InitRecordInv, TypeCorrect, PTL DEF Spec

\* Nobody with a prediction on record is announced as an automatic loss: whoever
\* inserts the pick second, player or lock, fails on uq_picks_group_user_match.
THEOREM AutoLossesHaveNoPick == Spec => []AutoLossMeansNoPick
<1>1. TypeOK /\ RecordInv /\ [Next]_vars => RecordInv'
  BY NextRecordInv
<1>2. RecordInv => AutoLossMeansNoPick
  BY DEF RecordInv, EventStands, AutoLoss, AutoLossMeansNoPick
<1> QED
  BY <1>1, <1>2, InitRecordInv, TypeCorrect, PTL DEF Spec

-----------------------------------------------------------------------------
(***************************************************************************)
(* Without force-locks.  The job is the only locker, so a run's match is   *)
(* SCHEDULED until the run itself marks it, and every LOCKED pick of the   *)
(* match was locked by this run or by one that failed: members stay        *)
(* members, so this run comes across both.                                 *)
(***************************************************************************)
\* Nothing is locked, and the job is idle, at first.
LEMMA InitJobInv == Init => JobInv
  BY IdleRecords, PredictionAssumption
  DEF Init, JobInv, LockedAreMembers, JobRun, LockedAreAnnounced, LockedOnRecord, RowsOf,
      NoRef, Lockers

\* A step that locks no pick, marks no match and forgets no member, and the same
\* but for a match that is marked.
LocksNothing ==
    /\ members \subseteq members' /\ announced \subseteq announced'
    /\ \A g \in Groups, u \in Users, m \in Matches :
          LockedOnRecord(g, u, m)' => LockedOnRecord(g, u, m)

MarksNothing ==
    \A m \in Matches : /\ refs'[m].status = "LOCKED" => refs[m].status = "LOCKED"
                       /\ refs[m].status = "SCHEDULED" => refs'[m].status = "SCHEDULED"

\* Such a step leaves the invariant to what it does to the run.
LEMMA QuietJobInv ==
    ASSUME JobInv, LocksNothing, MarksNothing, JobRun(run[Job])'
    PROVE  JobInv'
<1>1. LockedAreMembers'
  BY DEF JobInv, LockedAreMembers, LocksNothing
<1>2. ASSUME NEW g \in Groups, NEW u \in Users, NEW m \in Matches,
             LockedOnRecord(g, u, m)', refs'[m].status = "LOCKED"
      PROVE  AnnouncedPick(g, u, m, announced)'
  <2>1. AnnouncedPick(g, u, m, announced)
    BY <1>2 DEF JobInv, LockedAreAnnounced, LocksNothing, MarksNothing
  <2> QED
    BY <2>1 DEF AnnouncedPick, LocksNothing
<1> QED
  BY <1>1, <1>2 DEF JobInv, LockedAreAnnounced

\* A run that covers its match goes on doing so.
LEMMA QuietJobRun ==
    ASSUME LocksNothing, MarksNothing, NEW r, JobRun(r), r.step # "idle" => r.match \in Matches
    PROVE  JobRun(r)'
<1>1. ASSUME r.step = "picks"
      PROVE  r.todo \subseteq members' /\ \A line \in r.lines : <<line.group, line.user>> \in members'
  BY <1>1 DEF JobRun, LocksNothing
<1>2. ASSUME r.step # "idle"
      PROVE  refs'[r.match].status = "SCHEDULED"
  BY <1>2 DEF JobRun, MarksNothing
<1>3. ASSUME r.step # "idle", NEW g \in Groups, NEW u \in Users, LockedOnRecord(g, u, r.match)'
      PROVE  RunCovers(r, g, u)'
  <2>1. RunCovers(r, g, u)
    BY <1>3 DEF JobRun, LocksNothing
  <2> QED
    BY <2>1 DEF RunCovers, AnnouncedPick, LocksNothing
<1> QED
  BY <1>1, <1>2, <1>3 DEF JobRun

\* A submission locks no pick: what it inserts is OPEN, what it updates keeps its
\* status.
LEMMA CommitPickLocksNothing ==
    ASSUME TypeOK, NEW r \in Requests, CommitPick(r)
    PROVE  LocksNothing
<1> SUFFICES ASSUME NEW g, NEW u, NEW m, NEW p \in picks', p.status = "LOCKED",
                    p.group = g, p.user = u, p.match = m
             PROVE  LockedOnRecord(g, u, m)
  BY DEF LocksNothing, LockedOnRecord, RowsOf, CommitPick
<1>1. CASE p \in picks
  BY <1>1 DEF LockedOnRecord, RowsOf
<1>2. CASE p \notin picks
  <2>1. PICK row \in RequestedRows(r) : p = [row EXCEPT !.predicted = request[r].predicted]
    BY <1>2 DEF CommitPick
  <2>2. row \in picks /\ row \in PickRow
    BY <2>1 DEF RequestedRows, RowsOf, TypeOK
  <2> QED
    BY <2>1, <2>2, ChangedColumns DEF LockedOnRecord, RowsOf
<1> QED
  BY <1>1, <1>2

\* A LOCKED row after the commit was LOCKED before, or the run has a line for it.
LEMMA PersistLocksLines ==
    ASSUME TypeOK, NEW w \in Lockers, PersistLocks(w), NEW m, m = run[w].match,
           NEW g, NEW u, NEW n, LockedOnRecord(g, u, n)'
    PROVE  \/ LockedOnRecord(g, u, n)
           \/ n = m /\ \E line \in run[w].lines : line.group = g /\ line.user = u
<1>1. PICK new \in picks' : /\ new.group = g /\ new.user = u /\ new.match = n
                            /\ new.status = "LOCKED"
  BY DEF LockedOnRecord, RowsOf
<1>2. CASE new \in Synthetic(w)
  BY <1>1, <1>2 DEF Synthetic
<1>3. CASE new \in picks
  BY <1>1, <1>3 DEF LockedOnRecord, RowsOf
<1>4. CASE \E row \in picks : WasRead(w, row) /\ LeftOf(w, row, new)
  BY <1>1, <1>4 DEF WasRead, LeftOf, SamePick
<1> QED
  BY <1>2, <1>3, <1>4, PersistedRows

\* Each line is in an event of its group.
LEMMA LinesAreInEvents ==
    ASSUME NEW m, NEW lines, NEW line \in lines
    PROVE  AnnouncedPick(line.group, line.user, m, Events(m, lines))
<1> DEFINE g == line.group
           p == [user |-> line.user, predicted |-> line.predicted]
           event == [match |-> m, group |-> g,
                     picks |-> {[user |-> x.user, predicted |-> x.predicted] :
                                   x \in {y \in lines : y.group = g}}]
<1>1. event \in Events(m, lines)
  BY DEF Events
<1>2. event.match = m /\ event.group = g /\ p \in event.picks /\ p.user = line.user
  OBVIOUS
<1> HIDE DEF event, p
<1> QED
  BY <1>1, <1>2 DEF AnnouncedPick

\* A quiet step that leaves the job's run alone, drops it, or replaces it by one
\* that covers the match as well.
LEMMA QuietSteps ==
    ASSUME TypeOK, JobInv, LocksNothing, MarksNothing, NEW r, JobRun(r),
           r.step # "idle" => r.match \in Matches,
           run'[Job] \in {run[Job], NoRun, r}
    PROVE  JobInv'
<1>1. PICK q : q = run'[Job]
  OBVIOUS
<1>2. JobRun(q)
  BY <1>1, IdleRecords DEF JobInv, JobRun
<1>3. q.step # "idle" => q.match \in Matches
  BY <1>1, IdleRecords, RunSteps DEF TypeOK, Lockers
<1>4. JobRun(q)'
  BY <1>2, <1>3, QuietJobRun
<1> QED
  BY <1>1, <1>4, QuietJobInv DEF JobRun, RunCovers

\* A step that writes no picks locks none.
LEMMA UnchangedLocks ==
    ASSUME UNCHANGED picks, members \subseteq members', announced \subseteq announced'
    PROVE  LocksNothing
  BY DEF LocksNothing, LockedOnRecord, RowsOf

\* Every step keeps the LOCKED picks of the run's match within its reach; the match
\* is marked when the run has announced all it has reached.
LEMMA NextJobInv ==
    ASSUME Admins = {}
    PROVE  TypeOK /\ JobInv /\ [Next]_vars => JobInv'
<1> SUFFICES ASSUME TypeOK, JobInv, [Next]_vars PROVE JobInv'
  OBVIOUS
<1>a. Lockers = {Job}
  BY DEF Lockers
<1>b. run[Job] \in Run /\ JobRun(run[Job])
  BY <1>a DEF TypeOK, JobInv
<1>c. JobRun(NoRun)
  BY IdleRecords DEF JobRun
<1>1. ASSUME LocksNothing, MarksNothing, run'[Job] \in {run[Job], NoRun}
      PROVE  JobInv'
  BY <1>1, <1>c, IdleRecords, QuietSteps
<1>2. CASE \/ UNCHANGED vars \/ Tick \/ QueryDue
           \/ \E g \in Groups, u \in Users : CreateGroup(g, u) \/ JoinGroup(g, u)
           \/ \E r \in Requests :
                 \/ \E u \in Users, g \in Groups, m \in Matches, p \in Outcomes :
                       SubmitPick(r, u, g, m, p)
                 \/ CheckWindow(r) \/ ReadPick(r)
  <2>1. UNCHANGED <<picks, refs, run, announced>> /\ members \subseteq members'
    BY <1>2 DEF vars, CreateGroup, JoinGroup, Tick, QueryDue, SubmitPick, CheckWindow, ReadPick
  <2> QED
    BY <1>1, <2>1, UnchangedLocks DEF MarksNothing
<1>3. ASSUME NEW lockAt \in [Matches -> LockTimes], SyncMatchRef(lockAt)
      PROVE  JobInv'
  <2>1. MarksNothing
    BY <1>3 DEF SyncMatchRef, MarksNothing, NoRef
  <2> QED
    BY <1>1, <1>3, <2>1, UnchangedLocks DEF SyncMatchRef
<1>4. ASSUME NEW r \in Requests, CommitPick(r)
      PROVE  JobInv'
  BY <1>1, <1>4, CommitPickLocksNothing DEF CommitPick, MarksNothing
<1>5. ASSUME NEW m \in Matches, LockMatch(Job, m)
      PROVE  JobInv'
  <2> DEFINE r == [step |-> "groups", match |-> m]
  <2>1. CASE refs[m].status = "SCHEDULED"
    <3>1. JobRun(r)
      BY <2>1 DEF JobRun, RunCovers
    <3>2. run'[Job] = r
      BY <1>5, <1>a, <2>1 DEF LockMatch, TypeOK
    <3> QED
      BY <1>5, <3>1, <3>2, UnchangedLocks, QuietSteps DEF LockMatch, MarksNothing
  <2>2. CASE refs[m].status # "SCHEDULED"
    BY <1>1, <1>5, <2>2, UnchangedLocks DEF LockMatch, MarksNothing
  <2> QED
    BY <2>1, <2>2
<1>6. CASE ReadGroups(Job)
  <2>1. PICK r : r = [step |-> "picks", match |-> run[Job].match,
                      groups |-> {g \in Groups : MembersOf(g) # {}}, todo |-> {}, lines |-> {}]
    OBVIOUS
  <2>2. \A g \in Groups, u \in Users : LockedOnRecord(g, u, r.match) => RunCovers(r, g, u)
    <3>1. r.match \in Matches
      BY <1>6, <1>b, <2>1, RunSteps DEF ReadGroups
    <3> QED
      BY <2>1, <3>1 DEF JobInv, LockedAreMembers, RunCovers, MembersOf
  <2>3. JobRun(r)
    BY <1>6, <1>b, <2>1, <2>2 DEF ReadGroups, JobRun
  <2>4. run'[Job] = r /\ r.match \in Matches
    BY <1>6, <1>a, <1>b, <2>1, RunSteps DEF ReadGroups, TypeOK
  <2> QED
    BY <1>6, <2>3, <2>4, UnchangedLocks, QuietSteps DEF ReadGroups, MarksNothing
<1>7. ASSUME NEW g \in Groups, ReadMembers(Job, g)
      PROVE  JobInv'
  <2>1. PICK r : r = [run[Job] EXCEPT !.groups = @ \ {g}, !.todo = {g} \X MembersOf(g)]
    OBVIOUS
  <2>2. /\ r.step = "picks" /\ r.match = run[Job].match /\ r.match \in Matches
        /\ r.groups = run[Job].groups \ {g} /\ r.todo = {g} \X MembersOf(g)
        /\ r.lines = run[Job].lines /\ run[Job].todo = {}
    BY <1>7, <1>b, <2>1, RunSteps DEF ReadMembers
  <2>3. ASSUME NEW h \in Groups, NEW u \in Users, LockedOnRecord(h, u, r.match)
        PROVE  RunCovers(r, h, u)
    <3>1. RunCovers(run[Job], h, u)
      BY <1>7, <1>b, <2>2, <2>3 DEF ReadMembers, JobRun
    <3>2. CASE h = g
      <4>1. <<g, u>> \in members
        BY <2>2, <2>3, <3>2 DEF JobInv, LockedAreMembers
      <4> QED
        BY <2>2, <3>2, <4>1 DEF RunCovers, MembersOf
    <3> QED
      BY <1>7, <2>2, <3>1, <3>2 DEF ReadMembers, RunCovers
  <2>4. JobRun(r)
    BY <1>7, <1>b, <2>2, <2>3 DEF ReadMembers, JobRun, MembersOf
  <2>5. run'[Job] = r
    BY <1>7, <1>a, <2>1 DEF ReadMembers, TypeOK
  <2> QED
    BY <1>7, <2>2, <2>4, <2>5, UnchangedLocks, QuietSteps DEF ReadMembers, MarksNothing
<1>8. ASSUME NEW g \in Groups, NEW u \in Users, ReadMemberPick(Job, g, u)
      PROVE  JobInv'
  <2>1. PICK r : r = [run[Job] EXCEPT !.todo = @ \ {<<g, u>>},
                                      !.lines = @ \cup {PayloadOf(g, u, run[Job].match)}]
    OBVIOUS
  <2>2. /\ r.step = "picks" /\ r.match = run[Job].match /\ r.match \in Matches
        /\ r.groups = run[Job].groups /\ r.todo = run[Job].todo \ {<<g, u>>}
        /\ r.lines = run[Job].lines \cup {PayloadOf(g, u, run[Job].match)}
    BY <1>8, <1>b, <2>1, RunSteps DEF ReadMemberPick
  <2>3. PayloadOf(g, u, run[Job].match).group = g /\ PayloadOf(g, u, run[Job].match).user = u
    BY DEF PayloadOf
  <2>4. ASSUME NEW h \in Groups, NEW v \in Users, LockedOnRecord(h, v, r.match)
        PROVE  RunCovers(r, h, v)
    <3>1. RunCovers(run[Job], h, v)
      BY <1>8, <1>b, <2>2, <2>4 DEF ReadMemberPick, JobRun
    <3> QED
      BY <1>8, <2>2, <2>3, <3>1 DEF ReadMemberPick, RunCovers
  <2>5. JobRun(r)
    BY <1>8, <1>b, <2>2, <2>3, <2>4 DEF ReadMemberPick, JobRun
  <2>6. run'[Job] = r
    BY <1>8, <1>a, <2>1 DEF ReadMemberPick, TypeOK
  <2> QED
    BY <1>8, <2>2, <2>5, <2>6, UnchangedLocks, QuietSteps DEF ReadMemberPick, MarksNothing
<1>9. ASSUME PersistLocks(Job), UNCHANGED <<members, refs, announced>>,
             \/ run'[Job] = NoRun
             \/ run'[Job] = [step |-> "publish", match |-> run[Job].match,
                             events |-> Events(run[Job].match, run[Job].lines)]
      PROVE  JobInv'
  <2>1. PICK m : m = run[Job].match
    OBVIOUS
  <2>2. /\ m \in Matches /\ refs[m].status = "SCHEDULED" /\ run[Job].step = "picks"
        /\ run[Job].groups = {} /\ run[Job].todo = {}
        /\ \A line \in run[Job].lines : <<line.group, line.user>> \in members
    BY <1>9, <1>b, <2>1, RunSteps DEF PersistLocks, JobRun
  <2>3. ASSUME NEW g, NEW u, NEW n, LockedOnRecord(g, u, n)'
        PROVE  \/ LockedOnRecord(g, u, n)
               \/ n = m /\ \E line \in run[Job].lines : line.group = g /\ line.user = u
    BY <1>9, <1>a, <2>1, <2>3, PersistLocksLines
  <2>4. ASSUME NEW g \in Groups, NEW u \in Users, LockedOnRecord(g, u, m)'
        PROVE  \E line \in run[Job].lines : line.group = g /\ line.user = u
    <3>1. CASE LockedOnRecord(g, u, m)
      BY <1>b, <2>1, <2>2, <3>1 DEF JobRun, RunCovers
    <3> QED
      BY <2>3, <2>4, <3>1
  <2>5. LockedAreMembers'
    BY <1>9, <2>2, <2>3 DEF JobInv, LockedAreMembers
  <2>6. LockedAreAnnounced'
    BY <1>9, <2>2, <2>3 DEF JobInv, LockedAreAnnounced, AnnouncedPick
  <2>7. JobRun(run[Job])'
    <3>1. CASE run'[Job] = NoRun
      BY <3>1, IdleRecords DEF JobRun
    <3>2. CASE run'[Job] # NoRun
      <4>1. PICK r : r = [step |-> "publish", match |-> m, events |-> Events(m, run[Job].lines)]
        OBVIOUS
      <4>2. run'[Job] = r
        BY <1>9, <2>1, <3>2, <4>1
      <4>3. ASSUME NEW g \in Groups, NEW u \in Users, LockedOnRecord(g, u, m)'
            PROVE  AnnouncedPick(g, u, m, announced' \cup r.events)
        BY <2>4, <4>1, <4>3, LinesAreInEvents DEF AnnouncedPick
      <4>4. JobRun(r)'
        BY <1>9, <2>2, <4>1, <4>3 DEF JobRun, RunCovers, AnnouncedPick
      <4> QED
        BY <4>2, <4>4 DEF JobRun, RunCovers
    <3> QED
      BY <3>1, <3>2
  <2> QED
    BY <2>5, <2>6, <2>7 DEF JobInv
<1>10. CASE CommitLocks(Job)
  BY <1>9, <1>10, <1>a DEF CommitLocks, TypeOK
<1>11. CASE CommitAnswerLost(Job)
  BY <1>9, <1>11, <1>a DEF CommitAnswerLost, Abort, TypeOK
<1>12. CASE LockConflicts(Job) \/ LockFails(Job)
  <2>1. run'[Job] = NoRun
    BY <1>12, <1>a DEF LockConflicts, LockFails, Abort, TypeOK
  <2> QED
    BY <1>1, <1>12, <2>1, UnchangedLocks DEF LockConflicts, LockFails, MarksNothing
<1>13. ASSUME NEW event \in Unpublished(Job), PublishNext(Job, event)
       PROVE  JobInv'
  <2>1. PICK r : r = [run[Job] EXCEPT !.events = @ \ {event}]
    OBVIOUS
  <2>2. /\ r.step = "publish" /\ r.match = run[Job].match /\ r.match \in Matches
        /\ r.events = run[Job].events \ {event} /\ run[Job].step = "publish"
    BY <1>13, <1>b, <2>1, RunSteps DEF Unpublished
  <2>3. /\ UNCHANGED <<members, refs, picks>> /\ announced' = announced \cup {event}
        /\ run'[Job] = r
    BY <1>13, <1>a, <2>1 DEF PublishNext, TypeOK
  <2>4. ASSUME NEW g \in Groups, NEW u \in Users, LockedOnRecord(g, u, r.match)'
        PROVE  AnnouncedPick(g, u, r.match, announced' \cup r.events)
    <3>1. LockedOnRecord(g, u, r.match)
      BY <2>3, <2>4 DEF LockedOnRecord, RowsOf
    <3>2. AnnouncedPick(g, u, r.match, announced \cup run[Job].events)
      BY <1>b, <2>2, <3>1 DEF JobRun, RunCovers
    <3>3. announced \cup run[Job].events \subseteq announced' \cup r.events
      BY <2>2, <2>3
    <3> QED
      BY <3>2, <3>3 DEF AnnouncedPick
  <2>5. refs'[r.match].status = "SCHEDULED"
    BY <1>b, <2>2, <2>3 DEF JobRun
  <2>6. JobRun(run[Job])'
    BY <2>2, <2>3, <2>4, <2>5 DEF JobRun, RunCovers
  <2> QED
    BY <2>3, <2>6, UnchangedLocks, QuietJobInv DEF MarksNothing
<1>14. ASSUME NEW event \in Unpublished(Job), ConfirmLost(Job, event)
       PROVE  JobInv'
  <2>1. run'[Job] = NoRun
    BY <1>14, <1>a DEF ConfirmLost, Abort, TypeOK
  <2> QED
    BY <1>1, <1>14, <2>1, UnchangedLocks DEF ConfirmLost, MarksNothing
<1>15. CASE MarkLocked(Job)
  <2>1. PICK m : m = run[Job].match
    OBVIOUS
  <2>2. m \in Matches /\ run[Job].step = "publish" /\ run[Job].events = {}
    BY <1>15, <1>b, <2>1, RunSteps DEF MarkLocked
  <2>3. /\ UNCHANGED <<members, picks, announced>> /\ run'[Job] = NoRun
        /\ \A n \in Matches \ {m} : refs'[n] = refs[n]
    BY <1>15, <1>a, <2>1 DEF MarkLocked, TypeOK
  <2>4. ASSUME NEW g \in Groups, NEW u \in Users, LockedOnRecord(g, u, m)
        PROVE  AnnouncedPick(g, u, m, announced)
    <3>1. AnnouncedPick(g, u, m, announced \cup run[Job].events)
      BY <1>b, <2>1, <2>2, <2>4 DEF JobRun, RunCovers
    <3> QED
      BY <2>2, <3>1 DEF AnnouncedPick
  <2>5. LockedAreMembers'
    BY <2>3 DEF JobInv, LockedAreMembers, LockedOnRecord, RowsOf
  <2>6. LockedAreAnnounced'
    <3> SUFFICES ASSUME NEW g \in Groups, NEW u \in Users, NEW n \in Matches,
                        LockedOnRecord(g, u, n), refs'[n].status = "LOCKED"
                 PROVE  AnnouncedPick(g, u, n, announced)
      BY <2>3 DEF LockedAreAnnounced, LockedOnRecord, RowsOf, AnnouncedPick
    <3> QED
      BY <2>3, <2>4 DEF JobInv, LockedAreAnnounced
  <2>7. JobRun(run[Job])'
    BY <2>3, IdleRecords DEF JobRun
  <2> QED
    BY <2>5, <2>6, <2>7 DEF JobInv
<1>16. CASE Restart
  <2>1. run'[Job] = NoRun
    BY <1>16, <1>a DEF Restart
  <2> QED
    BY <1>1, <1>16, <2>1, UnchangedLocks DEF Restart, MarksNothing
<1> QED
  BY <1>a, <1>2, <1>3, <1>4, <1>5, <1>6, <1>7, <1>8, <1>10, <1>11, <1>12, <1>13, <1>14, <1>15,
     <1>16
  DEF Next, JobStep, RequestStep, LockStep

\* lock_match's two commits and _lock_job: as long as nobody forces a lock, a match
\* is LOCKED, and never locked again, only when its LOCKED picks are announced; a
\* run that fails between its commits leaves the match to the next.
THEOREM LockedMatchesAreAnnounced ==
    ASSUME Admins = {}
    PROVE  Spec => []LockedIsAnnounced
<1>1. TypeOK /\ JobInv /\ [Next]_vars => JobInv'
  BY NextJobInv
<1>2. TypeOK /\ JobInv => LockedIsAnnounced
  <2> SUFFICES ASSUME TypeOK, JobInv, NEW row \in picks, row.status = "LOCKED",
                      refs[row.match].status = "LOCKED"
               PROVE  \E event \in announced :
                        /\ event.match = row.match /\ event.group = row.group
                        /\ \E line \in event.picks : line.user = row.user
    BY DEF LockedIsAnnounced
  <2>1. /\ row.group \in Groups /\ row.user \in Users /\ row.match \in Matches
        /\ LockedOnRecord(row.group, row.user, row.match)
    BY DEF TypeOK, PickRow, LockedOnRecord, RowsOf
  <2> QED
    BY <2>1 DEF JobInv, LockedAreAnnounced, AnnouncedPick
<1> QED
  BY <1>1, <1>2, InitJobInv, TypeCorrect, PTL DEF Spec

-----------------------------------------------------------------------------
(***************************************************************************)
(* What a PickLocked event looks like: someone is in it, and nobody twice. *)
(* Fixture upserts by match and user, so a second line for a member would  *)
(* overwrite the first.  The loops of lock_match see to it: it asks each   *)
(* group for its members once, and each member for a pick once.            *)
(***************************************************************************)
EachOnce(event) ==
    event.picks # {} /\ \A p, q \in event.picks : p.user = q.user => p = q

\* A line's group has been asked, and its member has been reached.
RunOnce(r) ==
    /\ r.step = "picks" =>
          /\ \A t \in r.todo : t[1] \notin r.groups
          /\ \A line \in r.lines :
                line.group \notin r.groups /\ <<line.group, line.user>> \notin r.todo
          /\ \A x, y \in r.lines : x.group = y.group /\ x.user = y.user => x = y
    /\ r.step = "publish" => \A event \in r.events : EachOnce(event)

EventsInv ==
    (\A w \in Lockers : RunOnce(run[w])) /\ \A event \in announced : EachOnce(event)

\* One event for each group, one entry for each of its lines.
LEMMA EventsOnce ==
    ASSUME NEW m, NEW lines, NEW event \in Events(m, lines),
           \A x, y \in lines : x.group = y.group /\ x.user = y.user => x = y
    PROVE  EachOnce(event)
<1>1. PICK g \in {x.group : x \in lines} :
          event = [match |-> m, group |-> g,
                   picks |-> {[user |-> line.user, predicted |-> line.predicted] :
                                 line \in {x \in lines : x.group = g}}]
  BY DEF Events
<1>2. event.picks = {[user |-> line.user, predicted |-> line.predicted] :
                        line \in {x \in lines : x.group = g}}
  BY <1>1
<1>3. event.picks # {}
  <2>1. PICK x \in lines : x.group = g
    OBVIOUS
  <2>2. [user |-> x.user, predicted |-> x.predicted] \in event.picks
    BY <1>2, <2>1
  <2> QED
    BY <2>2
<1>4. ASSUME NEW p \in event.picks, NEW q \in event.picks, p.user = q.user
      PROVE  p = q
  <2>1. PICK x \in lines : x.group = g /\ p = [user |-> x.user, predicted |-> x.predicted]
    BY <1>2
  <2>2. PICK y \in lines : y.group = g /\ q = [user |-> y.user, predicted |-> y.predicted]
    BY <1>2
  <2>3. x = y
    BY <1>4, <2>1, <2>2
  <2> QED
    BY <2>1, <2>2, <2>3
<1> QED
  BY <1>3, <1>4 DEF EachOnce

\* A step that replaces one run, and announces what was to be announced.
LEMMA UpdatedRunOnce ==
    ASSUME TypeOK, EventsInv, NEW w \in Lockers, NEW r, RunOnce(r),
           run' = [run EXCEPT ![w] = r],
           announced' \subseteq announced \cup Unpublished(w)
    PROVE  EventsInv'
<1>1. \A v \in Lockers : run'[v] = run[v] \/ run'[v] = r
  BY DEF TypeOK
<1>2. \A v \in Lockers : RunOnce(run[v])'
  BY <1>1 DEF EventsInv, RunOnce, EachOnce
<1>3. \A event \in announced' : EachOnce(event)
  BY DEF EventsInv, RunOnce, Unpublished
<1> QED
  BY <1>2, <1>3 DEF EventsInv, EachOnce

LEMMA NextEventsInv == TypeOK /\ EventsInv /\ [Next]_vars => EventsInv'
<1> SUFFICES ASSUME TypeOK, EventsInv, [Next]_vars PROVE EventsInv'
  OBVIOUS
<1>0. RunOnce(NoRun)
  BY IdleRecords DEF RunOnce
<1>1. ASSUME UNCHANGED <<run, announced>>
      PROVE  EventsInv'
  BY <1>1 DEF EventsInv, RunOnce, EachOnce
<1>2. ASSUME NEW w \in Lockers, Abort(w), announced' \subseteq announced \cup Unpublished(w)
      PROVE  EventsInv'
  BY <1>0, <1>2, UpdatedRunOnce DEF Abort
<1>3. CASE \/ UNCHANGED vars \/ Tick \/ QueryDue
           \/ \E g \in Groups, u \in Users : CreateGroup(g, u) \/ JoinGroup(g, u)
           \/ \E lockAt \in [Matches -> LockTimes] : SyncMatchRef(lockAt)
           \/ \E r \in Requests, u \in Users, g \in Groups, m \in Matches, p \in Outcomes :
                 SubmitPick(r, u, g, m, p)
           \/ \E r \in Requests : RequestStep(r)
  BY <1>1, <1>3 DEF vars, Tick, QueryDue, CreateGroup, JoinGroup, SyncMatchRef, SubmitPick,
     RequestStep, CheckWindow, ReadPick, CommitPick
<1>4. ASSUME NEW w \in Lockers, NEW m \in Matches, LockMatch(w, m)
      PROVE  EventsInv'
  <2>1. RunOnce([step |-> "groups", match |-> m])
    BY DEF RunOnce
  <2> QED
    BY <1>1, <1>4, <2>1, UpdatedRunOnce DEF LockMatch
<1>5. ASSUME NEW w \in Lockers, ReadGroups(w)
      PROVE  EventsInv'
  <2>1. PICK r : r = [step |-> "picks", match |-> run[w].match,
                      groups |-> {g \in Groups : MembersOf(g) # {}}, todo |-> {}, lines |-> {}]
    OBVIOUS
  <2>2. RunOnce(r)
    BY <2>1 DEF RunOnce
  <2> QED
    BY <1>5, <2>1, <2>2, UpdatedRunOnce DEF ReadGroups
<1>6. ASSUME NEW w \in Lockers, NEW g \in Groups, ReadMembers(w, g)
      PROVE  EventsInv'
  <2>1. PICK r : r = [run[w] EXCEPT !.groups = @ \ {g}, !.todo = {g} \X MembersOf(g)]
    OBVIOUS
  <2>2. /\ r.step = "picks" /\ r.lines = run[w].lines
        /\ r.groups = run[w].groups \ {g} /\ r.todo = {g} \X MembersOf(g)
    BY <1>6, <2>1, RunSteps DEF ReadMembers, TypeOK
  <2>3. RunOnce(run[w]) /\ run[w].step = "picks" /\ g \in run[w].groups
    BY <1>6 DEF ReadMembers, EventsInv
  <2>4. RunOnce(r)
    BY <2>2, <2>3 DEF RunOnce
  <2> QED
    BY <1>6, <2>1, <2>4, UpdatedRunOnce DEF ReadMembers
<1>7. ASSUME NEW w \in Lockers, NEW g \in Groups, NEW u \in Users, ReadMemberPick(w, g, u)
      PROVE  EventsInv'
  <2>1. PICK new : new = PayloadOf(g, u, run[w].match)
    OBVIOUS
  <2>2. new.group = g /\ new.user = u
    BY <2>1 DEF PayloadOf
  <2>3. PICK r : r = [run[w] EXCEPT !.todo = @ \ {<<g, u>>}, !.lines = @ \cup {new}]
    OBVIOUS
  <2>4. /\ r.step = "picks" /\ r.lines = run[w].lines \cup {new}
        /\ r.groups = run[w].groups /\ r.todo = run[w].todo \ {<<g, u>>}
    BY <1>7, <2>3, RunSteps DEF ReadMemberPick, TypeOK
  <2>5. RunOnce(run[w]) /\ run[w].step = "picks" /\ <<g, u>> \in run[w].todo
    BY <1>7 DEF ReadMemberPick, EventsInv
  <2>6. g \notin run[w].groups
    BY <2>5 DEF RunOnce
  <2>7. \A line \in run[w].lines : ~(line.group = g /\ line.user = u)
    BY <2>5 DEF RunOnce
  <2>8. RunOnce(r)
    BY <2>2, <2>4, <2>5, <2>6, <2>7 DEF RunOnce
  <2> QED
    BY <1>7, <2>1, <2>3, <2>8, UpdatedRunOnce DEF ReadMemberPick
<1>8. ASSUME NEW w \in Lockers, CommitLocks(w)
      PROVE  EventsInv'
  <2>1. PICK r : r = [step |-> "publish", match |-> run[w].match,
                      events |-> Events(run[w].match, run[w].lines)]
    OBVIOUS
  <2>2. \A x, y \in run[w].lines : x.group = y.group /\ x.user = y.user => x = y
    BY <1>8 DEF CommitLocks, PersistLocks, EventsInv, RunOnce
  <2>3. RunOnce(r)
    BY <2>1, <2>2, EventsOnce DEF RunOnce
  <2> QED
    BY <1>8, <2>1, <2>3, UpdatedRunOnce DEF CommitLocks
<1>9. ASSUME NEW w \in Lockers,
             \/ LockConflicts(w) \/ LockFails(w) \/ CommitAnswerLost(w)
             \/ \E event \in Unpublished(w) : ConfirmLost(w, event)
      PROVE  EventsInv'
  BY <1>2, <1>9 DEF LockConflicts, LockFails, CommitAnswerLost, ConfirmLost
<1>10. ASSUME NEW w \in Lockers, NEW event \in Unpublished(w), PublishNext(w, event)
       PROVE  EventsInv'
  <2>1. PICK r : r = [run[w] EXCEPT !.events = @ \ {event}]
    OBVIOUS
  <2>2. r.step = "publish" /\ r.events \subseteq run[w].events /\ run[w].step = "publish"
    BY <1>10, <2>1, RunSteps DEF Unpublished, TypeOK
  <2>3. RunOnce(r)
    BY <2>2 DEF EventsInv, RunOnce
  <2> QED
    BY <1>10, <2>1, <2>3, UpdatedRunOnce DEF PublishNext
<1>11. ASSUME NEW w \in Lockers, MarkLocked(w)
       PROVE  EventsInv'
  BY <1>0, <1>11, UpdatedRunOnce DEF MarkLocked
<1>12. CASE Restart
  BY <1>0, <1>12 DEF Restart, EventsInv, RunOnce, EachOnce
<1> QED
  BY <1>3, <1>4, <1>5, <1>6, <1>7, <1>8, <1>9, <1>10, <1>11, <1>12
  DEF Next, JobStep, LockStep, Lockers

\* Each event, announced or still to be, names somebody and nobody twice.
THEOREM EventsNameEachOnce ==
    Spec => [](\A w \in Lockers : \A event \in announced \cup Unpublished(w) : EachOnce(event))
<1>1. Init => EventsInv
  BY IdleRecords DEF Init, EventsInv, RunOnce
<1>2. EventsInv => \A w \in Lockers : \A event \in announced \cup Unpublished(w) : EachOnce(event)
  BY DEF EventsInv, RunOnce, Unpublished
<1> QED
  BY <1>1, <1>2, NextEventsInv, TypeCorrect, PTL DEF Spec

=============================================================================
