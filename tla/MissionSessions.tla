-------------------------- MODULE MissionSessions --------------------------
(***************************************************************************)
(* Missions over HTTP: MCPSessionManager and the views that call it.  Each *)
(* request runs on a thread of its own.  A session is named by the create  *)
(* request that built it; the store maps a mission id to the last session  *)
(* stored under it.  The id is the template's when it has one (FixedIds),  *)
(* and fresh otherwise (the request's own name).  The executor is reduced  *)
(* to a mission of one task: its loop, the task, the final status, and the *)
(* exceptions that leave it: a context that is no mapping, a backoff that  *)
(* is negative.  The request is then answered 500.                         *)
(***************************************************************************)

CONSTANTS Creators,   \* POST /missions requests
          Commanders, \* POST /missions/<id>/commands requests
          FixedIds    \* ids written in templates

ASSUME MsAssumption ==
    Creators \cap Commanders = {} /\ "none" \notin Creators

VARIABLES
    msStore,  \* mission id -> the session found under it
    msId,     \* session -> its mission id
    msStatus, \* session -> status, as the API shows it
    msTask,   \* session -> state of its mission's only task
    msCancel, \* session -> its cancel event
    msSaved,  \* session -> the status the persist hook last saw
    msPc,     \* request -> where it is
    msObj,    \* request -> the session it works on
    msSum,    \* request -> the status of the summary its run returned
    msRuns,   \* session -> the requests that ran it
    msWanted  \* the create requests that asked for a run

msVars == <<msStore, msId, msStatus, msTask, msCancel, msSaved, msPc, msObj, msSum, msRuns, msWanted>>

None == "none"
Ids == FixedIds \cup Creators
Requests == Creators \cup Commanders
Final == {"completed", "failed", "cancelled"}

\* What an agent may answer its task became; the executor stores any of it.
TaskAnswers == {"completed", "failed", "delegated", "in_progress", "pending", "running"}
SettledTasks == {"completed", "failed", "delegated"}

MsTypeOK ==
    /\ msStore \in [Ids -> Creators \cup {None}]
    /\ msId \in [Creators -> Ids \cup {None}]
    /\ msStatus \in [Creators -> {None, "created", "running"} \cup Final]
    /\ msTask \in [Creators -> TaskAnswers]
    /\ msCancel \in [Creators -> BOOLEAN]
    /\ msSaved \in [Creators -> {None, "unsaved", "created", "running"} \cup Final]
    /\ msObj \in [Requests -> Creators \cup {None}]
    /\ msSum \in [Creators -> Final \cup {None}]
    /\ msRuns \in [Creators -> SUBSET Creators]
    /\ msWanted \subseteq Creators

MsInit ==
    /\ msStore = [i \in Ids |-> None]
    /\ msId = [c \in Creators |-> None]
    /\ msStatus = [c \in Creators |-> None]
    /\ msTask = [c \in Creators |-> "pending"]
    /\ msCancel = [c \in Creators |-> FALSE]
    /\ msSaved = [c \in Creators |-> None]
    /\ msPc = [r \in Requests |-> "new"]
    /\ msObj = [r \in Requests |-> None]
    /\ msSum = [c \in Creators |-> None]
    /\ msRuns = [c \in Creators |-> {}]
    /\ msWanted = {}

Go(r, from, to) == msPc[r] = from /\ msPc' = [msPc EXCEPT ![r] = to]

\* The hook is given the session itself; when it raises nobody hears of it.
Persist(o) ==
    \E s \in {msStatus[o], "unsaved"} : msSaved' = [msSaved EXCEPT ![o] = s]

(***************************************************************************)
(* POST /missions                                                          *)
(***************************************************************************)
\* Disabled, rate limited, no template, or a template that cannot be planned.
RefuseCreate(c) ==
    /\ Go(c, "new", "refused")
    /\ UNCHANGED <<msStore, msId, msStatus, msTask, msCancel, msSaved, msObj, msSum, msRuns, msWanted>>

Create(c) ==
    /\ Go(c, "new", "stored")
    /\ \E run \in BOOLEAN : msWanted' = IF run THEN msWanted \cup {c} ELSE msWanted
    /\ \E i \in FixedIds \cup {c} :
        /\ msId' = [msId EXCEPT ![c] = i]
        /\ msStore' = [msStore EXCEPT ![i] = c]
    /\ msStatus' = [msStatus EXCEPT ![c] = "created"]
    /\ UNCHANGED <<msTask, msCancel, msSaved, msObj, msSum, msRuns>>

SaveCreated(c) ==
    /\ Go(c, "stored", IF c \in msWanted THEN "lookup" ELSE "answer")
    /\ Persist(c)
    /\ UNCHANGED <<msStore, msId, msStatus, msTask, msCancel, msObj, msSum, msRuns, msWanted>>

\* Only a test's reset removes sessions, so the id is always known; it need
\* not be this request's session that is found under it.
GetMission(c) ==
    /\ Go(c, "lookup", "found")
    /\ msObj' = [msObj EXCEPT ![c] = msStore[msId[c]]]
    /\ UNCHANGED <<msStore, msId, msStatus, msTask, msCancel, msSaved, msSum, msRuns, msWanted>>

\* run_mission marks the session it found running, whatever its status was.
StartRun(c) ==
    /\ Go(c, "found", "running")
    /\ msStatus' = [msStatus EXCEPT ![msObj[c]] = "running"]
    /\ msRuns' = [msRuns EXCEPT ![msObj[c]] = @ \cup {c}]
    /\ UNCHANGED <<msStore, msId, msTask, msCancel, msSaved, msObj, msSum, msWanted>>

\* With the session saved the executor begins: it copies the context first.
SaveRunning(c) ==
    /\ \E next \in {"loop", "raised"} : Go(c, "running", next)
    /\ Persist(msObj[c])
    /\ UNCHANGED <<msStore, msId, msStatus, msTask, msCancel, msObj, msSum, msRuns, msWanted>>

\* One turn of the executor's loop.  When time is up, or nothing is ready (a
\* task in progress, or running: for another run, or by its own agent's
\* answer), a task that waits or runs is failed.
Loop(c) ==
    LET o == msObj[c] IN
    /\ msPc[c] = "loop"
    /\ \/ /\ msTask[o] \in SettledTasks \/ msCancel[o]
          /\ Go(c, "loop", "finish")
          /\ UNCHANGED msTask
       \/ /\ msTask[o] = "pending" /\ ~msCancel[o]
          /\ Go(c, "loop", "task")
          /\ msTask' = [msTask EXCEPT ![o] = "running"]
       \/ /\ msTask[o] \notin SettledTasks /\ ~msCancel[o]
          /\ Go(c, "loop", "finish")
          /\ msTask' = [msTask EXCEPT ![o] = IF @ = "in_progress" THEN @ ELSE "failed"]
    /\ UNCHANGED <<msStore, msId, msStatus, msCancel, msSaved, msObj, msSum, msRuns, msWanted>>

\* An attempt that failed and is not the last raises if the backoff is negative.
RunTask(c) ==
    LET o == msObj[c] IN
    /\ \/ /\ Go(c, "task", "loop")
          /\ \E s \in TaskAnswers : msTask' = [msTask EXCEPT ![o] = s]
       \/ Go(c, "task", "raised") /\ UNCHANGED msTask
    /\ UNCHANGED <<msStore, msId, msStatus, msCancel, msSaved, msObj, msSum, msRuns, msWanted>>

SummaryStatus(o) ==
    IF msCancel[o] THEN "cancelled"
    ELSE IF msTask[o] = "failed" THEN "failed" ELSE "completed"

Summarise(c) ==
    /\ Go(c, "finish", "write")
    /\ msSum' = [msSum EXCEPT ![c] = SummaryStatus(msObj[c])]
    /\ UNCHANGED <<msStore, msId, msStatus, msTask, msCancel, msSaved, msObj, msRuns, msWanted>>

\* Variant of WriteStatus: a session cancelled meanwhile keeps its status, and
\* the summary is dropped with the rest.
WriteStatusUnlessCancelled(c) ==
    /\ Go(c, "write", IF msCancel[msObj[c]] THEN "answer" ELSE "written")
    /\ msStatus' = [msStatus EXCEPT ![msObj[c]] = IF msCancel[msObj[c]] THEN @ ELSE msSum[c]]
    /\ UNCHANGED <<msStore, msId, msTask, msCancel, msSaved, msObj, msSum, msRuns, msWanted>>

WriteStatus(c) ==
    /\ Go(c, "write", "written")
    /\ msStatus' = [msStatus EXCEPT ![msObj[c]] = msSum[c]]
    /\ UNCHANGED <<msStore, msId, msTask, msCancel, msSaved, msObj, msSum, msRuns, msWanted>>

SaveFinal(c) ==
    /\ Go(c, "written", "answer")
    /\ Persist(msObj[c])
    /\ UNCHANGED <<msStore, msId, msStatus, msTask, msCancel, msObj, msSum, msRuns, msWanted>>

\* The answer shows the session the request built.
Answer(c) ==
    /\ Go(c, "answer", "done")
    /\ msObj' = [msObj EXCEPT ![c] = c]
    /\ UNCHANGED <<msStore, msId, msStatus, msTask, msCancel, msSaved, msSum, msRuns, msWanted>>

(***************************************************************************)
(* POST /missions/<id>/commands                                            *)
(***************************************************************************)
\* pause, resume and escalate change nothing a run looks at.
SendCommand(k) ==
    /\ \E next \in {"event", "save", "refused"} : Go(k, "new", next)
    /\ \E i \in {j \in Ids : msStore[j] # None} :
        msObj' = [msObj EXCEPT ![k] = msStore[i]]
    /\ UNCHANGED <<msStore, msId, msStatus, msTask, msCancel, msSaved, msSum, msRuns, msWanted>>

SetCancel(k) ==
    /\ Go(k, "event", "check")
    /\ msCancel' = [msCancel EXCEPT ![msObj[k]] = TRUE]
    /\ UNCHANGED <<msStore, msId, msStatus, msTask, msSaved, msObj, msSum, msRuns, msWanted>>

CheckStatus(k) ==
    /\ Go(k, "check", IF msStatus[msObj[k]] \in {"created", "running"} THEN "cancel" ELSE "save")
    /\ UNCHANGED <<msStore, msId, msStatus, msTask, msCancel, msSaved, msObj, msSum, msRuns, msWanted>>

WriteCancelled(k) ==
    /\ Go(k, "cancel", "save")
    /\ msStatus' = [msStatus EXCEPT ![msObj[k]] = "cancelled"]
    /\ UNCHANGED <<msStore, msId, msTask, msCancel, msSaved, msObj, msSum, msRuns, msWanted>>

SaveCommand(k) ==
    /\ Go(k, "save", "done")
    /\ Persist(msObj[k])
    /\ UNCHANGED <<msStore, msId, msStatus, msTask, msCancel, msObj, msSum, msRuns, msWanted>>

MsNext ==
    \/ \E c \in Creators :
        \/ RefuseCreate(c) \/ Create(c) \/ SaveCreated(c) \/ GetMission(c)
        \/ StartRun(c) \/ SaveRunning(c) \/ Loop(c) \/ RunTask(c)
        \/ Summarise(c) \/ WriteStatus(c) \/ SaveFinal(c) \/ Answer(c)
    \/ \E k \in Commanders :
        \/ SendCommand(k) \/ SetCancel(k) \/ CheckStatus(k)
        \/ WriteCancelled(k) \/ SaveCommand(k)

MsSpec == MsInit /\ [][MsNext]_msVars

(***************************************************************************)
(* Properties                                                              *)
(***************************************************************************)
Quiet == \A r \in Requests : msPc[r] \in {"new", "refused", "raised", "done"}

\* create_mission looks its session up again before it runs it, and may run
\* another's.  Its own is then out of reach: the session a client finds under
\* an id, once the creator that asked for a run has its answer, was run.
ReachableWasRun ==
    \A c \in Creators :
        msPc[c] = "done" /\ c \in msWanted /\ msStore[msId[c]] = c => msRuns[c] # {}

\* What a status s of session o says of its task: failed if that is, completed
\* if it did not fail, be it delegated or still in progress.
Tells(s, o) ==
    \/ s = "cancelled" /\ msCancel[o]
    \/ s = "failed" /\ msTask[o] = "failed"
    \/ s = "completed" /\ msTask[o] \in {"completed", "delegated", "in_progress"}

\* When no request is under way, a session that one request ran shows what
\* became of its task, or that it was cancelled.  A session is left running, its
\* task as it was, only by a run that raised, and then for good unless somebody
\* cancels it.  The cancel command and the run write the status without a lock.
SettledStatus ==
    Quiet => \A o \in Creators :
        /\ msStatus[o] = "running" => \E c \in msRuns[o] : msPc[c] = "raised"
        /\ \A c \in Creators : msRuns[o] = {c} =>
            \/ msPc[c] = "done" /\ Tells(msStatus[o], o)
            \/ /\ msPc[c] = "raised" /\ msTask[o] \in {"pending", "running"}
               /\ \/ msStatus[o] = "running"
                  \/ msStatus[o] = "cancelled" /\ msCancel[o]

\* Every write of a status is followed by a call of the hook: what it saw last
\* is what the session shows, whatever the order of run and commands.
SavedIsCurrent ==
    Quiet => \A o \in Creators : msSaved[o] \in {msStatus[o], "unsaved"}

\* What requests racing over one mission id leave behind adds up: sessions,
\* statuses and saved copies agree.
SessionsAddUp == ReachableWasRun /\ SettledStatus /\ SavedIsCurrent
=============================================================================
