---------------------------- MODULE AnalysisRuns ----------------------------
(***************************************************************************)
(* The analyses of one video: RunAnalysisView of apps/analytics/views.py,  *)
(* the Celery task of apps/analytics/tasks.py, and the commentary on a run *)
(* (apps/observability: commentator.py, emit.py, sinks.py, agents.py).     *)
(*                                                                         *)
(* A video has one Analysis row.  Every request to run routines writes the *)
(* row and queues a task, and the tasks of several requests run on several *)
(* workers.  Each of them keeps the row it loaded and writes it back,      *)
(* whole or some columns of it.  The broker may refuse a task, a worker    *)
(* may die (its task is lost: Celery acknowledges a task when it starts),  *)
(* and the database may fail every read and write: the view then answers   *)
(* 500, and a task that cannot load or mark the row, or not even save its  *)
(* failure, ends there.                                                    *)
(***************************************************************************)
EXTENDS Naturals, Sequences, FiniteSets, FiniteSetsExt

CONSTANTS AnRequests, \* requests to analyse the video, each with its task
          AnFrames,   \* bound: frames sampled
          AnBatch     \* commentary rows written at a time

VARIABLES anRow,    \* the Analysis row
          anAt,     \* per request: progress of its view and then of its task
          anCopy,   \* per request: the row as last loaded
          anMade,   \* per request: what its routines found, once they ran
          anStored, \* per request: commentary events in the database
          anRollups \* summaries written by the semantic agent

anVars == <<anRow, anAt, anCopy, anMade, anStored, anRollups>>

NoRun == "none"

ASSUME AnAssumption ==
    AnFrames \in Nat \ {0} /\ AnBatch \in Nat \ {0} /\ NoRun \notin AnRequests

Runs == AnRequests \cup {NoRun}
Rows == [status : {"absent", "pending", "processing", "completed", "failed"},
         error : BOOLEAN, results : Runs, count : 0..AnFrames, trace : Runs]
Blank == [status |-> "pending", error |-> FALSE, results |-> NoRun, count |-> 0, trace |-> NoRun]
NotMade == [count |-> 0, events |-> 0]

AnTypeOK ==
    /\ anRow \in Rows
    /\ anAt \in [AnRequests -> {"new", "fetched", "saved", "refused", "queued", "loaded",
                                "routines", "results", "comment", "trace", "done", "failing",
                                "failed", "raised", "lost"}]
    /\ anCopy \in [AnRequests -> Rows]
    /\ anMade \in [AnRequests -> [count : 0..AnFrames, events : 0..AnFrames + 1]]
    /\ anStored \in [AnRequests -> 0..AnFrames + 1]
    /\ anRollups \subseteq [trace : AnRequests, events : 1..AnFrames + 1]

AnInit ==
    /\ anRow = [Blank EXCEPT !.status = "absent"]
    /\ anAt = [r \in AnRequests |-> "new"]
    /\ anCopy = [r \in AnRequests |-> Blank]
    /\ anMade = [r \in AnRequests |-> NotMade]
    /\ anStored = [r \in AnRequests |-> 0]
    /\ anRollups = {}

StepTo(r, step) == anAt' = [anAt EXCEPT ![r] = step]

(***************************************************************************)
(* The view: get_or_create, a save of the whole row, then delay().  What    *)
(* raises there refuses the request.                                       *)
(***************************************************************************)
GetOrCreate(r) ==
    /\ anAt[r] = "new"
    /\ \/ /\ StepTo(r, "fetched")
          /\ anRow' = IF anRow.status = "absent" THEN Blank ELSE anRow
          /\ anCopy' = [anCopy EXCEPT ![r] = anRow']
       \/ StepTo(r, "refused") /\ UNCHANGED <<anRow, anCopy>>
    /\ UNCHANGED <<anMade, anStored, anRollups>>

SavePending(r) ==
    /\ anAt[r] = "fetched"
    /\ \/ /\ StepTo(r, "saved")
          /\ anRow' = [anCopy[r] EXCEPT !.status = "pending", !.error = FALSE]
       \/ StepTo(r, "refused") /\ UNCHANGED anRow
    /\ UNCHANGED <<anCopy, anMade, anStored, anRollups>>

Delay(r) ==
    /\ anAt[r] = "saved" /\ (StepTo(r, "queued") \/ StepTo(r, "refused"))
    /\ UNCHANGED <<anRow, anCopy, anMade, anStored, anRollups>>

(***************************************************************************)
(* The task.  Before its try statement an error of the database ends it,   *)
(* and in the handler as well.                                             *)
(***************************************************************************)
Load(r) ==
    /\ anAt[r] = "queued"
    /\ \/ StepTo(r, "loaded") /\ anCopy' = [anCopy EXCEPT ![r] = anRow]
       \/ StepTo(r, "raised") /\ UNCHANGED anCopy
    /\ UNCHANGED <<anRow, anMade, anStored, anRollups>>

MarkProcessing(r) ==
    /\ anAt[r] = "loaded"
    /\ \/ /\ StepTo(r, "routines")
          /\ anRow' = [anRow EXCEPT !.status = "processing"]
          /\ anCopy' = [anCopy EXCEPT ![r].status = "processing"]
       \/ StepTo(r, "raised") /\ UNCHANGED <<anRow, anCopy>>
    /\ UNCHANGED <<anMade, anStored, anRollups>>

\* What a routine sees on each sampled frame: 0 or 1 objects, or an error.
Error == 2
Sights == [1..AnFrames -> {0, 1, Error}]
\* A frame_pair routine has no entry for the first frame; a frame's error is
\* an entry without detections; a video routine has a rollup event besides one
\* event per frame with movement.
Entries(level) == IF level = "frame_pair" THEN 2..AnFrames ELSE 1..AnFrames
CountOf(level, sees) == Cardinality({f \in Entries(level) : sees[f] = 1})
EventsOf(level, sees) ==
    IF level = "video" THEN CountOf(level, sees) + 1 ELSE Cardinality(Entries(level))

\* An error of a video routine, or in opening the file, fails the run.
RunRoutines(r) ==
    /\ anAt[r] = "routines"
    /\ \/ StepTo(r, "failing") /\ UNCHANGED anMade
       \/ \E level \in {"frame", "frame_pair", "video"}, sees \in Sights :
              /\ level = "video" => \A f \in 1..AnFrames : sees[f] # Error
              /\ StepTo(r, "results")
              /\ anMade' = [anMade EXCEPT ![r] =
                     [count |-> CountOf(level, sees), events |-> EventsOf(level, sees)]]
    /\ UNCHANGED <<anRow, anCopy, anStored, anRollups>>

\* Variant of SaveResults: some columns only, the error message not among them.
SaveResultsSome(r) ==
    /\ anAt[r] = "results" /\ StepTo(r, "comment")
    /\ anRow' = [anRow EXCEPT !.status = "completed", !.results = r, !.count = anMade[r].count]
    /\ UNCHANGED <<anCopy, anMade, anStored, anRollups>>
\* The whole row, as loaded at the start of the task but for the results.
SaveResults(r) ==
    /\ anAt[r] = "results"
    /\ \/ /\ StepTo(r, "comment")
          /\ anRow' = [anCopy[r] EXCEPT !.status = "completed", !.error = FALSE,
                                        !.results = r, !.count = anMade[r].count]
       \/ StepTo(r, "failing") /\ UNCHANGED anRow
    /\ UNCHANGED <<anCopy, anMade, anStored, anRollups>>

SaveFailure(r) ==
    /\ anAt[r] = "failing"
    /\ \/ /\ StepTo(r, "failed")
          /\ anRow' = [anRow EXCEPT !.status = "failed", !.error = TRUE]
       \/ StepTo(r, "raised") /\ UNCHANGED anRow
    /\ UNCHANGED <<anCopy, anMade, anStored, anRollups>>

\* The commentary: off, or event rows in batches.  A write that fails ends
\* the commentary, not the run.
Comment(r) ==
    /\ anAt[r] = "comment"
    /\ \/ StepTo(r, "done") /\ UNCHANGED anStored
       \/ /\ anStored[r] < anMade[r].events /\ UNCHANGED anAt
          /\ anStored' = [anStored EXCEPT ![r] = Min({@ + AnBatch, anMade[r].events})]
       \/ anStored[r] = anMade[r].events /\ StepTo(r, "trace") /\ UNCHANGED anStored
    /\ UNCHANGED <<anRow, anCopy, anMade, anRollups>>

SaveTrace(r) ==
    /\ anAt[r] = "trace" /\ StepTo(r, "done")
    /\ \/ anRow' = [anRow EXCEPT !.trace = r]
       \/ UNCHANGED anRow
    /\ UNCHANGED <<anCopy, anMade, anStored, anRollups>>

WorkerDies(r) ==
    /\ anAt[r] \in {"loaded", "routines", "results", "failing", "comment", "trace"}
    /\ StepTo(r, "lost")
    /\ UNCHANGED <<anRow, anCopy, anMade, anStored, anRollups>>

\* The semantic agent sums up the events of the trace found on the row.
SummariseTrace ==
    /\ anRow.trace # NoRun /\ anStored[anRow.trace] > 0
    /\ anRollups' = anRollups \cup {[trace |-> anRow.trace, events |-> anStored[anRow.trace]]}
    /\ UNCHANGED <<anRow, anAt, anCopy, anMade, anStored>>

TaskSteps(r) ==
    \/ Load(r) \/ MarkProcessing(r) \/ RunRoutines(r) \/ SaveResults(r) \/ SaveFailure(r)
    \/ Comment(r) \/ SaveTrace(r)

AnNext ==
    \/ \E r \in AnRequests :
           GetOrCreate(r) \/ SavePending(r) \/ Delay(r) \/ TaskSteps(r) \/ WorkerDies(r)
    \/ SummariseTrace

(***************************************************************************)
(* Properties.                                                             *)
(***************************************************************************)

\* However the saves of several views and tasks interleave, the row is never a
\* mixture: a completed row has no error and a failed one has; its count is
\* that of the run its results come from.  When nobody works at it any more it
\* reads processing only if a worker died with its task, or the database failed
\* the task when it had to say where it was; it reads pending only for one of
\* these, or a request that was refused half-way.
AnalysesAddUp ==
    /\ anRow.status = "completed" => ~anRow.error
    /\ anRow.status = "failed" => anRow.error
    /\ anRow.count = IF anRow.results = NoRun THEN 0 ELSE anMade[anRow.results].count
    /\ (\A r \in AnRequests : anAt[r] \in {"new", "refused", "done", "failed"}) =>
           /\ anRow.status # "processing"
           /\ anRow.status = "pending" => \E r \in AnRequests : anAt[r] = "refused"

\* A trace id on the row leads to the whole commentary of its run, so that a
\* summary made from it leaves out no event.
TraceIsWhole ==
    /\ anRow.trace # NoRun => anStored[anRow.trace] = anMade[anRow.trace].events
    /\ \A s \in anRollups : s.events = anMade[s.trace].events

\* A queued task ends, whatever the others do, or its worker died.
RunsSettle ==
    \A r \in AnRequests : anAt[r] = "queued" ~> anAt[r] \in {"done", "failed", "raised", "lost"}
=============================================================================
