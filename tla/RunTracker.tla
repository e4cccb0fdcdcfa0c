----------------------------- MODULE RunTracker -----------------------------
(***************************************************************************)
(* Runs started by webhooks and Slack commands: a delivery is verified,    *)
(* parsed and run in its handler, which records what becomes of the run.   *)
(* A run's id is in the payload or made of its content, so a delivery that *)
(* is sent twice, or another for the same video, shares the record.        *)
(***************************************************************************)
EXTENDS Naturals, Sequences, FiniteSets, SequencesExt

CONSTANTS TkDeliveries, \* deliveries: webhook calls and slash commands
          TkHooks,      \* those that come to the webhook server, one at a time
          TkRuns        \* run ids

VARIABLES
    tkPc,     \* delivery -> new | verified | accepted | running | done | refused
    tkRun,    \* delivery -> the run it asks for
    tkEntry,  \* run -> its record in the tracker
    tkAnswer, \* delivery -> the status in the record it answered with
    tkOwn     \* delivery -> how its own pipeline ended

tkVars == <<tkPc, tkRun, tkEntry, tkAnswer, tkOwn>>

TkStatuses == {"accepted", "running", "completed", "failed"}
TkNone == "none"

TkTypeOK ==
    /\ tkPc \in [TkDeliveries -> {"new", "verified", "accepted", "running", "recorded", "done", "refused"}]
    /\ tkRun \in [TkDeliveries -> TkRuns \cup {TkNone}]
    /\ \A x \in TkRuns : /\ tkEntry[x].status \in TkStatuses \cup {TkNone}
                         /\ tkEntry[x].history \in Seq(TkStatuses)
    /\ tkAnswer \in [TkDeliveries -> TkStatuses \cup {TkNone}]
    /\ tkOwn \in [TkDeliveries -> {TkNone, "completed", "failed"}]

TkInit ==
    /\ tkPc = [d \in TkDeliveries |-> "new"]
    /\ tkRun = [d \in TkDeliveries |-> TkNone]
    /\ tkEntry = [x \in TkRuns |-> [status |-> TkNone, history |-> <<>>]]
    /\ tkAnswer = [d \in TkDeliveries |-> TkNone]
    /\ tkOwn = [d \in TkDeliveries |-> TkNone]

InHandler == {d \in TkDeliveries : tkPc[d] \in {"verified", "accepted", "running", "recorded"}}

\* Bad signature, stale timestamp or a payload that is no run.
Refused(d) ==
    /\ tkPc[d] = "new"
    /\ tkPc' = [tkPc EXCEPT ![d] = "refused"]
    /\ UNCHANGED <<tkRun, tkEntry, tkAnswer, tkOwn>>

Verified(d) ==
    /\ tkPc[d] = "new"
    /\ d \in TkHooks => InHandler \cap TkHooks = {}
    /\ \E x \in TkRuns : tkRun' = [tkRun EXCEPT ![d] = x]
    /\ tkPc' = [tkPc EXCEPT ![d] = "verified"]
    /\ UNCHANGED <<tkEntry, tkAnswer, tkOwn>>

\* record(): under the tracker's lock, creating the entry when it is new.
RecordStatus(x, s) ==
    tkEntry' = [tkEntry EXCEPT ![x] = [status |-> s, history |-> Append(@.history, s)]]

Accept(d) ==
    /\ tkPc[d] = "verified"
    /\ RecordStatus(tkRun[d], "accepted")
    /\ tkPc' = [tkPc EXCEPT ![d] = "accepted"]
    /\ UNCHANGED <<tkRun, tkAnswer, tkOwn>>

Start(d) ==
    /\ tkPc[d] = "accepted"
    /\ RecordStatus(tkRun[d], "running")
    /\ tkPc' = [tkPc EXCEPT ![d] = "running"]
    /\ UNCHANGED <<tkRun, tkAnswer, tkOwn>>

\* Variant of EndRun: only the first end of a run is recorded.
EndRunOnce(d) ==
    /\ tkPc[d] = "running"
    /\ \E s \in {"completed", "failed"} :
        /\ IF \E i \in DOMAIN tkEntry[tkRun[d]].history :
                 tkEntry[tkRun[d]].history[i] \in {"completed", "failed"}
           THEN UNCHANGED tkEntry ELSE RecordStatus(tkRun[d], s)
        /\ tkOwn' = [tkOwn EXCEPT ![d] = s]
    /\ tkAnswer' = [tkAnswer EXCEPT ![d] = tkEntry'[tkRun[d]].status]
    /\ tkPc' = [tkPc EXCEPT ![d] = "recorded"]
    /\ UNCHANGED tkRun

\* The pipeline returns or raises; the answer is the copy that record made.
EndRun(d) ==
    /\ tkPc[d] = "running"
    /\ \E s \in {"completed", "failed"} :
        /\ RecordStatus(tkRun[d], s)
        /\ tkOwn' = [tkOwn EXCEPT ![d] = s]
    /\ tkAnswer' = [tkAnswer EXCEPT ![d] = tkEntry'[tkRun[d]].status]
    /\ tkPc' = [tkPc EXCEPT ![d] = "recorded"]
    /\ UNCHANGED tkRun

\* 202 or 200, with the record.
RespondToTrigger(d) ==
    /\ tkPc[d] = "recorded"
    /\ tkPc' = [tkPc EXCEPT ![d] = "done"]
    /\ UNCHANGED <<tkRun, tkEntry, tkAnswer, tkOwn>>

TkNext ==
    \E d \in TkDeliveries :
        \/ Refused(d) \/ Verified(d) \/ Accept(d) \/ Start(d)
        \/ EndRun(d) \/ RespondToTrigger(d)

TkSpec == TkInit /\ [][TkNext]_tkVars

Sent(x) == {d \in TkDeliveries : tkRun[d] = x /\ tkPc[d] \in {"accepted", "running", "recorded", "done"}}
Count(x, ss) == Cardinality({i \in DOMAIN tkEntry[x].history : tkEntry[x].history[i] \in ss})

\* When nobody works on a run any more its record says how it ended, although
\* duplicates have written accepted and running over each other's ends.
QuietRunSettled ==
    \A x \in TkRuns :
        Sent(x) # {} /\ (\A d \in Sent(x) : tkPc[d] \in {"recorded", "done"}) =>
            tkEntry[x].status \in {"completed", "failed"}

\* A trigger is answered with the end of the run it started itself.
AnswerIsOwn == \A d \in TkDeliveries : tkPc[d] = "done" => tkAnswer[d] = tkOwn[d]

\* The history has every delivery's steps, none twice.
HistoryComplete ==
    \A x \in TkRuns :
        /\ Count(x, {"accepted"}) = Cardinality(Sent(x))
        /\ Count(x, {"completed", "failed"})
             = Cardinality({d \in Sent(x) : tkPc[d] \in {"recorded", "done"}})

\* Duplicated deliveries of one trigger write over each other's record and
\* still leave the truth: an end, a full history, the own answer.
RunsAddUp == QuietRunSettled /\ HistoryComplete /\ AnswerIsOwn
=============================================================================
