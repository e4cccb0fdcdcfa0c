------------------------- MODULE StreamingInference -------------------------
(***************************************************************************)
(* dvsa_databricks_connector: continuous inference over files that keep    *)
(* arriving.  Spark plans a micro-batch of new rows, writes the plan to    *)
(* the checkpoint and hands the batch to _process_micro_batch, which asks  *)
(* the model about one row after another - with retries in remote mode -   *)
(* and appends all the answers to a Delta table in one transaction; then   *)
(* Spark commits the batch.  The query may die at any point and is started *)
(* again from the checkpoint.                                              *)
(***************************************************************************)
EXTENDS Naturals, Sequences, FiniteSets, SequencesExt

CONSTANTS
    SiRows,      \* rows that may land in the input path
    SiTrigger,   \* rows one micro-batch takes at most
    SiBatchSize, \* batch_size: rows per inference batch
    SiAttempts,  \* max_retries + 1
    SiCrashes    \* how often the query dies

ASSUME SiAssumption ==
    /\ SiTrigger \in Nat \ {0} /\ SiBatchSize \in Nat \ {0} /\ SiAttempts \in Nat \ {0}
    /\ SiCrashes \in Nat

VARIABLES
    siConfig,  \* the DVSAConfig: its mode, and whether endpoint and key are set
    siState,   \* what the query does: "down", "waiting", "inferring", "writing", "written"
    siLanded,  \* rows present in the input path
    siPlanned, \* the checkpoint's offset log: the rows of each planned batch
    siCommits, \* the checkpoint's commit log: how many batches are committed
    siTodo,    \* rows of the running batch still to be asked about
    siTries,   \* posts made for the first of them
    siResults, \* answers collected so far by the running batch
    siSink,    \* the result table
    siFailures \* how often the query died

siVars == <<siConfig, siState, siLanded, siPlanned, siCommits, siTodo, siTries,
            siResults, siSink, siFailures>>

SiModes == {"remote", "in_cluster"}
Configs == [mode : SiModes, endpoint : BOOLEAN, key : BOOLEAN]

\* DVSAConfig.validate: remote mode needs an endpoint and a key.
Usable(config) == config.mode = "remote" => config.endpoint /\ config.key

SiInit ==
    /\ siConfig \in Configs
    /\ siState = "down"
    /\ siLanded = {} /\ siPlanned = <<>> /\ siCommits = 0
    /\ siTodo = <<>> /\ siTries = 0 /\ siResults = <<>>
    /\ siSink = <<>> /\ siFailures = 0

SiPlannedRows == UNION {Range(siPlanned[b]) : b \in DOMAIN siPlanned}

\* A file lands in the input path.
Land ==
    /\ \E row \in SiRows \ siLanded : siLanded' = siLanded \cup {row}
    /\ UNCHANGED <<siConfig, siState, siPlanned, siCommits, siTodo, siTries,
                   siResults, siSink, siFailures>>

ChunkCount(rows) == (Len(rows) + SiBatchSize - 1) \div SiBatchSize

\* iter_batches: the rows in lists of at most batch_size.
Chunks(rows) ==
    [n \in 1..ChunkCount(rows) |->
        SubSeq(rows, (n - 1) * SiBatchSize + 1, Min({n * SiBatchSize, Len(rows)}))]

\* _process_micro_batch collects the rows of the batch and goes through them
\* list by list.
Collect(rows) ==
    /\ siState' = "inferring"
    /\ siTodo' = FlattenSeq(Chunks(rows))
    /\ siTries' = 0 /\ siResults' = <<>>

\* stream_inference builds the client - a configuration that cannot be used
\* raises - and starts the query, which first runs again the batch that was
\* planned and not committed.
StartQuery ==
    /\ siState = "down" /\ Usable(siConfig)
    /\ IF Len(siPlanned) > siCommits
       THEN Collect(Last(siPlanned))
       ELSE siState' = "waiting" /\ UNCHANGED <<siTodo, siTries, siResults>>
    /\ UNCHANGED <<siConfig, siLanded, siPlanned, siCommits, siSink, siFailures>>

\* The next micro-batch: new rows, at most maxFilesPerTrigger of them.
PlanBatch ==
    /\ siState = "waiting"
    /\ \E rows \in SUBSET (siLanded \ SiPlannedRows) :
          /\ rows # {} /\ Cardinality(rows) <= SiTrigger
          /\ siPlanned' = Append(siPlanned, SetToSeq(rows))
          /\ Collect(SetToSeq(rows))
    /\ UNCHANGED <<siConfig, siLanded, siCommits, siSink, siFailures>>

\* result_to_row: the line of a row, with a result or with an error.
ResultRow(row, error) == [row |-> row, error |-> error]

\* Variant of Settle: a row that failed leaves no line.
SettleDrops(error) ==
    /\ siResults' = IF error THEN siResults
                    ELSE Append(siResults, ResultRow(Head(siTodo), FALSE))
    /\ siTodo' = Tail(siTodo) /\ siTries' = 0
    /\ siState' = IF Len(siTodo) = 1 THEN "writing" ELSE "inferring"

\* run_inference_on_rows keeps the line of the row, failed or not, and goes on.
Settle(error) ==
    /\ siResults' = Append(siResults, ResultRow(Head(siTodo), error))
    /\ siTodo' = Tail(siTodo) /\ siTries' = 0
    /\ siState' = IF Len(siTodo) = 1 THEN "writing" ELSE "inferring"

\* infer_one: a remote client posts again after 429, 5xx, a timeout or a lost
\* connection until its attempts are used up; any other failure, and every
\* failure of an in-cluster callable, is final.
InferRow(reply) ==
    /\ siState = "inferring"
    /\ IF siConfig.mode = "remote" /\ reply = "busy" /\ siTries + 1 < SiAttempts
       THEN siTries' = siTries + 1 /\ UNCHANGED <<siState, siTodo, siResults>>
       ELSE Settle(reply # "ok")
    /\ UNCHANGED <<siConfig, siLanded, siPlanned, siCommits, siSink, siFailures>>

\* The answers are appended to the Delta table in one transaction.
WriteResults ==
    /\ siState = "writing"
    /\ siSink' = siSink \o siResults /\ siState' = "written"
    /\ UNCHANGED <<siConfig, siLanded, siPlanned, siCommits, siTodo, siTries,
                   siResults, siFailures>>

\* foreachBatch returned: Spark commits the batch.
CommitBatch ==
    /\ siState = "written"
    /\ siCommits' = siCommits + 1 /\ siState' = "waiting"
    /\ UNCHANGED <<siConfig, siLanded, siPlanned, siTodo, siTries, siResults,
                   siSink, siFailures>>

\* The query dies, of a failed write or with its cluster; what it held in
\* memory is gone.
QueryDies ==
    /\ siState # "down" /\ siFailures < SiCrashes
    /\ siState' = "down" /\ siFailures' = siFailures + 1
    /\ siTodo' = <<>> /\ siTries' = 0 /\ siResults' = <<>>
    /\ UNCHANGED <<siConfig, siLanded, siPlanned, siCommits, siSink>>

QuerySteps ==
    \/ StartQuery \/ PlanBatch \/ WriteResults \/ CommitBatch
    \/ \E reply \in {"ok", "busy", "refused"} : InferRow(reply)

SiNext == QuerySteps \/ Land \/ QueryDies
SiSpec == SiInit /\ [][SiNext]_siVars /\ WF_siVars(QuerySteps)
-----------------------------------------------------------------------------
SiTypeOK ==
    /\ siConfig \in Configs
    /\ siState \in {"down", "waiting", "inferring", "writing", "written"}
    /\ siLanded \subseteq SiRows /\ SiPlannedRows \subseteq siLanded
    /\ siCommits \in 0..Len(siPlanned) /\ Len(siPlanned) <= siCommits + 1
    /\ siTries \in 0..SiAttempts /\ siFailures \in 0..SiCrashes

Copies(row) == Cardinality({n \in DOMAIN siSink : siSink[n].row = row})

\* Every row of a committed batch has a line in the result table: no failure
\* of one row, retry or restart loses an answer.
CommittedIsAnswered ==
    \A b \in 1..siCommits : \A row \in Range(siPlanned[b]) : Copies(row) > 0

\* Only a crash duplicates lines: a row has at most one line for the committed
\* run of its batch and one for every death of the query.
CopiesBounded == \A row \in SiRows : Copies(row) <= 1 + siFailures

\* Every row that lands is answered in the end, with a result or an error,
\* whatever the service replies and wherever the query dies.
LandedIsAnswered ==
    \A row \in SiRows :
        (row \in siLanded /\ Usable(siConfig)) ~> (Copies(row) > 0)

\* Between the append and the commit the query may die any number of times:
\* lines are never lost for it, and doubled at most once a death.
SinkLines == CommittedIsAnswered /\ CopiesBounded
=============================================================================
