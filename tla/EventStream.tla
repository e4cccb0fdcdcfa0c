---------------------------- MODULE EventStream ----------------------------
(***************************************************************************)
(* Commentary events (apps/observability): how the commentary on a run     *)
(* goes through its sinks to the database and to a collector, how a client *)
(* posts an event of its own, how the semantic agent sums events up, and   *)
(* what the aggregate endpoint answers over the rows.                      *)
(*                                                                         *)
(* The runs are analyses of one video, on several workers.  Of an event's  *)
(* metrics only the count of detections is kept.  The database may fail a  *)
(* write; the collector loses what it fails to take.                       *)
(***************************************************************************)
EXTENDS Integers, Sequences, SequencesExt, FiniteSets

CONSTANTS EvRuns,     \* runs, each a trace
          EvSettings, \* COMMENTARY_SINK: sequences of "db" and "otel"
          EvFindings, \* what a run has to say: sequences of [count, model], see Said
          EvBatch,    \* batch_size of DjangoModelSink
          EvLimit,    \* limit of run_semantic_agent
          EvExtra     \* bound: rows of clients and of the semantic agent

ASSUME EvAssumption ==
    /\ EvBatch \in Nat \ {0} /\ EvLimit \in Nat \ {0}
    /\ EvFindings \subseteq Seq([count : Int, model : BOOLEAN])

VARIABLES evSinks,   \* the sinks, in the order of the setting
          evRun,     \* run -> [pc, todo, made, db, otel], see EvTypeOK
          evStore,   \* CommentaryEventRecord rows, in the order they were written
          evSent,    \* signal -> events posted to the collector
          evClock,   \* events made so far; an event's timestamp
          evSummary  \* the last summary, with the number of rows there were then

evVars == <<evSinks, evRun, evStore, evSent, evClock, evSummary>>

NoMetric == -1
Semantic == "agent:semantic"
Signals == {"logs", "metrics", "traces"}
Event(trace, source, count, at) ==
    [trace |-> trace, source |-> source, count |-> count, at |-> at]
NoSummary == [by |-> "", digest |-> [events |-> 0, sum |-> 0], seen |-> 0]
EvIdle == [pc |-> "new", todo |-> <<>>, made |-> 0, db |-> <<>>, otel |-> <<>>]

EvInit ==
    /\ evSinks \in EvSettings
    /\ evRun = [r \in EvRuns |-> EvIdle]
    /\ evStore = <<>> /\ evClock = 0
    /\ evSent = [s \in Signals |-> {}]
    /\ evSummary = NoSummary

(***************************************************************************)
(* A run's commentary                                                      *)
(***************************************************************************)
\* comment_on_result of the template: an entry with an error has no metrics.
Templated(trace, entry, at) == Event(trace, "routine", entry.count, at)
\* The model's words instead, unless it fails or the entry has an error.
Said(trace, entry, at) ==
    IF entry.model /\ entry.count # NoMetric
    THEN [Templated(trace, entry, at) EXCEPT !.source = "agent:vlm"]
    ELSE Templated(trace, entry, at)

\* emit_analysis_commentary: all events are made before the first is emitted.
Comments(r) ==
    /\ evRun[r].pc = "new"
    /\ \E found \in EvFindings :
          /\ evRun' = [evRun EXCEPT ![r] = [EvIdle EXCEPT
                 !.pc = "emit", !.made = Len(found),
                 !.todo = [n \in DOMAIN found |-> Said(r, found[n], evClock + n)]]]
          /\ evClock' = evClock + Len(found)
    /\ UNCHANGED <<evSinks, evStore, evSent, evSummary>>

\* Is a sink one of the setting, and does it come before another?
HasSink(s) == s \in Range(evSinks)
SinkBefore(s, t) ==
    \E m, n \in DOMAIN evSinks : m < n /\ evSinks[m] = s /\ evSinks[n] = t

\* A sink's buffer with an event added, when the setting has the sink.
Buffered(s, buffer, e) == IF HasSink(s) THEN Append(buffer, e) ELSE buffer

\* emit of every sink in turn; the database's writes its buffer when it has a
\* batch.  If that fails the sinks behind it do not get the event.
EmitEvent(r) ==
    /\ evRun[r].pc = "emit" /\ evRun[r].todo # <<>>
    /\ LET e == Head(evRun[r].todo)
           db == Buffered("db", evRun[r].db, e)
           full == Len(db) >= EvBatch
       IN  \/ /\ evRun' = [evRun EXCEPT ![r].todo = Tail(@), ![r].otel = Buffered("otel", @, e),
                                        ![r].db = IF full THEN <<>> ELSE db]
              /\ evStore' = IF full THEN evStore \o db ELSE evStore
           \/ /\ full
              /\ evRun' = [evRun EXCEPT ![r].pc = "failed", ![r].db = db,
                     ![r].otel = IF SinkBefore("otel", "db") THEN Buffered("otel", @, e) ELSE @]
              /\ UNCHANGED evStore
    /\ UNCHANGED <<evSinks, evSent, evClock, evSummary>>

\* Variant of FlushDatabase: a write that fails drops its events.
FlushDatabaseDrops(r) ==
    /\ evRun[r].pc = "flush" /\ evRun[r].db # <<>>
    /\ SinkBefore("otel", "db") => evRun[r].otel = <<>>
    /\ evRun' = [evRun EXCEPT ![r].db = <<>>]
    /\ \/ evStore' = evStore \o evRun[r].db
       \/ UNCHANGED evStore
    /\ UNCHANGED <<evSinks, evSent, evClock, evSummary>>

\* The sinks are flushed in their order.  A write that fails keeps the
\* buffer, of a sink nobody uses again, and ends the commentary.
FlushDatabase(r) ==
    /\ evRun[r].pc = "flush" /\ evRun[r].db # <<>>
    /\ SinkBefore("otel", "db") => evRun[r].otel = <<>>
    /\ \/ /\ evRun' = [evRun EXCEPT ![r].db = <<>>]
          /\ evStore' = evStore \o evRun[r].db
       \/ evRun' = [evRun EXCEPT ![r].pc = "failed"] /\ UNCHANGED evStore
    /\ UNCHANGED <<evSinks, evSent, evClock, evSummary>>

\* What each signal carries of some events: gauges need a metric.
Carried(signal, events) ==
    IF signal = "metrics" THEN {e \in events : e.count # NoMetric} ELSE events

\* export posts one request per signal and never raises; whatever becomes of
\* them, the buffer is emptied.
FlushCollector(r) ==
    /\ evRun[r].pc = "flush" /\ evRun[r].otel # <<>>
    /\ SinkBefore("db", "otel") => evRun[r].db = <<>>
    /\ evRun' = [evRun EXCEPT ![r].otel = <<>>]
    /\ evSent' = [s \in Signals |-> evSent[s] \cup Carried(s, Range(evRun[r].otel))]
    /\ UNCHANGED <<evSinks, evStore, evClock, evSummary>>

\* emit_many is through, and then flush is.
StartFlush(r) ==
    /\ evRun[r].pc = "emit" /\ evRun[r].todo = <<>>
    /\ evRun' = [evRun EXCEPT ![r].pc = "flush"]
    /\ UNCHANGED <<evSinks, evStore, evSent, evClock, evSummary>>
Reported(r) ==
    /\ evRun[r].pc = "flush" /\ evRun[r].db = <<>> /\ evRun[r].otel = <<>>
    /\ evRun' = [evRun EXCEPT ![r].pc = "done"]
    /\ UNCHANGED <<evSinks, evStore, evSent, evClock, evSummary>>

(***************************************************************************)
(* Events of clients, and summaries                                        *)
(***************************************************************************)
RoomForExtra ==
    Len(SelectSeq(evStore, LAMBDA e : e.source \in {"external", Semantic})) < EvExtra

\* ingest_event: always to the database, under any trace.
Ingested(r) ==
    /\ RoomForExtra
    /\ evStore' = Append(evStore, Event(r, "external", 1, evClock + 1))
    /\ evClock' = evClock + 1
    /\ UNCHANGED <<evSinks, evRun, evSent, evSummary>>

\* The counts among some rows: those of rows that have the metric.
CountSum(rows) ==
    FoldSeq(LAMBDA e, sum : IF e.count = NoMetric THEN sum ELSE sum + e.count, 0, rows)
\* digest_events.
Digest(rows) == [events |-> Len(rows), sum |-> CountSum(rows)]

\* run_semantic_agent's rows: of a trace or of the whole video, the agent's
\* own left out, the oldest first and at most limit.
SourceRows(by) ==
    LET rows == SelectSeq(evStore, LAMBDA e : e.source # Semantic /\ by \in {e.trace, "video"})
        sorted == SortSeq(rows, LAMBDA d, e : d.at < e.at)
    IN  SubSeq(sorted, 1, IF Len(sorted) < EvLimit THEN Len(sorted) ELSE EvLimit)

\* The summary of a video has the trace of its oldest event.  A model that
\* fails is replaced by the digest's text; a write that fails leaves nothing.
SummariseEvents(by) ==
    /\ SourceRows(by) # <<>> /\ RoomForExtra
    /\ LET rows == SourceRows(by)
           trace == IF by = "video" THEN Head(rows).trace ELSE by
       IN  /\ evStore' = Append(evStore, Event(trace, Semantic, NoMetric, evClock + 1))
           /\ evSummary' = [by |-> by, digest |-> Digest(rows), seen |-> Len(evStore)]
    /\ evClock' = evClock + 1
    /\ UNCHANGED <<evSinks, evRun, evSent>>

(***************************************************************************)
(* aggregate_events                                                        *)
(***************************************************************************)
\* The value of the column grouped by; the view does not fetch trace_id.
GroupOf(e, key) == IF key = "source" THEN e.source ELSE "null"
Aggregate(rows, key) ==
    [g \in {GroupOf(rows[n], key) : n \in DOMAIN rows} |->
        LET group == SelectSeq(rows, LAMBDA e : GroupOf(e, key) = g)
        IN  [events |-> Len(group), sum |-> CountSum(group)]]

EvNext ==
    \/ \E r \in EvRuns :
           \/ Comments(r) \/ EmitEvent(r) \/ StartFlush(r) \/ FlushDatabase(r)
           \/ FlushCollector(r) \/ Reported(r) \/ Ingested(r)
    \/ \E by \in EvRuns \cup {"video"} : SummariseEvents(by)
-----------------------------------------------------------------------------
EvTypeOK ==
    /\ evSinks \in EvSettings
    /\ \A r \in EvRuns :
           /\ evRun[r].pc \in {"new", "emit", "flush", "done", "failed"}
           /\ Len(evRun[r].todo) <= evRun[r].made /\ Len(evRun[r].db) <= EvBatch
    /\ \A n \in DOMAIN evStore : evStore[n].trace \in EvRuns /\ evStore[n].at \in 1..evClock
    /\ evSent \in [Signals -> SUBSET [trace : EvRuns, source : {"routine", "agent:vlm"},
                                       count : {NoMetric, 0, 1}, at : 1..evClock]]

\* Events of a run, wherever they came to lie.
OfRun(events, r) == {e \in events : e.trace = r /\ e.source \in {"routine", "agent:vlm"}}

\* A run that reports its events has stored all of them, when the database is
\* one of the sinks; what is stored of it is the oldest, whole or not; and
\* when the database comes first nothing is exported that was not stored.
ReportsAreStored ==
    \A r \in EvRuns :
        LET stored == OfRun(Range(evStore), r)
            sent == OfRun(evSent["logs"], r)
        IN  /\ evRun[r].pc = "done" /\ HasSink("db") => Cardinality(stored) = evRun[r].made
            /\ Cardinality(stored) = Cardinality({n \in DOMAIN evStore : evStore[n] \in stored})
            /\ \A e \in stored : \A n \in DOMAIN evRun[r].todo : e.at < evRun[r].todo[n].at
            /\ sent # {} => Cardinality(sent) = evRun[r].made
            /\ SinkBefore("db", "otel") => sent \subseteq stored

\* What the semantic agent sums up of a trace, or of the video, is what the
\* aggregate endpoint answers for it, grouped by source: the groups but the
\* agent's own add up to the summary, so no summary is counted in another one
\* and no event twice - as long as limit leaves none out.
SummariesAgree ==
    LET s == evSummary
        rows == SelectSeq(SubSeq(evStore, 1, s.seen), LAMBDA e : s.by \in {e.trace, "video"})
        answer == Aggregate(rows, "source")
        Total(n(_)) == FoldSet(LAMBDA g, sum : sum + n(g), 0, DOMAIN answer \ {Semantic})
        events == Total(LAMBDA g : answer[g].events)
    IN  IF events <= EvLimit
        THEN s.digest = [events |-> events, sum |-> Total(LAMBDA g : answer[g].sum)]
        ELSE s.digest.events = EvLimit

\* Commentary reaches its sinks as it is reported to have, and sums up as it
\* was stored (emit_analysis_commentary, run_semantic_agent, aggregate).
EventsSound == ReportsAreStored /\ SummariesAgree
=============================================================================
