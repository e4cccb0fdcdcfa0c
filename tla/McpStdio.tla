------------------------------ MODULE McpStdio ------------------------------
(***************************************************************************)
(* The JSON-RPC server on stdin and stdout, and a client that, like        *)
(* StdioMCPClient, has one request open at a time and takes the next line  *)
(* it reads for the answer.  Both pipes keep their order.  A message is    *)
(* its id (0 when it has none, which makes it a notification) and what its *)
(* handling comes to:                                                      *)
(*   ok        a result                                                    *)
(*   protocol  a JsonRpcError: bad envelope, unknown method, tool or       *)
(*             resource, missing argument, a tool that raised              *)
(*   raises    any other exception: params that are no object, a resource  *)
(*             file that cannot be parsed                                  *)
(***************************************************************************)
EXTENDS Naturals, Sequences, FiniteSets, SequencesExt

CONSTANTS StRequests,    \* bound: requests the client makes
          StNotes,       \* bound: notifications it sends
          StNoteMethods  \* methods of the notifications it sends

VARIABLES
    stIn,      \* the server's stdin: lines, each a sequence of messages
    stOut,     \* its stdout: ids of the responses, 0 for "id": null
    stSent,    \* requests sent
    stNoted,   \* notifications sent
    stRaised,  \* those of them whose handling raises
    stTaken,   \* ids the client read, in order
    stOpen     \* the server has not reached the end of its input

stVars == <<stIn, stOut, stSent, stNoted, stRaised, stTaken, stOpen>>

(***************************************************************************)
(* What a call comes to.  A call is a method with its params, the params   *)
(* reduced to what decides the outcome.                                    *)
(***************************************************************************)
Plain == {"initialize", "notifications/initialized", "ping", "tools/list",
          "resources/list", "resources/templates/list"}
Tools == {"detect_anomalies", "run_reasoning", "extract_features", "get_tracks", "get_frames"}
Requiring == {"detect_anomalies", "get_tracks", "get_frames"}

\* Where a resource may be found: its file, the API, and its id as an address;
\* "broken" is a file that cannot be parsed, of the others it counts as "none".
Sources == [file : {"none", "data", "broken"}, api : {"none", "data"}, address : {"none", "data"}]

\* ResourceAdapter.read of an address that parse_uri accepts.
Read(at) ==
    CASE at.file = "data" -> "ok"
      [] at.file = "broken" -> "raises"
      [] at.file = "none" /\ "data" \in {at.api, at.address} -> "ok"
      [] OTHER -> "protocol"

\* resources/read: the address, "other" when it is no string or not accepted.
ReadCalls == [method : {"resources/read"}, uri : {"dvsa", "other"}, at : Sources]
ReadOutcome(c) == IF c.uri = "dvsa" THEN Read(c.at) ELSE "protocol"

\* tools/call: arguments with or without what the tool requires, a value that
\* holds it but is no object ("list"), or one that cannot be searched
\* ("number").  A reasoning tool works if its model is found and answers.
ToolCalls == [method : {"tools/call"}, name : Tools \cup {"other"},
              arguments : {"all", "some", "list", "number"}, works : BOOLEAN, at : Sources]

Works(c) == IF c.name \in {"get_tracks", "get_frames"} THEN Read(c.at) = "ok" ELSE c.works

\* What a handler raises is wrapped into a protocol error.  Only an exception
\* outside of the handler is answered as the result of a tool that failed.
ToolOutcome(c) ==
    CASE c.name \notin Tools -> "protocol"
      [] c.name \in Requiring /\ c.arguments = "some" -> "protocol"
      [] c.name \in Requiring /\ c.arguments = "number" -> "ok"
      [] c.name \in Tools /\ c.arguments \in {"all", "some"} /\ Works(c) -> "ok"
      [] OTHER -> "protocol"

\* The other methods do not look at their params; "other" is an unknown method
\* or a bad envelope, "no_object" are params that have no get.
Outcomes(method) ==
    CASE method = "tools/call" -> {ToolOutcome(c) : c \in ToolCalls}
      [] method = "resources/read" -> {ReadOutcome(c) : c \in ReadCalls}
      [] method \in Plain -> {"ok"}
      [] method = "no_object" -> {"raises"}
      [] method = "other" -> {"protocol"}

Methods == Plain \cup {"tools/call", "resources/read", "no_object", "other"}
MessageKinds == UNION {Outcomes(method) : method \in Methods}
NoteKinds == UNION {Outcomes(method) : method \in StNoteMethods}

ASSUME StAssumption ==
    /\ StRequests \in Nat /\ StNotes \in Nat
    /\ StNoteMethods \subseteq Methods

StTypeOK ==
    /\ \A i \in DOMAIN stIn : \A m \in Range(stIn[i]) :
        m.id \in 0..StRequests /\ m.kind \in MessageKinds
    /\ Range(stOut) \cup Range(stTaken) \subseteq 0..StRequests
    /\ stSent \in 0..StRequests /\ stNoted \in 0..StNotes /\ stRaised \in 0..stNoted

StInit ==
    /\ stIn = <<>> /\ stOut = <<>>
    /\ stSent = 0 /\ stNoted = 0 /\ stRaised = 0
    /\ stTaken = <<>>
    /\ stOpen = TRUE

(***************************************************************************)
(* The server                                                              *)
(***************************************************************************)
\* Variant of Responses: a notification's error is sent like any other.
ResponsesLoud(m) ==
    IF m.id = 0 /\ m.kind = "ok" THEN <<>> ELSE <<m.id>>

\* A notification is answered only by the last resort handler, with a null id.
Responses(m) ==
    IF m.id = 0 /\ m.kind # "raises" THEN <<>> ELSE <<m.id>>

\* One response per line, in the order of the batch.
HandleBatch(ms) == FoldLeft(LAMBDA out, m : out \o Responses(m), <<>>, ms)

Serve ==
    /\ stIn # <<>>
    /\ stOut' = stOut \o HandleBatch(Head(stIn))
    /\ stIn' = Tail(stIn)
    /\ UNCHANGED <<stSent, stNoted, stRaised, stTaken, stOpen>>

(***************************************************************************)
(* The client                                                              *)
(***************************************************************************)
AwaitsLine == Len(stTaken) < stSent

Note(n) == [id |-> 0, kind |-> n]
Ask(k) == [id |-> stSent + 1, kind |-> k]

Noted(n) ==
    /\ stNoted < StNotes
    /\ stNoted' = stNoted + 1
    /\ stRaised' = IF n = "raises" THEN stRaised + 1 ELSE stRaised

\* A request alone on its line, or in a batch behind a notification.
Request ==
    /\ stOpen /\ ~AwaitsLine
    /\ stSent < StRequests
    /\ \E k \in MessageKinds :
        \/ stIn' = Append(stIn, <<Ask(k)>>) /\ UNCHANGED <<stNoted, stRaised>>
        \/ \E n \in NoteKinds : Noted(n) /\ stIn' = Append(stIn, <<Note(n), Ask(k)>>)
    /\ stSent' = stSent + 1
    /\ UNCHANGED <<stOut, stTaken, stOpen>>

Notify ==
    /\ stOpen /\ ~AwaitsLine
    /\ \E n \in NoteKinds : Noted(n) /\ stIn' = Append(stIn, <<Note(n)>>)
    /\ UNCHANGED <<stOut, stSent, stTaken, stOpen>>

ReadLine ==
    /\ AwaitsLine /\ stOut # <<>>
    /\ stTaken' = Append(stTaken, Head(stOut))
    /\ stOut' = Tail(stOut)
    /\ UNCHANGED <<stIn, stSent, stNoted, stRaised, stOpen>>

\* The client leaves: stdin is closed and the process ended.
Close ==
    /\ stOpen /\ ~AwaitsLine
    /\ stOpen' = FALSE
    /\ stIn' = <<>>
    /\ UNCHANGED <<stOut, stSent, stNoted, stRaised, stTaken>>

StNext == Serve \/ Request \/ Notify \/ ReadLine \/ Close

\* The server reads on, and a client waiting for a line takes it.
StSpec == StInit /\ [][StNext]_stVars /\ WF_stVars(Serve) /\ WF_stVars(ReadLine)

\* The client takes the answers in the order of its requests, whatever batches
\* and notifications it sent.  If none of these made the handler raise, the line
\* it takes for the answer to its n-th request is that answer.  For each that
\* did, the server writes a line with a null id, and from then on the client may
\* take for an answer that line, or the answer to an earlier request: earlier by
\* no more than the notifications that raised.
AnswersMatch ==
    /\ \A i \in DOMAIN stTaken :
        \/ stTaken[i] = 0 /\ stRaised > 0
        \/ stTaken[i] # 0 /\ stTaken[i] <= i /\ i <= stTaken[i] + stRaised
    /\ \A i, j \in DOMAIN stTaken :
        i < j /\ stTaken[i] # 0 /\ stTaken[j] # 0 => stTaken[i] < stTaken[j]

\* A request is answered, also one whose handler raises.
RequestsAnswered == AwaitsLine ~> ~AwaitsLine

=============================================================================
