---------------------------- MODULE FoundryCalls ----------------------------
(***************************************************************************)
(* AzureFoundryAdapter.predict: the check of the managed session (or the   *)
(* direct endpoint's settings), the requests to the endpoint, the mapping  *)
(* of its answer and the usage recorded on the session, while others end   *)
(* the session or put it back.  FoundrySessions has the session's whole    *)
(* life and takes a call as one step that fails or returns; here the call  *)
(* is in detail and the session is whether it can be used.  record_usage   *)
(* takes no lock: calls that overlap may add to the same old usage.        *)
(* An answer of the endpoint is                                            *)
(*   good     an object whose actions and trace are lists                  *)
(*   unlike   an object with something else there                          *)
(*   uncosted a good one whose total_tokens is no number                   *)
(*   odd      no JSON, or JSON that cannot be mapped                       *)
(*   refused  a 4xx        failed  any other error, a timeout among them   *)
(***************************************************************************)
EXTENDS Naturals, Sequences, SequencesExt, FiniteSets

CONSTANTS FcCalls,       \* calls of predict on one session
          FcRetries,     \* FOUNDRY_REQUEST_RETRIES
          FcSoft, FcHard \* recorded calls at which the soft and the hard limit are met

ASSUME FcAssumption ==
    /\ FcRetries \in Nat /\ FcHard \in Nat \ {0} /\ FcSoft \in 0..FcHard

VARIABLES fcStored,           \* the managed session is in the store
          fcExpired,          \* its time is over
          fcUsage,            \* its usage, in calls
          fcPc, fcMode,       \* per call: progress, and managed | direct | none
          fcServed, fcAnswer, \* per call: the endpoint's answers, and what predict gave
          fcSeen,             \* per call: the usage it read before adding to it
          fcOverlap           \* history: one call read the usage while another was to write it

fcSession == <<fcStored, fcExpired>>
fcVars == <<fcStored, fcExpired, fcUsage, fcPc, fcMode, fcServed, fcAnswer, fcSeen, fcOverlap>>

EndpointAnswers == {"good", "unlike", "uncosted", "odd", "refused", "failed"}

FcTypeOK ==
    /\ fcStored \in BOOLEAN /\ fcExpired \in BOOLEAN /\ fcOverlap \in BOOLEAN
    /\ fcUsage \in Nat /\ fcSeen \in [FcCalls -> Nat]
    /\ fcPc \in [FcCalls -> {"new", "call", "shape", "record", "write", "stop", "done"}]
    /\ fcMode \in [FcCalls -> {"managed", "direct", "none"}]
    /\ \A c \in FcCalls :
        fcServed[c] \in Seq(EndpointAnswers \cup {"synthetic"}) /\ Len(fcServed[c]) <= FcRetries + 1
    /\ fcAnswer \in [FcCalls -> {"none", "response", "unavailable", "stopped", "not_found", "error"}]

FcInit ==
    /\ fcStored = TRUE /\ fcExpired = FALSE /\ fcOverlap = FALSE
    /\ fcUsage = 0 /\ fcSeen = [c \in FcCalls |-> 0]
    /\ fcPc = [c \in FcCalls |-> "new"] /\ fcMode = [c \in FcCalls |-> "none"]
    /\ fcServed = [c \in FcCalls |-> <<>>]
    /\ fcAnswer = [c \in FcCalls |-> "none"]

FcGoto(c, p) == fcPc' = [fcPc EXCEPT ![c] = p] /\ UNCHANGED fcAnswer
FcEnd(c, a) == fcPc' = [fcPc EXCEPT ![c] = "done"] /\ fcAnswer' = [fcAnswer EXCEPT ![c] = a]

\* teardown_session: the session is taken out, or its delete raises and it is
\* put back.
TearDown == fcStored' = FALSE /\ UNCHANGED fcExpired

\* check_can_infer, with what the request says of force; the secret may fail
\* to be read.  An expired session is torn down, which may raise.
CheckManaged(c) ==
    \/ ~fcStored /\ FcEnd(c, "not_found") /\ UNCHANGED fcSession
    \/ fcStored /\ fcExpired /\ FcEnd(c, "not_found") /\ TearDown
    \/ fcStored /\ fcExpired /\ FcEnd(c, "error") /\ UNCHANGED fcSession
    \/ /\ fcStored /\ ~fcExpired /\ UNCHANGED fcSession
       /\ \E force \in BOOLEAN :
           IF fcUsage >= FcSoft /\ ~force THEN FcEnd(c, "stopped") ELSE FcGoto(c, "call")
    \/ fcStored /\ ~fcExpired /\ FcEnd(c, "error") /\ UNCHANGED fcSession

\* _resolve_target.
ResolveTarget(c) ==
    /\ fcPc[c] = "new"
    /\ \E m \in {"managed", "direct", "none"} :
        /\ fcMode' = [fcMode EXCEPT ![c] = m]
        /\ \/ m = "managed" /\ CheckManaged(c)
           \/ m = "direct" /\ FcGoto(c, "call") /\ UNCHANGED fcSession
           \/ m = "none" /\ FcEnd(c, "unavailable") /\ UNCHANGED fcSession
    /\ UNCHANGED <<fcUsage, fcServed, fcSeen, fcOverlap>>

\* An endpoint with a local name, or offline: no request is made.
SyntheticCall(c) ==
    /\ fcPc[c] = "call" /\ fcServed[c] = <<>>
    /\ fcServed' = [fcServed EXCEPT ![c] = <<"synthetic">>]
    /\ FcGoto(c, "shape")
    /\ UNCHANGED <<fcSession, fcUsage, fcMode, fcSeen, fcOverlap>>

\* One request.  A 4xx ends the call; what cannot be mapped is asked again,
\* like a network error.
CallFoundry(c) ==
    /\ fcPc[c] = "call"
    /\ \E a \in EndpointAnswers :
        /\ fcServed' = [fcServed EXCEPT ![c] = Append(@, a)]
        /\ IF a \in {"good", "unlike", "uncosted"} THEN FcGoto(c, "shape")
           ELSE IF a = "refused" \/ Len(fcServed[c]) = FcRetries THEN FcEnd(c, "unavailable")
           ELSE FcGoto(c, "call")
    /\ UNCHANGED <<fcSession, fcUsage, fcMode, fcSeen, fcOverlap>>

\* ensure_response_shape raises where nothing catches it, before the usage.
ShapeResponse(c) ==
    /\ fcPc[c] = "shape"
    /\ IF Last(fcServed[c]) = "unlike" THEN FcEnd(c, "error")
       ELSE IF fcMode[c] = "managed" THEN FcGoto(c, "record")
       ELSE FcEnd(c, "response")
    /\ UNCHANGED <<fcSession, fcUsage, fcMode, fcServed, fcSeen, fcOverlap>>

\* record_usage: the session is looked up again, and its usage read.  (That
\* the session goes between the two makes no difference to what is read.)
ReadUsage(c) ==
    /\ fcPc[c] = "record"
    /\ \/ ~fcStored /\ FcEnd(c, "not_found") /\ UNCHANGED <<fcSeen, fcOverlap>>
       \/ /\ fcStored /\ Last(fcServed[c]) = "uncosted"
          /\ FcEnd(c, "error") /\ UNCHANGED <<fcSeen, fcOverlap>>
       \/ /\ fcStored /\ Last(fcServed[c]) # "uncosted"
          /\ fcSeen' = [fcSeen EXCEPT ![c] = fcUsage]
          /\ fcOverlap' = (fcOverlap \/ \E d \in FcCalls : fcPc[d] = "write")
          /\ FcGoto(c, "write")
    /\ UNCHANGED <<fcSession, fcUsage, fcMode, fcServed>>

\* ... and written, by now perhaps over what another call has written; put
\* stores the session whether it is still there or not.
WriteUsage(c) ==
    /\ fcPc[c] = "write"
    /\ fcUsage' = fcSeen[c] + 1
    /\ fcStored' = TRUE
    /\ FcGoto(c, "stop")
    /\ UNCHANGED <<fcExpired, fcMode, fcServed, fcSeen, fcOverlap>>

\* At the hard limit the session is torn down, which may raise if the session
\* is still there; the answer is not seen then.
EnforceLimit(c) ==
    /\ fcPc[c] = "stop"
    /\ \/ fcUsage < FcHard /\ FcEnd(c, "response") /\ UNCHANGED fcSession
       \/ fcUsage >= FcHard /\ FcEnd(c, "response") /\ TearDown
       \/ fcUsage >= FcHard /\ fcStored /\ FcEnd(c, "error") /\ UNCHANGED fcSession
    /\ UNCHANGED <<fcUsage, fcMode, fcServed, fcSeen, fcOverlap>>

RecordUsage(c) == ReadUsage(c) \/ WriteUsage(c) \/ EnforceLimit(c)

\* Its time is over; others tear it down, and a heartbeat or a delete that
\* failed puts it back.
SessionExpires ==
    /\ ~fcExpired /\ fcExpired' = TRUE
    /\ UNCHANGED <<fcStored, fcUsage, fcPc, fcMode, fcServed, fcAnswer, fcSeen, fcOverlap>>
SessionMoves ==
    /\ fcStored' = ~fcStored
    /\ UNCHANGED <<fcExpired, fcUsage, fcPc, fcMode, fcServed, fcAnswer, fcSeen, fcOverlap>>

FcNext ==
    \/ SessionExpires \/ SessionMoves
    \/ \E c \in FcCalls : \/ ResolveTarget(c) \/ SyntheticCall(c) \/ CallFoundry(c)
                          \/ ShapeResponse(c) \/ RecordUsage(c)

FcSpec == FcInit /\ [][FcNext]_fcVars

\* Nothing is asked again after an answer that settles it.  Nothing is charged
\* but calls that got an answer, and no call twice.  Accountings that overlap
\* may lose a charge; if none ever did, every such call is charged, the ones
\* whose caller sees an answer and, at the limit, the ones whose teardown
\* failed.  A caller sees an answer of a managed session only after the usage
\* was written, and none of the wrong shape.
UsageIsOfAnswers ==
    LET Answered(c) == fcServed[c] # <<>> /\ Last(fcServed[c]) \in {"good", "synthetic"}
        seen == {c \in FcCalls : fcMode[c] = "managed" /\ fcAnswer[c] = "response"}
        unseen == {c \in FcCalls : fcMode[c] = "managed" /\ fcAnswer[c] = "error" /\ Answered(c)}
        written == seen \cup unseen \cup {c \in FcCalls : fcPc[c] = "stop"}
    IN  /\ fcUsage <= Cardinality(written)
        /\ ~fcOverlap => fcUsage = Cardinality(written)
        /\ unseen # {} => fcUsage >= FcHard \/ fcOverlap
        /\ \A c \in seen : Answered(c)
        /\ \A c \in FcCalls : \A i \in 1..(Len(fcServed[c]) - 1) : fcServed[c][i] \in {"odd", "failed"}
=============================================================================
