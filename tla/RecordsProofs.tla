---------------------------- MODULE RecordsProofs ----------------------------
(***************************************************************************)
(* What an upload, a command of the local kit, a triggered run, a search   *)
(* index, a deployment, the commentary on a run and a mission over HTTP    *)
(* promise, proved for every cap, every set of requests and deliveries and *)
(* every profile.  Each invariant is about the variables of one component: *)
(* a step of another one leaves them alone, whichever part a behaviour is  *)
(* about.                                                                  *)
(***************************************************************************)
EXTENDS MCRecords, FiniteSetTheorems, SequenceTheorems, FunctionTheorems, TLAPS

-----------------------------------------------------------------------------
(***************************************************************************)
(* The upload                                                              *)
(***************************************************************************)
\* The file was copied whole, from where on that is so.
CopiedWhole ==
    vuWritten = vuClip.form.chunks /\ vuWritten \in 1..VuCap
\* It is a video, and it passed the screen.
LooksLikeVideo == vuClip.form.mp4 /\ vuClip.form.video
PassedScreen == Screened(vuClip.picture) \notin Fabricated

\* What has been done of an upload that stands at a step.
CopiedSteps == {"inspect", "screen", "store", "register", "ingest", "respond"}
LookedSteps == {"screen", "store", "register", "ingest", "respond"}
PassedSteps == {"store", "register", "ingest", "respond"}
StoredSteps == {"register", "ingest", "respond"}

UpInv ==
    /\ VuTypeOK
    /\ vuAt # "done" => vuAnswer = 0
    /\ vuAt \in CopiedSteps => CopiedWhole
    /\ vuAt \in LookedSteps => LooksLikeVideo
    /\ vuAt \in PassedSteps => PassedScreen
    /\ vuBlob => CopiedWhole /\ LooksLikeVideo /\ PassedScreen
    /\ vuAt \notin StoredSteps \cup {"done", "killed"} => ~vuBlob
    /\ vuAt \in StoredSteps => vuBlob
    /\ vuRow => vuBlob
    /\ vuAt = "register" => ~vuRow
    /\ vuAt \in {"ingest", "respond"} => vuRow
    /\ vuAt = "done" =>
           /\ vuAnswer \in {201, 400, 413, 500}
           /\ vuAnswer = 201 => vuRow
           /\ vuAnswer \in {400, 413} => ~vuBlob /\ ~vuRow

\* An upload starts with nothing done (VideoUploadAPIView.post).
LEMMA UpInvInit == VuInit => UpInv
  <1>1. VuCap \in Nat \ {0}
    BY VuAssumption
  <1> SUFFICES ASSUME VuInit PROVE UpInv
    OBVIOUS
  <1>2. VuTypeOK
    <2>1. 0 \in 0..VuCap
      BY <1>1
    <2>2. QED
      BY <2>1, Zenon DEF VuInit, VuTypeOK
  <1>3. vuAt = "receive" /\ vuAnswer = 0 /\ ~vuBlob /\ ~vuRow
    BY DEF VuInit
  <1>4. QED
    BY <1>2, <1>3 DEF UpInv, CopiedSteps, LookedSteps, PassedSteps, StoredSteps

\* A file's length is a number of chunks.
LEMMA FormsHaveChunks == \A f \in Forms : f.chunks \in Nat
  <1> SUFFICES ASSUME NEW f \in Forms PROVE f.chunks \in Nat
    OBVIOUS
  <1>1. VuCap \in Nat
    BY VuAssumption
  <1>2. f.chunks \in {0, 1, VuCap, VuCap + 1}
    BY DEF Forms, Honest
  <1>3. QED
    BY <1>1, <1>2

\* Moving on, with the blob or the row written, is well typed.
LEMMA UploadTyped ==
  ASSUME VuTypeOK, UNCHANGED <<vuOn, vuClip, vuAnswer, vuWritten, vuIngest>>,
         vuAt' \in {"receive", "copy", "inspect", "screen", "store", "register", "ingest",
                   "respond", "done", "killed"},
         vuBlob' \in BOOLEAN, vuRow' \in BOOLEAN
  PROVE  VuTypeOK'
  <1>1. vuOn' \in [screen : BOOLEAN, tools : BOOLEAN] /\ vuClip' \in Clips
    BY DEF VuTypeOK
  <1>2. vuAnswer' \in {0, 201, 400, 413, 500}
    BY DEF VuTypeOK
  <1>3. vuWritten' \in 0..VuCap
    BY DEF VuTypeOK
  <1>4. vuIngest' \in {"none", "done", "failed"}
    BY DEF VuTypeOK
  <1>5. QED
    BY <1>1, <1>2, <1>3, <1>4 DEF VuTypeOK

\* Every step of an upload, its failures and the kill of its worker keep it so.
LEMMA UpInvStep == UpInv /\ VuNext => UpInv'
  <1> SUFFICES ASSUME UpInv, VuNext PROVE UpInv'
    OBVIOUS
  <1>0. VuCap \in Nat \ {0} /\ VuTypeOK /\ UNCHANGED <<vuOn, vuClip>>
    BY VuAssumption DEF UpInv, VuNext
  <1>chunks. vuClip.form.chunks \in Nat
    BY <1>0, FormsHaveChunks DEF VuTypeOK, Clips
  <1>same. (LooksLikeVideo <=> LooksLikeVideo') /\ (PassedScreen <=> PassedScreen')
    BY <1>0 DEF LooksLikeVideo, PassedScreen, Screened, FeaturesRaise, Decide,
                CameraEvidence, Signs, Fabricated
  <1> USE DEF CopiedSteps, LookedSteps, PassedSteps, StoredSteps
  <1>1. CASE Receive
    BY <1>0, <1>1, <1>same DEF Receive, AnswerUpload, End, Proceed, UpInv, VuTypeOK, CopiedWhole
  <1>2. CASE Copy
    BY <1>0, <1>chunks, <1>2, <1>same DEF Copy, AnswerUpload, End, Proceed, UpInv, VuTypeOK, CopiedWhole
  <1>3. CASE Inspect
    BY <1>0, <1>3, <1>same DEF Inspect, AnswerUpload, End, Proceed, UpInv, VuTypeOK, CopiedWhole,
                       LooksLikeVideo
  <1>4. CASE Screen
    BY <1>0, <1>4, <1>same DEF Screen, AnswerUpload, End, Proceed, UpInv, VuTypeOK, CopiedWhole,
                       PassedScreen
  <1>5. CASE Store
    <2>1. CopiedWhole /\ LooksLikeVideo /\ PassedScreen /\ ~vuBlob /\ ~vuRow /\ vuAnswer = 0
      BY <1>5 DEF Store, UpInv
    <2>2. CopiedWhole'
      BY <1>0, <1>5, <2>1 DEF CopiedWhole, Store, AnswerUpload, End, Proceed
    <2>3. CASE vuBlob' \in BOOLEAN /\ End(500)
      BY <1>0, <2>1, <2>2, <2>3, <1>same DEF End, UpInv, VuTypeOK
    <2>4. CASE vuBlob' = TRUE /\ Proceed("register") /\ UNCHANGED vuWritten
      <3>1. VuTypeOK'
        <4>1. vuBlob' \in BOOLEAN
          BY <2>4
        <4>2. vuAt' = "register" /\ UNCHANGED <<vuAnswer, vuRow, vuIngest, vuWritten>>
          BY <2>4 DEF Proceed
        <4>3. vuAt' \in {"receive", "copy", "inspect", "screen", "store", "register", "ingest",
                          "respond", "done", "killed"}
          BY <4>2
        <4>4. vuRow' \in BOOLEAN
          BY <1>0, <4>2 DEF VuTypeOK
        <4>5. QED
          BY <1>0, <4>1, <4>2, <4>3, <4>4, UploadTyped
      <3>2. vuBlob' /\ ~vuRow' /\ vuAt' = "register" /\ vuAnswer' = 0
        BY <2>1, <2>4 DEF Proceed
      <3>3. QED
        BY <2>1, <2>2, <3>1, <3>2, <1>same DEF UpInv
    <2>5. QED
      BY <1>5, <2>3, <2>4 DEF Store
  <1>6. CASE Register
    <2>1. CopiedWhole /\ LooksLikeVideo /\ PassedScreen /\ vuBlob /\ ~vuRow /\ vuAnswer = 0
      BY <1>6 DEF Register, UpInv
    <2>2. CopiedWhole'
      BY <1>0, <1>6, <2>1 DEF CopiedWhole, Register, AnswerUpload, End
    <2>3. CASE AnswerUpload(500)
      BY <1>0, <2>1, <2>2, <2>3, <1>same DEF AnswerUpload, End, UpInv, VuTypeOK
    <2>4. CASE /\ vuRow' = TRUE /\ vuAt' = "ingest"
               /\ UNCHANGED <<vuAnswer, vuWritten, vuBlob, vuIngest>>
      <3>1. VuTypeOK'
        <4>1. vuRow' \in BOOLEAN
          BY <2>4
        <4>2. vuAt' \in {"receive", "copy", "inspect", "screen", "store", "register", "ingest",
                          "respond", "done", "killed"}
          BY <2>4
        <4>3. UNCHANGED <<vuAnswer, vuWritten, vuBlob, vuIngest>>
          BY <2>4
        <4>4. vuBlob' \in BOOLEAN
          BY <1>0, <4>3 DEF VuTypeOK
        <4>5. QED
          BY <1>0, <4>1, <4>2, <4>3, <4>4, UploadTyped
      <3>2. vuBlob' /\ vuRow' /\ vuAt' = "ingest" /\ vuAnswer' = 0
        BY <2>1, <2>4
      <3>3. QED
        BY <2>1, <2>2, <3>1, <3>2, <1>same DEF UpInv
    <2>5. QED
      BY <1>6, <2>3, <2>4 DEF Register
  <1>7. CASE Ingest
    BY <1>0, <1>7, <1>same DEF Ingest, UpInv, VuTypeOK, CopiedWhole
  <1>8. CASE RespondCreated
    BY <1>0, <1>8, <1>same DEF RespondCreated, AnswerUpload, End, UpInv, VuTypeOK, CopiedWhole
  <1>9. CASE Killed
    BY <1>0, <1>9, <1>same DEF Killed, UpInv, VuTypeOK, CopiedWhole
  <1>10. QED
    BY <1>1, <1>2, <1>3, <1>4, <1>5, <1>6, <1>7, <1>8, <1>9 DEF VuNext

\* It says what the answer and the stored file are worth.
LEMMA UpInvSound == UpInv => UploadSound
  <1> SUFFICES ASSUME UpInv PROVE UploadsAddUp /\ StoredWasInspected
    BY DEF UploadSound
  <1>1. UploadsAddUp
    BY DEF UpInv, UploadsAddUp, VuTypeOK, StoredSteps
  <1>2. ASSUME vuBlob, vuOn.screen, vuOn.tools, ~FeaturesRaise(vuClip.picture)
        PROVE  /\ ~vuClip.picture.declared
               /\ CameraEvidence(vuClip.picture) \/ Signs(vuClip.picture) < 3
    <2>1. Decide(vuClip.picture) \notin Fabricated
      BY <1>2 DEF UpInv, PassedScreen, Screened
    <2>2. Signs(vuClip.picture) \in Nat
      <3>1. vuClip.picture.signs \in Nat
        BY DEF UpInv, VuTypeOK, Clips, Pictures
      <3>2. QED
        BY <3>1 DEF Signs
    <2>3. QED
      BY <2>1, <2>2 DEF Decide, Fabricated
  <1>3. StoredWasInspected
    BY <1>2 DEF UpInv, StoredWasInspected, CopiedWhole, LooksLikeVideo
  <1>4. QED
    BY <1>1, <1>3

\* The steps of an upload and its answer add up, and what is stored was
\* copied whole, inspected and screened (VideoUploadAPIView.post).
THEOREM UploadsAreSound == Spec => []UploadSound
  <1>1. Init => UpInv
    BY UpInvInit DEF Init
  <1>2. UpInv /\ [Next]_Everything => UpInv'
    <2>1. ASSUME [Next]_Everything PROVE VuNext \/ UNCHANGED vuVars
      BY <2>1 DEF Next, Everything
    <2>2. ASSUME UpInv, UNCHANGED vuVars PROVE UpInv'
      BY <2>2 DEF vuVars, UpInv, VuTypeOK, CopiedWhole, LooksLikeVideo, PassedScreen, Screened,
                  FeaturesRaise, Decide, CameraEvidence, Signs, Fabricated
    <2>3. QED
      BY <2>1, <2>2, UpInvStep
  <1>3. QED
    BY <1>1, <1>2, UpInvSound, PTL DEF Spec

-----------------------------------------------------------------------------
(***************************************************************************)
(* The local kit                                                           *)
(***************************************************************************)
\* Nothing stands between a gated output and the store any more.
MayWrite ==
    "write_output" \in lhProfile.gated =>
        \/ lhConfirmed = {"write_output"}
        \/ lhMode = 2 /\ "write_output" \in lhProfile.allowed

LhInv ==
    /\ lhProfile \in LhProfiles /\ lhArgs \in LhArgs /\ lhMode \in 0..2 /\ lhSteps \in Nat
    /\ lhPc \in {"start", "resolved", "pipeline", "gate", "store", "end"}
    /\ lhPc # "start" => lhMode = Ceiling(IF lhArgs.dry THEN 0 ELSE lhArgs.mode)
    /\ lhPc \in {"start", "resolved"} => lhSteps = 0
    /\ lhPc \in {"pipeline", "gate", "store"} => lhMode # 0
    /\ lhMode = 0 => lhSteps = 0
    /\ lhWritten => lhPc = "end" /\ lhExit = "ok" /\ lhMode # 0 /\ MayWrite
    /\ lhPc = "store" => MayWrite

\* The ceiling lets a mode of the enumeration through, and none above itself.
LEMMA CeilingHolds ==
    ASSUME NEW mode \in 0..2, lhProfile \in LhProfiles
    PROVE  /\ Ceiling(mode) \in 0..2 /\ Ceiling(mode) <= lhProfile.max
           /\ Ceiling(mode) <= mode /\ lhProfile.max \in 0..2
  BY LhAssumption DEF Ceiling

\* The command line's mode is one of the enumeration.
LEMMA AskedMode == lhArgs \in LhArgs => (IF lhArgs.dry THEN 0 ELSE lhArgs.mode) \in 0..2
  BY DEF LhArgs

\* No step of a command passes the mode it was given by (ActionHarness).
LEMMA LhInvStep == LhInv /\ LhNext => LhInv'
  <1> SUFFICES ASSUME LhInv, LhNext PROVE LhInv'
    OBVIOUS
  <1>0. lhProfile' = lhProfile /\ lhArgs' = lhArgs
    BY DEF LhNext, ResolveMode, CmdFetchVideo, CheckGuardrails, PipelineStep, Gate, StoreOutput
  <1>1. CASE ResolveMode
    <2>1. PICK mode \in 0..2 : mode = IF lhArgs.dry THEN 0 ELSE lhArgs.mode
      BY AskedMode DEF LhInv
    <2>2. lhMode' = Ceiling(mode) /\ Ceiling(mode) \in 0..2
      BY <1>1, <2>1, CeilingHolds DEF ResolveMode, LhInv
    <2>3. (Ceiling(IF lhArgs.dry THEN 0 ELSE lhArgs.mode))' = Ceiling(mode)
      BY <1>0, <2>1 DEF Ceiling
    <2>4. ~lhWritten
      BY <1>1 DEF ResolveMode, LhGo, LhInv
    <2>5. QED
      BY <1>0, <1>1, <2>2, <2>3, <2>4 DEF ResolveMode, LhGo, LhInv
  <1>2. CASE CmdFetchVideo \/ CheckGuardrails \/ PipelineStep \/ Gate \/ StoreOutput
    <2>1. /\ UNCHANGED lhMode /\ lhPc # "start" /\ lhPc' # "start"
          /\ Ceiling(IF lhArgs.dry THEN 0 ELSE lhArgs.mode)'
               = Ceiling(IF lhArgs.dry THEN 0 ELSE lhArgs.mode)
      BY <1>0, <1>2 DEF CmdFetchVideo, CheckGuardrails, PipelineStep, Gate, StoreOutput,
                        LhGo, LhEnd, Ceiling
    <2>2. CASE CmdFetchVideo
      BY <1>0, <2>1, <2>2 DEF CmdFetchVideo, LhEnd, LhGo, LhInv, MayWrite
    <2>3. CASE CheckGuardrails
      BY <1>0, <2>1, <2>3 DEF CheckGuardrails, LhEnd, LhGo, LhInv, MayWrite
    <2>4. CASE PipelineStep
      BY <1>0, <2>1, <2>4 DEF PipelineStep, LhEnd, LhGo, LhInv, MayWrite
    <2>5. CASE Gate
      BY <1>0, <2>1, <2>5 DEF Gate, MustAsk, LhEnd, LhGo, LhInv, MayWrite
    <2>6. CASE StoreOutput
      BY <1>0, <2>1, <2>6 DEF StoreOutput, LhEnd, LhGo, LhInv, MayWrite
    <2>7. QED
      BY <1>2, <2>2, <2>3, <2>4, <2>5, <2>6
  <1>3. QED
    BY <1>1, <1>2 DEF LhNext

\* The ceiling and the gate are obeyed.
LEMMA LhInvObeys == LhInv => ProfileObeyed
  <1> SUFFICES ASSUME LhInv PROVE ProfileObeyed
    OBVIOUS
  <1>1. PICK mode \in 0..2 : mode = IF lhArgs.dry THEN 0 ELSE lhArgs.mode
    BY AskedMode DEF LhInv
  <1>2. /\ Ceiling(mode) <= lhProfile.max /\ Ceiling(mode) <= mode
        /\ lhProfile.max \in 0..2 /\ Ceiling(mode) \in 0..2
    BY CeilingHolds DEF LhInv
  <1>3. lhPc # "start" => lhMode = Ceiling(mode)
    BY <1>1 DEF LhInv
  <1>4. lhProfile.max = 0 \/ lhArgs.dry => lhSteps = 0 /\ ~lhWritten
    <2>1. CASE lhPc = "start"
      BY <2>1 DEF LhInv
    <2>2. CASE lhPc # "start" /\ (lhProfile.max = 0 \/ lhArgs.dry)
      <3>1. lhMode = 0
        BY <1>1, <1>2, <1>3, <2>2
      <3>2. QED
        BY <3>1 DEF LhInv
    <2>3. QED
      BY <2>1, <2>2
  <1>5. lhWritten /\ lhMode = 2 => lhProfile.max = 2 /\ lhArgs.mode = 2
    <2>1. ASSUME lhWritten, lhMode = 2 PROVE lhProfile.max = 2 /\ mode = 2
      BY <1>2, <1>3, <2>1 DEF LhInv
    <2>2. QED
      BY <1>1, <2>1
  <1>6. QED
    BY <1>4, <1>5 DEF LhInv, MayWrite, ProfileObeyed

\* The harness never exceeds the profile's ceiling, and writes a gated output
\* only after a yes or where the profile allows it (local_harness).
THEOREM ProfileIsObeyed == Spec => []ProfileObeyed
  <1>1. Init => LhInv
    BY DEF Init, LhInit, LhInv
  <1>2. LhInv /\ [Next]_Everything => LhInv'
    <2>1. ASSUME [Next]_Everything PROVE LhNext \/ UNCHANGED lhVars
      BY <2>1 DEF Next, Everything
    <2>2. ASSUME LhInv, UNCHANGED lhVars PROVE LhInv'
      BY <2>2 DEF lhVars, LhInv, MayWrite, Ceiling
    <2>3. QED
      BY <2>1, <2>2, LhInvStep
  <1>3. QED
    BY <1>1, <1>2, LhInvObeys, PTL DEF Spec

-----------------------------------------------------------------------------
(***************************************************************************)
(* Triggered runs                                                          *)
(***************************************************************************)
\* Deliveries that have recorded the end of the run they asked for.
Ended(x) == {d \in Sent(x) : tkPc[d] \in {"recorded", "done"}}

Entries == [status : TkStatuses \cup {TkNone}, history : Seq(TkStatuses)]

\* One run's record counts the deliveries that wrote it, and the last of them
\* to end leaves its end.
EntryTrue(x) ==
    /\ IsFiniteSet(Sent(x))
    /\ Count(x, {"accepted"}) = Cardinality(Sent(x))
    /\ Count(x, {"completed", "failed"}) = Cardinality(Ended(x))
    /\ Sent(x) # {} /\ Sent(x) = Ended(x) => tkEntry[x].status \in {"completed", "failed"}

TkInv ==
    /\ tkPc \in [TkDeliveries ->
           {"new", "verified", "accepted", "running", "recorded", "done", "refused"}]
    /\ tkRun \in [TkDeliveries -> TkRuns \cup {TkNone}]
    /\ tkEntry \in [TkRuns -> Entries]
    /\ tkAnswer \in [TkDeliveries -> TkStatuses \cup {TkNone}]
    /\ tkOwn \in [TkDeliveries -> {TkNone, "completed", "failed"}]
    /\ \A d \in TkDeliveries :
           /\ tkPc[d] \notin {"new", "refused"} => tkRun[d] \in TkRuns
           /\ tkPc[d] \in {"recorded", "done"} => tkAnswer[d] = tkOwn[d]
    /\ \A x \in TkRuns : EntryTrue(x)

\* How often statuses of a set occur in a history.
TimesIn(h, ss) == Cardinality({i \in DOMAIN h : h[i] \in ss})

\* A status appended is counted once, where it belongs.
LEMMA AppendCounted ==
    ASSUME NEW h \in Seq(TkStatuses), NEW s \in TkStatuses, NEW ss
    PROVE  TimesIn(Append(h, s), ss) = TimesIn(h, ss) + (IF s \in ss THEN 1 ELSE 0)
  <1> DEFINE old == {i \in DOMAIN h : h[i] \in ss}
             new == {i \in DOMAIN Append(h, s) : Append(h, s)[i] \in ss}
  <1>1. /\ DOMAIN h = 1..Len(h) /\ Len(h) \in Nat
        /\ DOMAIN Append(h, s) = 1..(Len(h) + 1)
        /\ \A i \in 1..Len(h) : Append(h, s)[i] = h[i]
        /\ Append(h, s)[Len(h) + 1] = s
    BY AppendProperties, LenProperties
  <1>2. IsFiniteSet(old) /\ Len(h) + 1 \notin old
    <2>1. IsFiniteSet(1..Len(h))
      BY <1>1, FS_Interval
    <2>2. QED
      BY <1>1, <2>1, FS_Subset
  <1>3. CASE s \in ss
    <2>1. new = old \cup {Len(h) + 1}
      BY <1>1, <1>3
    <2>2. Cardinality(new) = Cardinality(old) + 1
      BY <1>2, <2>1, FS_AddElement
    <2>3. QED
      BY <1>3, <2>2 DEF TimesIn
  <1>4. CASE s \notin ss
    <2>1. new = old
      BY <1>1, <1>4
    <2>2. Cardinality(old) \in Nat
      BY <1>2, FS_CardinalityType
    <2>3. TimesIn(Append(h, s), ss) = Cardinality(old) /\ TimesIn(h, ss) = Cardinality(old)
      BY <2>1 DEF TimesIn
    <2>4. QED
      BY <1>4, <2>2, <2>3
  <1>5. QED
    BY <1>3, <1>4

\* A set that gains an element it had not.
LEMMA OneMore ==
    ASSUME NEW S, IsFiniteSet(S), NEW d, d \notin S
    PROVE  IsFiniteSet(S \cup {d}) /\ Cardinality(S \cup {d}) = Cardinality(S) + 1
  BY FS_AddElement

\* What a status recorded for a run does to its entry (TriggerTracker.record).
LEMMA StatusRecorded ==
    ASSUME TkInv, NEW x \in TkRuns, NEW s \in TkStatuses, RecordStatus(x, s)
    PROVE  /\ tkEntry' \in [TkRuns -> Entries]
           /\ \A y \in TkRuns \ {x} : tkEntry'[y] = tkEntry[y]
           /\ tkEntry'[x].status = s
           /\ \A ss : Count(x, ss)' = Count(x, ss) + (IF s \in ss THEN 1 ELSE 0)
  <1>1. tkEntry[x] \in Entries /\ tkEntry[x].history \in Seq(TkStatuses)
    BY DEF TkInv, Entries
  <1>2. PICK h \in Seq(TkStatuses) : h = tkEntry[x].history
    BY <1>1
  <1>3. Append(h, s) \in Seq(TkStatuses)
    BY AppendProperties
  <1>4. tkEntry' = [tkEntry EXCEPT ![x] = [status |-> s, history |-> Append(h, s)]]
    BY <1>2 DEF RecordStatus
  <1>5. [status |-> s, history |-> Append(h, s)] \in Entries
    BY <1>3 DEF Entries
  <1>6. tkEntry' \in [TkRuns -> Entries]
    BY <1>4, <1>5 DEF TkInv
  <1>7. /\ tkEntry'[x] = [status |-> s, history |-> Append(h, s)]
        /\ \A y \in TkRuns \ {x} : tkEntry'[y] = tkEntry[y]
    BY <1>4 DEF TkInv
  <1>8. ASSUME NEW ss PROVE Count(x, ss)' = Count(x, ss) + (IF s \in ss THEN 1 ELSE 0)
    <2>1. Count(x, ss)' = TimesIn(Append(h, s), ss)
      <3>1. tkEntry'[x].history = Append(h, s)
        BY <1>7
      <3>2. QED
        BY <3>1 DEF Count, TimesIn
    <2>2. Count(x, ss) = TimesIn(h, ss)
      BY <1>2 DEF Count, TimesIn
    <2>3. QED
      BY <2>1, <2>2, AppendCounted
  <1>9. QED
    BY <1>6, <1>7, <1>8

\* A run whose entry and deliveries a step leaves alone stays as it is.
LEMMA EntryStays ==
    ASSUME NEW x, EntryTrue(x), tkEntry'[x] = tkEntry[x],
           Sent(x)' = Sent(x), Ended(x)' = Ended(x)
    PROVE  EntryTrue(x)'
  <1>1. \A ss : Count(x, ss)' = Count(x, ss)
    BY DEF Count
  <1>2. QED
    BY <1>1 DEF EntryTrue

\* A run nobody works on has an empty history.
LEMMA TkInvInit == TkInit => TkInv
  <1> SUFFICES ASSUME TkInit PROVE TkInv
    OBVIOUS
  <1>1. <<>> \in Seq(TkStatuses)
    OBVIOUS
  <1>2. tkEntry \in [TkRuns -> Entries]
    BY <1>1 DEF TkInit, Entries
  <1>3. ASSUME NEW x \in TkRuns PROVE EntryTrue(x)
    <2>1. Sent(x) = {} /\ Ended(x) = {}
      BY DEF TkInit, Sent, Ended
    <2>2. \A ss : {i \in DOMAIN tkEntry[x].history : tkEntry[x].history[i] \in ss} = {}
      BY EmptySeq DEF TkInit
    <2>3. QED
      BY <2>1, <2>2, FS_EmptySet DEF EntryTrue, Count
  <1>4. QED
    BY <1>2, <1>3 DEF TkInit, TkInv

\* A delivery that takes a step by itself leaves the others where they are.
LEMMA OneDelivery ==
    ASSUME TkInv, NEW d \in TkDeliveries, NEW pc, tkPc' = [tkPc EXCEPT ![d] = pc],
           UNCHANGED tkRun, NEW x \in TkRuns
    PROVE  /\ Sent(x)' = IF pc \in {"accepted", "running", "recorded", "done"} /\ tkRun[d] = x
                         THEN Sent(x) \cup {d} ELSE Sent(x) \ {d}
           /\ Ended(x)' = IF pc \in {"recorded", "done"} /\ tkRun[d] = x
                          THEN Ended(x) \cup {d} ELSE Ended(x) \ {d}
  <1>1. tkPc'[d] = pc /\ \A e \in TkDeliveries \ {d} : tkPc'[e] = tkPc[e]
    BY DEF TkInv
  <1>2. QED
    BY <1>1 DEF Sent, Ended

\* Every step of a delivery keeps the records true (trigger_tracker.py).
LEMMA TkInvStep == TkInv /\ TkNext => TkInv'
  <1> SUFFICES ASSUME TkInv, NEW d \in TkDeliveries,
                      \/ Refused(d) \/ Verified(d) \/ Accept(d) \/ Start(d)
                      \/ EndRun(d) \/ RespondToTrigger(d)
               PROVE  TkInv'
    BY DEF TkNext
  <1>1. CASE Refused(d)
    <2>1. ASSUME NEW x \in TkRuns PROVE EntryTrue(x)'
      <3>1. Sent(x)' = Sent(x) /\ Ended(x)' = Ended(x)
        BY <1>1 DEF Refused, Sent, Ended, TkInv
      <3>2. QED
        BY <1>1, <3>1, EntryStays DEF Refused, TkInv
    <2>2. QED
      BY <1>1, <2>1 DEF Refused, TkInv
  <1>2. CASE Verified(d)
    <2>1. ASSUME NEW x \in TkRuns PROVE EntryTrue(x)'
      <3>1. Sent(x)' = Sent(x) /\ Ended(x)' = Ended(x)
        BY <1>2 DEF Verified, Sent, Ended, TkInv
      <3>2. QED
        BY <1>2, <3>1, EntryStays DEF Verified, TkInv
    <2>2. QED
      BY <1>2, <2>1 DEF Verified, TkInv
  <1>3. CASE Accept(d)
    <2>1. PICK x \in TkRuns : x = tkRun[d]
      BY <1>3 DEF Accept, TkInv
    <2>2. "accepted" \in TkStatuses /\ RecordStatus(x, "accepted")
      BY <1>3, <2>1 DEF Accept, TkStatuses
    <2>3. \A y \in TkRuns : /\ Sent(y)' = IF y = x THEN Sent(y) \cup {d} ELSE Sent(y)
                            /\ Ended(y)' = Ended(y)
      <3> SUFFICES ASSUME NEW y \in TkRuns
                   PROVE  /\ Sent(y)' = IF y = x THEN Sent(y) \cup {d} ELSE Sent(y)
                          /\ Ended(y)' = Ended(y)
        OBVIOUS
      <3>1. Sent(y) \ {d} = Sent(y) /\ Ended(y) \ {d} = Ended(y)
        BY <1>3 DEF Accept, Sent, Ended
      <3>2. tkPc' = [tkPc EXCEPT ![d] = "accepted"] /\ UNCHANGED tkRun
        BY <1>3 DEF Accept
      <3>3. /\ Sent(y)' = IF /\ "accepted" \in {"accepted", "running", "recorded", "done"}
                             /\ tkRun[d] = y
                         THEN Sent(y) \cup {d} ELSE Sent(y) \ {d}
            /\ Ended(y)' = IF "accepted" \in {"recorded", "done"} /\ tkRun[d] = y
                          THEN Ended(y) \cup {d} ELSE Ended(y) \ {d}
        BY <3>2, OneDelivery, Zenon
      <3>4. QED
        BY <2>1, <3>1, <3>3
    <2>4. d \notin Sent(x)
      BY <1>3 DEF Accept, Sent
    <2>5. ASSUME NEW y \in TkRuns, y # x PROVE EntryTrue(y)'
      BY <2>2, <2>3, <2>5, StatusRecorded, EntryStays DEF TkInv
    <2>6. EntryTrue(x)'
      <3>1. /\ IsFiniteSet(Sent(x)) /\ Count(x, {"accepted"}) = Cardinality(Sent(x))
            /\ Count(x, {"completed", "failed"}) = Cardinality(Ended(x))
        BY DEF TkInv, EntryTrue
      <3>2. IsFiniteSet(Sent(x)') /\ Cardinality(Sent(x)') = Cardinality(Sent(x)) + 1
        BY <2>3, <2>4, <3>1, OneMore
      <3>3. Count(x, {"accepted"})' = Count(x, {"accepted"}) + 1
        BY <2>2, StatusRecorded
      <3>4. Count(x, {"completed", "failed"})' = Count(x, {"completed", "failed"}) + 0
        BY <2>2, StatusRecorded
      <3>5. Cardinality(Ended(x)) \in Nat
        BY <3>1, FS_Subset, FS_CardinalityType DEF Ended
      <3>6. d \in Sent(x)' /\ d \notin Ended(x)'
        BY <2>3, <2>4 DEF Ended
      <3>7. QED
        BY <2>3, <3>1, <3>2, <3>3, <3>4, <3>5, <3>6 DEF EntryTrue
    <2>7. QED
      BY <1>3, <2>2, <2>5, <2>6, StatusRecorded DEF Accept, TkInv
  <1>4. CASE Start(d)
    <2>1. PICK x \in TkRuns : x = tkRun[d]
      BY <1>4 DEF Start, TkInv
    <2>2. "running" \in TkStatuses /\ RecordStatus(x, "running")
      BY <1>4, <2>1 DEF Start, TkStatuses
    <2>3. \A y \in TkRuns : Sent(y)' = Sent(y) /\ Ended(y)' = Ended(y)
      BY <1>4, <2>1, OneDelivery DEF Start, Sent, Ended
    <2>4. d \in Sent(x)
      BY <1>4, <2>1 DEF Start, Sent
    <2>5. ASSUME NEW y \in TkRuns, y # x PROVE EntryTrue(y)'
      BY <2>2, <2>3, <2>5, StatusRecorded, EntryStays DEF TkInv
    <2>6. EntryTrue(x)'
      <3>1. /\ IsFiniteSet(Sent(x)) /\ Count(x, {"accepted"}) = Cardinality(Sent(x))
            /\ Count(x, {"completed", "failed"}) = Cardinality(Ended(x))
        BY DEF TkInv, EntryTrue
      <3>2. Cardinality(Sent(x)) \in Nat /\ Cardinality(Ended(x)) \in Nat
        BY <3>1, FS_Subset, FS_CardinalityType DEF Ended
      <3>3. Count(x, {"accepted"})' = Count(x, {"accepted"}) + 0
        BY <2>2, StatusRecorded
      <3>4. Count(x, {"completed", "failed"})' = Count(x, {"completed", "failed"}) + 0
        BY <2>2, StatusRecorded
      <3>5. d \in Sent(x)' /\ d \notin Ended(x)'
        BY <1>4, <2>3, <2>4 DEF Ended, Start
      <3>6. QED
        BY <2>3, <3>1, <3>2, <3>3, <3>4, <3>5 DEF EntryTrue
    <2>7. QED
      BY <1>4, <2>2, <2>5, <2>6, StatusRecorded DEF Start, TkInv
  <1>5. CASE EndRun(d)
    <2>1. PICK x \in TkRuns : x = tkRun[d]
      BY <1>5 DEF EndRun, TkInv
    <2>2. PICK s \in {"completed", "failed"} :
              RecordStatus(x, s) /\ tkOwn' = [tkOwn EXCEPT ![d] = s]
      BY <1>5, <2>1 DEF EndRun
    <2>3. s \in TkStatuses
      BY DEF TkStatuses
    <2>4. tkEntry'[x].status = s
      BY <2>2, <2>3, StatusRecorded
    <2>5. tkAnswer' = [tkAnswer EXCEPT ![d] = s]
      BY <1>5, <2>1, <2>4 DEF EndRun
    <2>6. \A y \in TkRuns : /\ Sent(y)' = Sent(y)
                            /\ Ended(y)' = IF y = x THEN Ended(y) \cup {d} ELSE Ended(y)
      <3> SUFFICES ASSUME NEW y \in TkRuns
                   PROVE  /\ Sent(y)' = Sent(y)
                          /\ Ended(y)' = IF y = x THEN Ended(y) \cup {d} ELSE Ended(y)
        OBVIOUS
      <3>1. /\ Sent(y) = IF tkRun[d] = y THEN Sent(y) \cup {d} ELSE Sent(y) \ {d}
            /\ Ended(y) \ {d} = Ended(y)
        BY <1>5 DEF EndRun, Sent, Ended
      <3>2. tkPc' = [tkPc EXCEPT ![d] = "recorded"] /\ UNCHANGED tkRun
        BY <1>5 DEF EndRun
      <3>3. /\ Sent(y)' = IF tkRun[d] = y THEN Sent(y) \cup {d} ELSE Sent(y) \ {d}
            /\ Ended(y)' = IF tkRun[d] = y THEN Ended(y) \cup {d} ELSE Ended(y) \ {d}
        BY <3>2, OneDelivery
      <3>4. QED
        BY <2>1, <3>1, <3>3
    <2>7. d \notin Ended(x)
      BY <1>5 DEF EndRun, Ended
    <2>8. ASSUME NEW y \in TkRuns, y # x PROVE EntryTrue(y)'
      BY <2>2, <2>3, <2>6, <2>8, StatusRecorded, EntryStays DEF TkInv
    <2>9. EntryTrue(x)'
      <3>1. /\ IsFiniteSet(Sent(x)) /\ Count(x, {"accepted"}) = Cardinality(Sent(x))
            /\ Count(x, {"completed", "failed"}) = Cardinality(Ended(x))
        BY DEF TkInv, EntryTrue
      <3>2. IsFiniteSet(Ended(x)) /\ Cardinality(Sent(x)) \in Nat
        BY <3>1, FS_Subset, FS_CardinalityType DEF Ended
      <3>3. Cardinality(Ended(x)') = Cardinality(Ended(x)) + 1
        BY <2>6, <2>7, <3>2, OneMore
      <3>4. Count(x, {"accepted"})' = Count(x, {"accepted"}) + 0
        BY <2>2, <2>3, StatusRecorded
      <3>5. Count(x, {"completed", "failed"})' = Count(x, {"completed", "failed"}) + 1
        BY <2>2, <2>3, StatusRecorded
      <3>6. QED
        BY <2>4, <2>6, <3>1, <3>2, <3>3, <3>4, <3>5 DEF EntryTrue
    <2>10. QED
      BY <1>5, <2>2, <2>3, <2>5, <2>8, <2>9, StatusRecorded DEF EndRun, TkInv
  <1>6. CASE RespondToTrigger(d)
    <2>1. ASSUME NEW x \in TkRuns PROVE EntryTrue(x)'
      <3>1. Sent(x)' = Sent(x) /\ Ended(x)' = Ended(x)
        BY <1>6 DEF RespondToTrigger, Sent, Ended, TkInv
      <3>2. QED
        BY <1>6, <3>1, EntryStays DEF RespondToTrigger, TkInv
    <2>2. QED
      BY <1>6, <2>1 DEF RespondToTrigger, TkInv
  <1>7. QED
    BY <1>1, <1>2, <1>3, <1>4, <1>5, <1>6

\* Duplicated deliveries of a trigger write over each other's record and leave
\* an end, a full history and their own answers (TriggerTracker.record).
THEOREM RunsAreTracked == Spec => []RunsAddUp
  <1>1. Init => TkInv
    BY TkInvInit DEF Init
  <1>2. TkInv /\ [Next]_Everything => TkInv'
    <2>1. ASSUME [Next]_Everything PROVE TkNext \/ UNCHANGED tkVars
      BY <2>1 DEF Next, Everything
    <2>2. ASSUME TkInv, UNCHANGED tkVars PROVE TkInv'
      <3>1. \A x \in TkRuns : Sent(x)' = Sent(x) /\ Ended(x)' = Ended(x)
        BY <2>2 DEF tkVars, Sent, Ended
      <3>2. \A x \in TkRuns : EntryTrue(x)'
        BY <2>2, <3>1, EntryStays DEF tkVars, TkInv
      <3>3. QED
        BY <2>2, <3>2 DEF tkVars, TkInv
    <2>3. QED
      BY <2>1, <2>2, TkInvStep
  <1>3. TkInv => RunsAddUp
    <2> SUFFICES ASSUME TkInv PROVE RunsAddUp
      OBVIOUS
    <2>1. \A x \in TkRuns : Ended(x) = {d \in Sent(x) : tkPc[d] \in {"recorded", "done"}}
      BY DEF Ended
    <2>2. QuietRunSettled
      <3>1. SUFFICES ASSUME NEW x \in TkRuns, Sent(x) # {},
                            \A d \in Sent(x) : tkPc[d] \in {"recorded", "done"}
                     PROVE  tkEntry[x].status \in {"completed", "failed"}
        BY DEF QuietRunSettled
      <3>2. Sent(x) = Ended(x)
        BY <2>1, <3>1
      <3>3. EntryTrue(x)
        BY DEF TkInv
      <3>4. QED
        BY <3>1, <3>2, <3>3 DEF EntryTrue
    <2>3. HistoryComplete
      BY <2>1 DEF TkInv, EntryTrue, HistoryComplete
    <2>4. AnswerIsOwn
      BY DEF TkInv, AnswerIsOwn
    <2>5. QED
      BY <2>2, <2>3, <2>4 DEF RunsAddUp
  <1>4. QED
    BY <1>1, <1>2, <1>3, PTL DEF Spec

-----------------------------------------------------------------------------
(***************************************************************************)
(* The search index                                                        *)
(***************************************************************************)
\* What is said of a deployment.
Reports == [pc : {"idle", "ensure", "count", "delete", "again"}, recreate : BOOLEAN,
            report : {"none", "error", "ensured", "recreated"}]

\* What is stored, and what a deployment that is running may still drop.
IxInv ==
    /\ azSchema \in [Names -> {"none", "old", Schema}]
    /\ azDocs \in [Names -> SUBSET AzSessions]
    /\ azEnvs = [s \in AzSessions |-> azEnvs[s]]
    /\ azGlobal \in 0..AzResources /\ azOwed \subseteq AzSessions
    /\ azIngest = NoIngest \/ /\ azIngest.session \in AzSessions
                              /\ azIngest.index \in {"base", AzSlug[azIngest.session]}
    /\ azDeploy \in Reports
    /\ azDeploy.pc # "idle" => azDeploy.report = "none"
    /\ azDeploy.pc \in {"delete", "again"} => azBefore = {} \/ azDeploy.recreate
    /\ IndexKept

\* A session's index is the shared one or its slug's, never both.
LEMMA IndexesAreNamed ==
    ASSUME NEW s \in AzSessions, NEW isolation
    PROVE  /\ IndexName(s, isolation) \in {"base", AzSlug[s]} /\ IndexName(s, isolation) \in Names
           /\ "base" \in Names /\ AzSlug[s] \in Names /\ AzSlug[s] # "base"
           /\ isolation # "filter" => IndexName(s, isolation) = AzSlug[s]
  BY AzAssumption DEF IndexName, Names

LEMMA IxInvInit == AzInit => IxInv
  <1> SUFFICES ASSUME AzInit PROVE IxInv
    OBVIOUS
  <1>1. azSchema \in [Names -> {"none", "old", Schema}]
    <2>1. [n \in Names |-> "none"] \in [Names -> {"none", "old", Schema}]
      OBVIOUS
    <2>2. [[n \in Names |-> "none"] EXCEPT !["base"] = "old"] \in [Names -> {"none", "old", Schema}]
      OBVIOUS
    <2>3. QED
      BY <2>1, <2>2 DEF AzInit
  <1>2. azGlobal \in 0..AzResources
    BY AzAssumption DEF AzInit
  <1>3. azEnvs = [s \in AzSessions |-> azEnvs[s]]
    BY DEF AzInit
  <1>4. DeployKeeps
    BY DEF AzInit, DeployKeeps
  <1>5. SessionsKeep
    BY DEF AzInit, SessionsKeep, NoEnv
  <1>6. azDocs \in [Names -> SUBSET AzSessions]
    BY DEF AzInit
  <1>7. QED
    BY <1>1, <1>2, <1>3, <1>4, <1>5, <1>6 DEF AzInit, IxInv, IndexKept, Reports

\* A session's requests leave the shared index and other sessions' alone.
LEMMA SessionSteps ==
    ASSUME IxInv, NEW s \in AzSessions,
           \/ \E q \in AzRequests : CreateEnvironment(s, q) \/ CreateFails(s, q)
           \/ IngestVideo(s) \/ Teardown(s)
    PROVE  IxInv'
  <1>0. AzResources \in Nat /\ azGlobal \in 0..AzResources
    BY AzAssumption DEF IxInv
  <1>1. CASE \E q \in AzRequests : CreateFails(s, q)
    <2>1. azGlobal' \in 0..AzResources /\ azGlobal # AzResources
      BY <1>0, <1>1 DEF CreateFails
    <2>2. \A t \in AzSessions : ~(azEnvs[t].global /\ azEnvs[t].mode = "sdk")
      BY <2>1 DEF IxInv, IndexKept, SessionsKeep
    <2>3. QED
      BY <1>1, <2>1, <2>2 DEF CreateFails, IxInv, IndexKept, SessionsKeep, DeployKeeps
  <1>2. CASE \E q \in AzRequests : CreateEnvironment(s, q)
    <2>1. PICK q \in AzRequests : CreateEnvironment(s, q)
      BY <1>2
    <2>2. PICK env : env = [isolation |-> Or(q.isolation, azConfig.isolation),
                            mode |-> Provisioner(Or(q.mode, AutoMode)), global |-> q.global]
      OBVIOUS
    <2>3. PICK n : n = IndexName(s, env.isolation)
      OBVIOUS
    <2>4. PICK schema : /\ schema \in (IF Online(env.mode) THEN Ensured(n) ELSE {azSchema[n]})
                        /\ azSchema' = [azSchema EXCEPT ![n] = schema]
      BY <2>1, <2>2, <2>3 DEF CreateEnvironment
    <2>5. /\ azGlobal' = IF q.global /\ env.mode = "sdk" THEN AzResources ELSE azGlobal
          /\ azEnvs' = [azEnvs EXCEPT ![s] = env]
          /\ UNCHANGED <<azConfig, azDocs, azIngest, azAgent, azDeploy, azBefore, azOwed>>
      BY <2>1, <2>2 DEF CreateEnvironment
    <2>6. n \in Names /\ azSchema[n] \in {"none", "old", Schema}
      BY <2>3, IndexesAreNamed DEF IxInv
    <2>7. /\ schema \in {"none", "old", Schema}
          /\ azSchema[n] = Schema => schema = Schema
      BY <2>4, <2>6 DEF Ensured, Schema
    <2>8. /\ azSchema' \in [Names -> {"none", "old", Schema}]
          /\ azSchema["base"] = Schema => azSchema'["base"] = Schema
      BY <2>4, <2>6, <2>7, IndexesAreNamed DEF IxInv
    <2>9. DeployKeeps'
      BY <2>5, <2>8 DEF IxInv, IndexKept, DeployKeeps
    <2>10. azEnvs' = [t \in AzSessions |-> azEnvs'[t]]
      BY <2>5 DEF IxInv
    <2>11. azGlobal' \in 0..AzResources /\ (azGlobal = AzResources => azGlobal' = AzResources)
      BY <1>0, <2>5
    <2>12. SessionsKeep'
      <3>1. \A t \in azOwed' : t \in azDocs'[AzSlug[t]]
        BY <2>5 DEF IxInv, IndexKept, SessionsKeep
      <3>2. azEnvs'[s] = env /\ \A t \in AzSessions \ {s} : azEnvs'[t] = azEnvs[t]
        BY <2>5 DEF IxInv
      <3>3. env.global /\ env.mode = "sdk" => azGlobal' = AzResources
        BY <2>2, <2>5
      <3>4. \A t \in AzSessions :
                azEnvs'[t].global /\ azEnvs'[t].mode = "sdk" => azGlobal' = AzResources
        BY <2>11, <3>2, <3>3 DEF IxInv, IndexKept, SessionsKeep
      <3>5. QED
        BY <3>1, <3>4 DEF SessionsKeep
    <2>13. QED
      BY <2>5, <2>8, <2>9, <2>10, <2>11, <2>12 DEF IxInv, IndexKept
  <1>3. CASE IngestVideo(s)
    <2>1. PICK n : n = IndexName(s, azEnvs[s].isolation)
      OBVIOUS
    <2>2. azIngest' = [session |-> s, index |-> n] /\ n \in {"base", AzSlug[s]}
      BY <1>3, <2>1, IndexesAreNamed DEF IngestVideo
    <2>3. QED
      BY <1>3, <2>2 DEF IngestVideo, IxInv, IndexKept, SessionsKeep, DeployKeeps
  <1>4. CASE Teardown(s)
    <2>1. PICK isolation : isolation = IF azEnvs[s] # NoEnv THEN azEnvs[s].isolation
                                       ELSE azConfig.isolation
      OBVIOUS
    <2>2. PICK n : n = IndexName(s, isolation)
      OBVIOUS
    <2>3. \/ /\ isolation # "filter"
             /\ azSchema' = [azSchema EXCEPT ![n] = "none"]
             /\ azDocs' = [azDocs EXCEPT ![n] = {}]
          \/ UNCHANGED <<azSchema, azDocs>>
      BY <1>4, <2>1, <2>2 DEF Teardown
    <2>4. /\ azEnvs' = [azEnvs EXCEPT ![s] = NoEnv]
          /\ azOwed' = {t \in azOwed : AzSlug[t] # AzSlug[s]}
          /\ UNCHANGED <<azConfig, azGlobal, azIngest, azAgent, azDeploy, azBefore>>
      BY <1>4 DEF Teardown
    <2>5. /\ azSchema' \in [Names -> {"none", "old", Schema}]
          /\ azDocs' \in [Names -> SUBSET AzSessions]
      BY <2>3 DEF IxInv
    <2>6. azSchema'["base"] = azSchema["base"] /\ azDocs'["base"] = azDocs["base"]
      BY <2>2, <2>3, IndexesAreNamed DEF IxInv
    <2>7. \A t \in azOwed' : t \in azDocs'[AzSlug[t]]
      <3>1. SUFFICES ASSUME NEW t \in azOwed, AzSlug[t] # AzSlug[s]
                     PROVE  t \in azDocs'[AzSlug[t]]
        BY <2>4
      <3>2. t \in azDocs[AzSlug[t]] /\ AzSlug[t] \in Names
        BY IndexesAreNamed DEF IxInv, IndexKept, SessionsKeep
      <3>3. azDocs'[AzSlug[t]] = azDocs[AzSlug[t]]
        BY <2>2, <2>3, <3>1, <3>2, IndexesAreNamed DEF IxInv
      <3>4. QED
        BY <3>2, <3>3
    <2>8. /\ azEnvs' = [t \in AzSessions |-> azEnvs'[t]]
          /\ \A t \in AzSessions : azEnvs'[t] = azEnvs[t] \/ ~azEnvs'[t].global
      BY <2>4 DEF IxInv, NoEnv
    <2>9. SessionsKeep'
      BY <2>4, <2>7, <2>8 DEF IxInv, IndexKept, SessionsKeep
    <2>10. DeployKeeps'
      BY <2>4, <2>6 DEF IxInv, IndexKept, DeployKeeps
    <2>11. QED
      BY <2>4, <2>5, <2>8, <2>9, <2>10 DEF IxInv, IndexKept
  <1>5. QED
    BY <1>1, <1>2, <1>3, <1>4

\* Ingestion, questions and restarts.
LEMMA IngestSteps == IxInv /\ (Upload \/ Ask \/ Restart) => IxInv'
  <1> SUFFICES ASSUME IxInv, Upload \/ Ask \/ Restart PROVE IxInv'
    OBVIOUS
  <1>1. CASE Upload
    <2>1. PICK s \in AzSessions : s = azIngest.session /\ azIngest.index \in {"base", AzSlug[s]}
      BY <1>1 DEF Upload, IxInv
    <2> DEFINE n == azIngest.index
    <2>2. n \in Names
      BY <2>1, IndexesAreNamed
    <2>3. CASE /\ azDocs' = [azDocs EXCEPT ![n] = @ \cup {s}]
               /\ azOwed' = IF n = "base" THEN azOwed ELSE azOwed \cup {s}
               /\ UNCHANGED azIngest
      <3>1. /\ azDocs' \in [Names -> SUBSET AzSessions]
            /\ \A m \in Names : azDocs[m] \subseteq azDocs'[m]
            /\ s \in azDocs'[n]
        BY <2>2, <2>3 DEF IxInv
      <3>2. azOwed' \subseteq AzSessions /\ \A t \in azOwed' : t \in azDocs'[AzSlug[t]]
        BY <2>1, <2>3, <3>1, IndexesAreNamed DEF IxInv, IndexKept, SessionsKeep
      <3>3. DeployKeeps'
        BY <1>1, <3>1, IndexesAreNamed DEF Upload, IxInv, IndexKept, DeployKeeps
      <3>4. SessionsKeep'
        BY <1>1, <3>2 DEF Upload, IxInv, IndexKept, SessionsKeep
      <3>5. QED
        BY <1>1, <2>3, <3>1, <3>2, <3>3, <3>4 DEF Upload, IxInv, IndexKept
    <2>4. CASE azIngest' = NoIngest /\ UNCHANGED <<azDocs, azOwed>>
      BY <1>1, <2>4 DEF Upload, IxInv, IndexKept, SessionsKeep, DeployKeeps, NoIngest
    <2>5. QED
      BY <1>1, <2>1, <2>3, <2>4 DEF Upload
  <1>2. CASE Ask
    BY <1>2 DEF Ask, IxInv, IndexKept, SessionsKeep, DeployKeeps, NoIngest
  <1>3. CASE Restart
    <2>1. azEnvs' = [t \in AzSessions |-> NoEnv] /\ \A t \in AzSessions : ~azEnvs'[t].global
      BY <1>3 DEF Restart, NoEnv
    <2>2. QED
      BY <1>3, <2>1 DEF Restart, IxInv, IndexKept, SessionsKeep, DeployKeeps, NoIngest
  <1>4. QED
    BY <1>1, <1>2, <1>3

\* A step of a deployment that leaves the sessions' indexes alone keeps what
\* sessions have, and owes the shared index what DeployKeeps says.
LEMMA DeployStep ==
    ASSUME IxInv, UNCHANGED <<azGlobal, azEnvs, azIngest, azOwed>>,
           azSchema' \in [Names -> {"none", "old", Schema}],
           azDocs' \in [Names -> SUBSET AzSessions],
           \A n \in Names \ {"base"} : azDocs'[n] = azDocs[n],
           azDeploy' \in Reports,
           azDeploy'.pc # "idle" => azDeploy'.report = "none",
           azDeploy'.pc \in {"delete", "again"} => azBefore' = {} \/ azDeploy'.recreate,
           DeployKeeps'
    PROVE  IxInv'
  <1>1. \A s \in AzSessions : azDocs'[AzSlug[s]] = azDocs[AzSlug[s]]
    BY IndexesAreNamed
  <1>2. SessionsKeep'
    BY <1>1 DEF IxInv, IndexKept, SessionsKeep
  <1>3. QED
    BY <1>2 DEF IxInv, IndexKept, Reports, NoIngest

\* Where a step of a deployment may go.
LEMMA DeployGoes ==
    ASSUME IxInv, NEW pc \in {"count", "delete", "again"}, DeployMoves(pc), azDeploy.pc # "idle"
    PROVE  /\ azDeploy' \in Reports /\ azDeploy'.report = "none" /\ azDeploy'.pc = pc
           /\ azDeploy'.recreate = azDeploy.recreate
           /\ UNCHANGED <<azGlobal, azEnvs, azIngest, azOwed, azBefore>>
  BY DEF IxInv, DeployMoves, Reports

\* Where it ends; then nothing is owed any more.
LEMMA DeployStops ==
    ASSUME NEW report \in {"error", "ensured", "recreated"}, DeployEnds(report)
    PROVE  /\ azDeploy' \in Reports /\ azDeploy'.pc = "idle" /\ azDeploy'.report = report
           /\ UNCHANGED <<azGlobal, azEnvs, azIngest, azOwed>> /\ azBefore' = {}
  BY DEF DeployEnds, Reports

\* A deployment drops the shared index when it held nothing or was told to.
LEMMA DeploySteps ==
    ASSUME IxInv,
           \/ \E recreate \in BOOLEAN : DeployStart(recreate)
           \/ DeployEnsure \/ DeployCount \/ DeployDelete \/ DeployAgain
    PROVE  IxInv'
  <1>0. /\ azSchema \in [Names -> {"none", "old", Schema}]
        /\ azDocs \in [Names -> SUBSET AzSessions] /\ "base" \in Names /\ DeployKeeps
    BY DEF IxInv, IndexKept, Names
  <1>1. CASE \E recreate \in BOOLEAN : DeployStart(recreate)
    <2>1. PICK recreate \in BOOLEAN : DeployStart(recreate)
      BY <1>1
    <2>2. /\ azDeploy' = [pc |-> "ensure", recreate |-> recreate, report |-> "none"]
          /\ azBefore' = azDocs["base"]
          /\ UNCHANGED <<azSchema, azDocs, azGlobal, azEnvs, azIngest, azOwed>>
      BY <2>1 DEF DeployStart
    <2>3. /\ azDeploy' \in Reports /\ azDeploy'.pc = "ensure" /\ azDeploy'.report = "none"
      BY <2>2 DEF Reports
    <2>4. DeployKeeps'
      BY <2>2, <2>3 DEF DeployKeeps
    <2>5. QED
      BY <1>0, <2>2, <2>3, <2>4, DeployStep
  <1>2. CASE DeployEnsure
    <2>1. CASE /\ azSchema' = [azSchema EXCEPT !["base"] = Schema] /\ DeployEnds("ensured")
      <3>1. azSchema' \in [Names -> {"none", "old", Schema}] /\ azSchema'["base"] = Schema
        BY <1>0, <2>1
      <3>2. UNCHANGED azDocs
        BY <1>2 DEF DeployEnsure
      <3>3. DeployKeeps'
        BY <2>1, <3>1, DeployStops DEF DeployKeeps
      <3>4. QED
        BY <1>0, <2>1, <3>1, <3>2, <3>3, DeployStops, DeployStep
    <2>2. CASE UNCHANGED azSchema /\ DeployMoves("count")
      <3>1. UNCHANGED azDocs /\ azDeploy.pc # "idle"
        BY <1>2 DEF DeployEnsure
      <3>2. DeployKeeps'
        BY <1>0, <2>2, <3>1, DeployGoes DEF DeployKeeps
      <3>3. QED
        BY <1>0, <2>2, <3>1, <3>2, DeployGoes, DeployStep
    <2>3. QED
      BY <1>2, <2>1, <2>2 DEF DeployEnsure
  <1>3. CASE DeployCount
    <2>0. UNCHANGED <<azSchema, azDocs>> /\ azDeploy.pc # "idle"
      BY <1>3 DEF DeployCount
    <2>1. CASE DeployEnds("error")
      <3>1. DeployKeeps'
        BY <2>1, DeployStops DEF DeployKeeps
      <3>2. QED
        BY <1>0, <2>0, <2>1, <3>1, DeployStops, DeployStep
    <2>2. CASE (azDocs["base"] = {} \/ azDeploy.recreate) /\ DeployMoves("delete")
      <3>1. azBefore' = {} \/ azDeploy'.recreate
        BY <1>0, <2>0, <2>2, DeployGoes DEF DeployKeeps
      <3>2. DeployKeeps'
        BY <1>0, <2>0, <2>2, DeployGoes DEF DeployKeeps
      <3>3. QED
        BY <1>0, <2>0, <2>2, <3>1, <3>2, DeployGoes, DeployStep
    <2>3. QED
      BY <1>3, <2>1, <2>2 DEF DeployCount
  <1>4. CASE DeployDelete
    <2>1. CASE UNCHANGED <<azSchema, azDocs>> /\ DeployEnds("error")
      <3>1. DeployKeeps'
        BY <2>1, DeployStops DEF DeployKeeps
      <3>2. QED
        BY <1>0, <2>1, <3>1, DeployStops, DeployStep
    <2>2. CASE /\ azSchema' = [azSchema EXCEPT !["base"] = "none"]
               /\ azDocs' = [azDocs EXCEPT !["base"] = {}]
               /\ DeployMoves("again")
      <3>1. azDeploy.pc = "delete" /\ (azBefore = {} \/ azDeploy.recreate)
        BY <1>4 DEF DeployDelete, IxInv
      <3>2. /\ azSchema' \in [Names -> {"none", "old", Schema}]
            /\ azDocs' \in [Names -> SUBSET AzSessions]
            /\ \A n \in Names \ {"base"} : azDocs'[n] = azDocs[n]
        BY <1>0, <2>2
      <3>3. DeployKeeps'
        BY <2>2, <3>1, DeployGoes DEF DeployKeeps
      <3>4. azBefore' = {} \/ azDeploy'.recreate
        BY <2>2, <3>1, DeployGoes
      <3>5. QED
        BY <2>2, <3>1, <3>2, <3>3, <3>4, DeployGoes, DeployStep
    <2>3. QED
      BY <1>4, <2>1, <2>2 DEF DeployDelete
  <1>5. CASE DeployAgain
    <2>1. UNCHANGED azDocs
      BY <1>5 DEF DeployAgain
    <2>2. CASE azSchema' = [azSchema EXCEPT !["base"] = Schema] /\ DeployEnds("recreated")
      <3>1. azSchema' \in [Names -> {"none", "old", Schema}] /\ azSchema'["base"] = Schema
        BY <1>0, <2>2
      <3>2. DeployKeeps'
        BY <2>2, <3>1, DeployStops DEF DeployKeeps
      <3>3. QED
        BY <1>0, <2>1, <2>2, <3>1, <3>2, DeployStops, DeployStep
    <2>3. CASE UNCHANGED azSchema /\ DeployEnds("error")
      <3>1. DeployKeeps'
        BY <2>3, DeployStops DEF DeployKeeps
      <3>2. QED
        BY <1>0, <2>1, <2>3, <3>1, DeployStops, DeployStep
    <2>4. QED
      BY <1>5, <2>2, <2>3 DEF DeployAgain
  <1>6. QED
    BY <1>1, <1>2, <1>3, <1>4, <1>5

\* Whatever sessions and deployments do to the indexes, they keep that.
LEMMA IxInvStep == IxInv /\ AzNext => IxInv'
  BY SessionSteps, IngestSteps, DeploySteps DEF AzNext

LEMMA IxInvStays == IxInv /\ UNCHANGED azVars => IxInv'
  BY DEF azVars, IxInv, IndexKept, SessionsKeep, DeployKeeps, NoIngest

-----------------------------------------------------------------------------
(***************************************************************************)
(* Registration                                                            *)
(***************************************************************************)
\* Parts of a definition, versions of an agent and classic agents.
Parts3 == [instructions : Nat, functions : Nat, schema : Nat]
VersionsOf == [spec : Parts3, seen : Nat]
Classics == [spec : Parts3, tool : BOOLEAN]

\* What a deployment remembers.
Deployments == [pc : {"new", "get", "post", "list", "update", "done"}, spec : Parts3,
                dry : BOOLEAN, only : SUBSET RgAgents, next : Nat, saw : Nat,
                start : [RgAgents -> Nat], copy : Seq(Classics), at : Nat, errors : BOOLEAN]

\* The definition of a deployment was the latest version of an agent while it ran.
WasLatest(d, n) ==
    \E v \in DOMAIN rgVersions[n] :
        v >= rgDeploy[d].start[n] /\ rgVersions[n][v].spec = rgDeploy[d].spec

\* A deployment found or left right each agent it is to sync and is past.
PastAreRight(d) ==
    \/ rgDeploy[d].errors \/ rgDeploy[d].dry
    \/ \A i \in 1..Len(RgNames) :
           i < rgDeploy[d].next /\ RgNames[i] \in rgDeploy[d].only => WasLatest(d, RgNames[i])

\* What a deployment knows: of the agent it is at, what it saw of its versions;
\* of the classic agents it is to write, a copy with the tools people gave before.
DeployKnows(d) ==
    /\ rgDeploy[d].pc # "new" =>
           /\ \A n \in RgAgents : rgDeploy[d].start[n] <= Len(rgVersions[n])
           /\ PastAreRight(d)
    /\ rgDeploy[d].pc \in {"get", "post"} => rgDeploy[d].next \in 1..Len(RgNames)
    /\ rgDeploy[d].pc \in {"list", "update", "done"} => rgDeploy[d].next = Len(RgNames) + 1
    /\ rgDeploy[d].pc = "post" =>
           LET versions == rgVersions[Current(d)] IN
           /\ rgDeploy[d].saw <= Len(versions)
           /\ rgDeploy[d].saw > 0 => versions[rgDeploy[d].saw].spec # rgDeploy[d].spec
    /\ rgDeploy[d].pc = "update" =>
           Len(rgDeploy[d].copy) <= Len(rgClassic) /\ rgDeploy[d].at > 0
    /\ \A id \in rgKept : WillWrite(d, id) => rgDeploy[d].copy[id].tool

\* Threads that found no agent and will make one.
Makers == {c \in RgChats : rgChat[c].searched /\ rgChat[c].id = 0}

RegInv ==
    /\ rgVersions \in [RgAgents -> Seq(VersionsOf)]
    /\ rgClassic \in Seq(Classics)
    /\ rgDeploy \in [RgDeploys -> Deployments]
    /\ rgChat \in [RgChats -> [id : {0, 1}, searched : BOOLEAN, instructions : Nat]]
    /\ rgKept \subseteq DOMAIN rgClassic
    /\ NoIdleVersion
    /\ \A d \in RgDeploys : DeployKnows(d)
    /\ \A id \in rgKept : rgClassic[id].tool
    /\ \A c \in RgChats : rgChat[c].id = 1 => rgClassic # <<>>
    /\ Len(rgClassic) + Cardinality(Makers) <= Cardinality(RgChats)

\* The list of names is not empty, and each of its places names an agent.
LEMMA NamesListed ==
    /\ Len(RgNames) \in Nat /\ Len(RgNames) >= 1
    /\ \A i \in 1..Len(RgNames) : RgNames[i] \in RgAgents
    /\ \A n \in RgAgents : \E i \in 1..Len(RgNames) : RgNames[i] = n
  <1>1. RgNames \in Seq(RgAgents) /\ RgNames # <<>>
    BY RegistrationAssumption
  <1>2. Len(RgNames) \in Nat /\ Len(RgNames) >= 1 /\ DOMAIN RgNames = 1..Len(RgNames)
    BY <1>1, EmptySeq, LenProperties
  <1>3. \A i \in 1..Len(RgNames) : RgNames[i] \in RgAgents
    BY <1>1, ElementOfSeq
  <1>4. QED
    BY <1>2, <1>3 DEF RgAgents

\* Nobody takes a version away or changes one.
VersionsGrow ==
    \A n \in RgAgents :
        /\ Len(rgVersions[n]) <= Len(rgVersions'[n])
        /\ \A v \in DOMAIN rgVersions[n] : rgVersions'[n][v] = rgVersions[n][v]

\* Sequences of versions are as long as they are.
LEMMA VersionsCounted ==
    ASSUME RegInv, NEW n \in RgAgents
    PROVE  /\ rgVersions[n] \in Seq(VersionsOf) /\ Len(rgVersions[n]) \in Nat
           /\ DOMAIN rgVersions[n] = 1..Len(rgVersions[n])
  <1>1. rgVersions[n] \in Seq(VersionsOf)
    BY DEF RegInv
  <1>2. QED
    BY <1>1, LenProperties

\* What was the latest version once is in the history for good.
LEMMA LatestStays ==
    ASSUME RegInv, VersionsGrow, NEW d \in RgDeploys, NEW n \in RgAgents, WasLatest(d, n),
           rgDeploy'[d].start = rgDeploy[d].start, rgDeploy'[d].spec = rgDeploy[d].spec,
           rgVersions' \in [RgAgents -> Seq(VersionsOf)]
    PROVE  WasLatest(d, n)'
  <1>1. PICK v \in DOMAIN rgVersions[n] :
            v >= rgDeploy[d].start[n] /\ rgVersions[n][v].spec = rgDeploy[d].spec
    BY DEF WasLatest
  <1>2. /\ DOMAIN rgVersions[n] = 1..Len(rgVersions[n]) /\ Len(rgVersions[n]) \in Nat
        /\ DOMAIN rgVersions'[n] = 1..Len(rgVersions'[n]) /\ Len(rgVersions'[n]) \in Nat
    BY VersionsCounted, LenProperties
  <1>3. v \in DOMAIN rgVersions'[n] /\ rgVersions'[n][v] = rgVersions[n][v]
    BY <1>1, <1>2 DEF VersionsGrow
  <1>4. QED
    BY <1>1, <1>3 DEF WasLatest

\* The agents a deployment is past stay right.
LEMMA PastStaysRight ==
    ASSUME RegInv, VersionsGrow, NEW d \in RgDeploys, PastAreRight(d),
           rgDeploy'[d].start = rgDeploy[d].start, rgDeploy'[d].spec = rgDeploy[d].spec,
           rgDeploy'[d].only = rgDeploy[d].only, rgDeploy'[d].next = rgDeploy[d].next,
           rgDeploy'[d].dry = rgDeploy[d].dry, rgDeploy[d].errors => rgDeploy'[d].errors,
           rgVersions' \in [RgAgents -> Seq(VersionsOf)]
    PROVE  PastAreRight(d)'
  <1>1. \A n \in RgAgents : WasLatest(d, n) => WasLatest(d, n)'
    BY LatestStays
  <1>2. QED
    BY <1>1, NamesListed DEF PastAreRight

\* A deployment that does not move still knows what it knew, while versions
\* come, agents are made, and tools are kept of agents it is not to write.
LEMMA KnowledgeStays ==
    ASSUME RegInv, VersionsGrow, NEW d \in RgDeploys, rgDeploy'[d] = rgDeploy[d],
           rgVersions' \in [RgAgents -> Seq(VersionsOf)],
           rgClassic' \in Seq(Classics), Len(rgClassic) <= Len(rgClassic'),
           \A id \in rgKept' \ rgKept : ~WillWrite(d, id)
    PROVE  DeployKnows(d)'
  <1>1. DeployKnows(d) /\ rgDeploy[d] \in Deployments
    BY DEF RegInv
  <1>2. PastAreRight(d) => PastAreRight(d)'
    BY PastStaysRight
  <1>3. \A n \in RgAgents : /\ Len(rgVersions[n]) \in Nat /\ Len(rgVersions'[n]) \in Nat
                            /\ Len(rgVersions[n]) <= Len(rgVersions'[n])
                            /\ rgDeploy[d].start[n] \in Nat
    BY <1>1, VersionsCounted, LenProperties DEF VersionsGrow, Deployments
  <1>4. rgDeploy[d].pc # "new" => \A n \in RgAgents : rgDeploy[d].start[n] <= Len(rgVersions'[n])
    BY <1>1, <1>3 DEF DeployKnows
  <1>5. ASSUME rgDeploy[d].pc = "post"
        PROVE  LET versions == rgVersions'[Current(d)'] IN
               /\ rgDeploy[d].saw <= Len(versions)
               /\ rgDeploy[d].saw > 0 => versions[rgDeploy[d].saw].spec # rgDeploy[d].spec
    <2>1. Current(d) \in RgAgents /\ rgDeploy[d].saw \in Nat /\ Current(d)' = Current(d)
      BY <1>1, <1>5, NamesListed DEF DeployKnows, Deployments, Current
    <2>2. PICK n \in RgAgents : n = Current(d) /\ n = Current(d)'
      BY <2>1
    <2>3. /\ rgDeploy[d].saw <= Len(rgVersions[n])
          /\ rgDeploy[d].saw > 0 => rgVersions[n][rgDeploy[d].saw].spec # rgDeploy[d].spec
      BY <1>1, <1>5, <2>2, Zenon DEF DeployKnows
    <2>4. rgDeploy[d].saw > 0 => rgVersions'[n][rgDeploy[d].saw] = rgVersions[n][rgDeploy[d].saw]
      BY <2>1, <2>3, VersionsCounted DEF VersionsGrow
    <2>5. QED
      <3>1. rgDeploy[d].saw <= Len(rgVersions'[n])
        BY <1>3, <2>1, <2>3
      <3>2. rgDeploy[d].saw > 0 => rgVersions'[n][rgDeploy[d].saw].spec # rgDeploy[d].spec
        BY <2>3, <2>4
      <3>3. QED
        BY <2>2, <3>1, <3>2, Zenon
  <1>6. ASSUME rgDeploy[d].pc = "update"
        PROVE  Len(rgDeploy[d].copy) <= Len(rgClassic') /\ rgDeploy[d].at > 0
    <2>1. Len(rgDeploy[d].copy) \in Nat /\ Len(rgClassic) \in Nat /\ Len(rgClassic') \in Nat
      BY <1>1, LenProperties DEF RegInv, Deployments
    <2>2. QED
      BY <1>1, <1>6, <2>1 DEF DeployKnows
  <1>7. \A id \in rgKept' : WillWrite(d, id)' => rgDeploy'[d].copy[id].tool
    BY <1>1 DEF DeployKnows, WillWrite
  <1>8. QED
    BY <1>1, <1>2, <1>4, <1>5, <1>6, <1>7 DEF DeployKnows

\* What a deployment puts down is what it remembers.
LEMMA RowPut ==
    ASSUME RegInv, NEW d \in RgDeploys, NEW row \in Deployments, RgPut(d, row)
    PROVE  /\ rgDeploy' \in [RgDeploys -> Deployments] /\ rgDeploy'[d] = row
           /\ \A e \in RgDeploys \ {d} : rgDeploy'[e] = rgDeploy[e]
  BY DEF RegInv, RgPut

\* A deployment goes on to its next agent once it has found, written, left out
\* or given up on the one it is at.
LEMMA AgentDealtWith ==
    ASSUME RegInv, NEW d \in RgDeploys, rgDeploy[d].pc \in {"get", "post"},
           NEW failed \in BOOLEAN, NextAgent(d, failed),
           VersionsGrow, rgVersions' \in [RgAgents -> Seq(VersionsOf)],
           UNCHANGED <<rgClassic, rgKept>>,
           Wanted(d) =>
               \/ failed \/ rgDeploy[d].dry
               \/ \E v \in DOMAIN rgVersions'[Current(d)] :
                      /\ v >= rgDeploy[d].start[Current(d)]
                      /\ rgVersions'[Current(d)][v].spec = rgDeploy[d].spec
    PROVE  rgDeploy' \in [RgDeploys -> Deployments] /\ \A e \in RgDeploys : DeployKnows(e)'
  <1>1. /\ rgDeploy[d] \in Deployments /\ DeployKnows(d) /\ rgDeploy[d].next \in 1..Len(RgNames)
        /\ PastAreRight(d)
    BY DEF RegInv, DeployKnows
  <1>2. PICK len \in Nat : len = Len(RgNames) /\ rgDeploy[d].next \in 1..len
    BY <1>1, NamesListed
  <1>3. PICK row : row = [rgDeploy[d] EXCEPT
                              !.pc = IF rgDeploy[d].next = Len(RgNames) THEN "list" ELSE "get",
                              !.next = @ + 1, !.saw = 0, !.errors = @ \/ failed]
    OBVIOUS
  <1>4. /\ row \in Deployments /\ row.pc = IF rgDeploy[d].next = len THEN "list" ELSE "get"
        /\ row.next = rgDeploy[d].next + 1 /\ row.errors = (rgDeploy[d].errors \/ failed)
        /\ row.dry = rgDeploy[d].dry /\ row.start = rgDeploy[d].start
        /\ row.spec = rgDeploy[d].spec /\ row.only = rgDeploy[d].only
    <2>1. (rgDeploy[d].errors \/ failed) \in BOOLEAN
      OBVIOUS
    <2>2. (IF rgDeploy[d].next = Len(RgNames) THEN "list" ELSE "get") \in {"get", "list"}
      OBVIOUS
    <2>3. rgDeploy[d].next + 1 \in Nat
      BY <1>2
    <2>4. QED
      BY <1>1, <1>2, <1>3, <2>1, <2>2, <2>3 DEF Deployments
  <1>5. RgPut(d, row)
    BY <1>3, Zenon DEF NextAgent
  <1>6. /\ rgDeploy' \in [RgDeploys -> Deployments] /\ rgDeploy'[d] = row
        /\ \A e \in RgDeploys \ {d} : rgDeploy'[e] = rgDeploy[e]
    BY <1>4, <1>5, RowPut
  <1>7. \A e \in RgDeploys \ {d} : DeployKnows(e)'
    <2>1. rgClassic' \in Seq(Classics) /\ Len(rgClassic) <= Len(rgClassic')
      BY LenProperties DEF RegInv
    <2>2. QED
      BY <1>6, <2>1, KnowledgeStays
  <1>8. PastAreRight(d)'
    <2>1. SUFFICES ASSUME ~rgDeploy[d].errors, ~failed, ~rgDeploy[d].dry,
                          NEW i \in 1..Len(RgNames), i < rgDeploy[d].next + 1,
                          RgNames[i] \in rgDeploy[d].only
                   PROVE  WasLatest(d, RgNames[i])'
      BY <1>4, <1>6 DEF PastAreRight
    <2>2. CASE i = rgDeploy[d].next
      BY <1>4, <1>6, <2>1, <2>2 DEF WasLatest, Wanted, Current
    <2>3. CASE i < rgDeploy[d].next
      <3>1. RgNames[i] \in RgAgents /\ WasLatest(d, RgNames[i])
        BY <1>1, <2>1, <2>3, NamesListed DEF PastAreRight
      <3>2. QED
        BY <1>4, <1>6, <3>1, LatestStays
    <2>4. QED
      BY <1>2, <2>1, <2>2, <2>3
  <1>9. DeployKnows(d)'
    <2>1. \A n \in RgAgents : row.start[n] <= Len(rgVersions'[n])
      <3>1. ASSUME NEW n \in RgAgents PROVE row.start[n] <= Len(rgVersions'[n])
        <4>1. /\ rgDeploy[d].start[n] <= Len(rgVersions[n]) /\ rgDeploy[d].start[n] \in Nat
              /\ Len(rgVersions[n]) <= Len(rgVersions'[n])
          BY <1>1 DEF DeployKnows, VersionsGrow, Deployments
        <4>2. Len(rgVersions[n]) \in Nat /\ Len(rgVersions'[n]) \in Nat
          BY VersionsCounted, LenProperties
        <4>3. QED
          BY <1>4, <4>1, <4>2
      <3>2. QED
        BY <3>1
    <2>2. /\ row.pc = "get" => row.next \in 1..len
          /\ row.pc = "list" => row.next = len + 1
          /\ row.pc \in {"get", "list"}
      BY <1>2, <1>4
    <2>3. QED
      BY <1>2, <1>6, <1>8, <2>1, <2>2 DEF DeployKnows, WillWrite
  <1>10. QED
    BY <1>6, <1>7, <1>9

\* A step that leaves the classic agents, the chat threads and what is kept of
\* them alone.
ClassicStands == UNCHANGED <<rgClassic, rgChat, rgKept>>

LEMMA ClassicStays ==
    ASSUME RegInv, ClassicStands
    PROVE  /\ rgClassic' \in Seq(Classics)
           /\ rgChat' \in [RgChats -> [id : {0, 1}, searched : BOOLEAN, instructions : Nat]]
           /\ rgKept' \subseteq DOMAIN rgClassic' /\ \A id \in rgKept' : rgClassic'[id].tool
           /\ \A c \in RgChats : rgChat'[c].id = 1 => rgClassic' # <<>>
           /\ Len(rgClassic') + Cardinality(Makers') <= Cardinality(RgChats)
           /\ Len(rgClassic) <= Len(rgClassic')
  <1>1. Len(rgClassic) \in Nat
    BY LenProperties DEF RegInv
  <1>2. Makers' = Makers
    BY DEF ClassicStands, Makers
  <1>3. QED
    BY <1>1, <1>2 DEF RegInv, ClassicStands

\* A deployment's look at its checkout, what it leaves out, fails at, and gets.
LEMMA VersionSteps ==
    ASSUME RegInv, NEW d \in RgDeploys,
           DeployAgents(d) \/ SkipAgent(d) \/ RequestFails(d) \/ GetAgent(d)
    PROVE  RegInv'
  <1>1. UNCHANGED <<rgVersions, rgClassic, rgChat, rgKept>> /\ ClassicStands
    BY Zenon DEF DeployAgents, SkipAgent, RequestFails, GetAgent, ClassicStands
  <1>2. VersionsGrow /\ rgVersions' \in [RgAgents -> Seq(VersionsOf)]
    <2>1. \A n \in RgAgents : Len(rgVersions[n]) \in Nat
      BY VersionsCounted
    <2>2. QED
      BY <1>1, <2>1 DEF VersionsGrow, RegInv
  <1>3. NoIdleVersion'
    BY <1>1 DEF RegInv, NoIdleVersion
  <1>4. SUFFICES rgDeploy' \in [RgDeploys -> Deployments] /\ \A e \in RgDeploys : DeployKnows(e)'
    BY <1>1, <1>2, <1>3, ClassicStays DEF RegInv
  <1>5. CASE DeployAgents(d)
    <2>1. PICK spec \in RgSpecs, dry \in BOOLEAN, only \in SUBSET RgAgents :
              RgPut(d, [RgWaiting EXCEPT !.pc = "get", !.spec = spec, !.dry = dry, !.only = only,
                           !.start = [n \in RgAgents |-> Len(rgVersions[n])]])
      BY <1>5, Zenon DEF DeployAgents
    <2>2. PICK row : row = [RgWaiting EXCEPT !.pc = "get", !.spec = spec, !.dry = dry, !.only = only,
                               !.start = [n \in RgAgents |-> Len(rgVersions[n])]]
      BY Zenon
    <2>3. [n \in RgAgents |-> Len(rgVersions[n])] \in [RgAgents -> Nat]
      BY VersionsCounted
    <2>4. spec \in Parts3
      BY RegistrationAssumption DEF RgDefinitions, Parts3
    <2>5. <<>> \in Seq(Classics)
      BY EmptySeq
    <2>6. row \in Deployments /\ row.pc = "get" /\ row.next = 1
          /\ row.start = [n \in RgAgents |-> Len(rgVersions[n])]
      <3>1. PICK start \in [RgAgents -> Nat] : start = [n \in RgAgents |-> Len(rgVersions[n])]
        BY <2>3
      <3>2. row = [pc |-> "get", spec |-> spec, dry |-> dry, only |-> only, next |-> 1, saw |-> 0,
                   start |-> start, copy |-> <<>>, at |-> 0, errors |-> FALSE]
        BY <2>2, <3>1 DEF RgWaiting
      <3>3. QED
        BY <2>4, <2>5, <3>1, <3>2 DEF Deployments
    <2>7. /\ rgDeploy' \in [RgDeploys -> Deployments] /\ rgDeploy'[d] = row
          /\ \A e \in RgDeploys \ {d} : rgDeploy'[e] = rgDeploy[e]
      BY <2>1, <2>2, <2>6, RowPut
    <2>8. \A e \in RgDeploys \ {d} : DeployKnows(e)'
      BY <1>1, <1>2, <2>7, ClassicStays, KnowledgeStays DEF ClassicStands
    <2>9. \A n \in RgAgents : row.start[n] <= Len(rgVersions'[n])
      <3>1. \A n \in RgAgents : Len(rgVersions[n]) \in Nat /\ row.start[n] = Len(rgVersions[n])
        BY <2>6, VersionsCounted
      <3>2. QED
        BY <1>1, <3>1
    <2>10. PastAreRight(d)' /\ 1 \in 1..Len(RgNames)
      BY <2>6, <2>7, NamesListed DEF PastAreRight
    <2>11. DeployKnows(d)'
      BY <2>6, <2>7, <2>9, <2>10 DEF DeployKnows, WillWrite
    <2>12. QED
      BY <2>7, <2>8, <2>11
  <1>6. CASE RequestFails(d)
    <2>1. rgDeploy[d].pc \in {"get", "post"} /\ NextAgent(d, TRUE)
      BY <1>6 DEF RequestFails
    <2>2. QED
      BY <1>1, <1>2, <2>1, AgentDealtWith DEF ClassicStands
  <1>7. CASE SkipAgent(d)
    <2>1. rgDeploy[d].pc \in {"get", "post"} /\ NextAgent(d, FALSE) /\ ~Wanted(d)
      BY <1>7 DEF SkipAgent
    <2>2. QED
      BY <1>1, <1>2, <2>1, AgentDealtWith DEF ClassicStands
  <1>8. CASE GetAgent(d)
    <2>1. /\ rgDeploy[d] \in Deployments /\ DeployKnows(d) /\ rgDeploy[d].pc = "get"
          /\ rgDeploy[d].next \in 1..Len(RgNames)
      BY <1>8 DEF RegInv, DeployKnows, GetAgent
    <2>2. PICK n \in RgAgents : n = Current(d)
      BY <2>1, NamesListed DEF Current
    <2>3. PICK versions \in Seq(VersionsOf) : versions = rgVersions[n]
      BY VersionsCounted
    <2>4. Len(versions) \in Nat /\ DOMAIN versions = 1..Len(versions)
          /\ (versions # <<>> => Len(versions) >= 1)
      BY LenProperties, EmptySeq
    <2>5. IF SameAsLatest(versions, rgDeploy[d].spec) \/ rgDeploy[d].dry
          THEN NextAgent(d, FALSE)
          ELSE RgPut(d, [rgDeploy[d] EXCEPT !.pc = "post", !.saw = Len(versions)])
      BY <1>8, <2>2, <2>3 DEF GetAgent
    <2>6. CASE SameAsLatest(versions, rgDeploy[d].spec) \/ rgDeploy[d].dry
      <3>1. NextAgent(d, FALSE)
        BY <2>5, <2>6
      <3>2. \/ rgDeploy[d].dry
            \/ \E v \in DOMAIN rgVersions'[n] :
                   v >= rgDeploy[d].start[n] /\ rgVersions'[n][v].spec = rgDeploy[d].spec
        <4>1. SUFFICES ASSUME SameAsLatest(versions, rgDeploy[d].spec)
                       PROVE  \E v \in DOMAIN rgVersions'[n] :
                                  /\ v >= rgDeploy[d].start[n]
                                  /\ rgVersions'[n][v].spec = rgDeploy[d].spec
          BY <2>6
        <4>2. Len(versions) >= 1 /\ versions[Len(versions)].spec = rgDeploy[d].spec
          BY <2>4, <4>1 DEF SameAsLatest
        <4>3. rgDeploy[d].start[n] <= Len(versions)
          BY <2>1, <2>3 DEF DeployKnows
        <4>4. rgDeploy[d].start[n] \in Nat
          BY <2>1 DEF Deployments
        <4>5. Len(versions) \in DOMAIN versions /\ Len(versions) >= rgDeploy[d].start[n]
          BY <2>4, <4>2, <4>3, <4>4
        <4>6. QED
          BY <1>1, <2>3, <4>2, <4>5
      <3>3. QED
        BY <1>1, <1>2, <2>1, <2>2, <3>1, <3>2, AgentDealtWith DEF ClassicStands
    <2>7. CASE ~(SameAsLatest(versions, rgDeploy[d].spec) \/ rgDeploy[d].dry)
      <3>1. PICK row : row = [rgDeploy[d] EXCEPT !.pc = "post", !.saw = Len(versions)]
        OBVIOUS
      <3>2. /\ row \in Deployments /\ row.pc = "post" /\ row.saw = Len(versions)
            /\ row.next = rgDeploy[d].next /\ row.only = rgDeploy[d].only
            /\ row.spec = rgDeploy[d].spec
            /\ row.start = rgDeploy[d].start /\ row.errors = rgDeploy[d].errors
            /\ row.dry = rgDeploy[d].dry
        BY <2>1, <2>4, <3>1 DEF Deployments
      <3>3. /\ rgDeploy' \in [RgDeploys -> Deployments] /\ rgDeploy'[d] = row
            /\ \A e \in RgDeploys \ {d} : rgDeploy'[e] = rgDeploy[e]
        BY <2>5, <2>7, <3>1, <3>2, RowPut
      <3>4. \A e \in RgDeploys \ {d} : DeployKnows(e)'
        BY <1>1, <1>2, <3>3, ClassicStays, KnowledgeStays DEF ClassicStands
      <3>5. PastAreRight(d)'
        BY <1>2, <2>1, <3>2, <3>3, PastStaysRight DEF DeployKnows
      <3>6. Len(versions) > 0 => versions[Len(versions)].spec # rgDeploy[d].spec
        BY <2>4, <2>7, EmptySeq DEF SameAsLatest
      <3>7. /\ row.saw <= Len(rgVersions'[n])
            /\ row.saw > 0 => rgVersions'[n][row.saw].spec # row.spec
        BY <1>1, <2>3, <2>4, <3>2, <3>6
      <3>8. Current(d)' = n
        BY <2>2, <3>2, <3>3 DEF Current
      <3>10. DeployKnows(d)'
        BY <1>1, <2>1, <3>2, <3>3, <3>5, <3>7, <3>8 DEF DeployKnows, WillWrite
      <3>11. QED
        BY <3>3, <3>4, <3>10
    <2>8. QED
      BY <2>6, <2>7
  <1>9. QED
    BY <1>5, <1>6, <1>7, <1>8

\* A version appended after others leaves them as they are, and is not one
\* that was there already as far as its writer could see.
LEMMA VersionAppended ==
    ASSUME RegInv, NEW n \in RgAgents, NEW v \in VersionsOf,
           rgVersions' = [rgVersions EXCEPT ![n] = Append(@, v)],
           rgVersions[n] # <<>> /\ rgVersions[n][Len(rgVersions[n])].spec = v.spec =>
               v.seen < Len(rgVersions[n])
    PROVE  /\ VersionsGrow /\ rgVersions' \in [RgAgents -> Seq(VersionsOf)] /\ NoIdleVersion'
           /\ Len(rgVersions[n]) + 1 \in DOMAIN rgVersions'[n]
           /\ rgVersions'[n][Len(rgVersions[n]) + 1] = v
  <1>1. PICK old \in Seq(VersionsOf) : old = rgVersions[n]
    BY VersionsCounted
  <1>2. PICK len \in Nat : len = Len(old) /\ DOMAIN old = 1..len
    BY LenProperties
  <1>3. PICK new \in Seq(VersionsOf) : new = Append(old, v)
    BY AppendProperties
  <1>4. /\ Len(new) = len + 1 /\ DOMAIN new = 1..(len + 1) /\ new[len + 1] = v
        /\ \A i \in 1..len : new[i] = old[i]
    BY <1>2, <1>3, AppendProperties, LenProperties
  <1>5. /\ rgVersions' \in [RgAgents -> Seq(VersionsOf)] /\ rgVersions'[n] = new
        /\ \A m \in RgAgents \ {n} : rgVersions'[m] = rgVersions[m]
    BY <1>1, <1>3 DEF RegInv
  <1>6. VersionsGrow
    <2>1. Len(rgVersions[n]) <= Len(rgVersions'[n])
      BY <1>1, <1>2, <1>4, <1>5
    <2>2. \A i \in DOMAIN rgVersions[n] : rgVersions'[n][i] = rgVersions[n][i]
      BY <1>1, <1>2, <1>4, <1>5
    <2>3. \A m \in RgAgents : Len(rgVersions[m]) \in Nat
      BY VersionsCounted
    <2>4. QED
      BY <1>5, <2>1, <2>2, <2>3 DEF VersionsGrow
  <1>7. ASSUME NEW m \in RgAgents, NEW i \in 2..Len(rgVersions'[m]),
               rgVersions'[m][i].spec = rgVersions'[m][i - 1].spec
        PROVE  rgVersions'[m][i].seen < i - 1
    <2>1. CASE m # n
      BY <1>5, <1>7, <2>1 DEF RegInv, NoIdleVersion
    <2>2. CASE m = n
      <3>1. i \in Nat /\ i >= 2 /\ i <= len + 1
        BY <1>4, <1>5, <2>2
      <3>2. CASE i <= len
        <4>1. i \in 2..len /\ i \in 1..len /\ i - 1 \in 1..len
          BY <3>1, <3>2
        <4>2. new[i] = old[i] /\ new[i - 1] = old[i - 1]
          BY <1>4, <4>1
        <4>3. old[i].spec = old[i - 1].spec => old[i].seen < i - 1
          BY <1>1, <1>2, <4>1 DEF RegInv, NoIdleVersion
        <4>4. QED
          BY <1>5, <1>7, <2>2, <4>2, <4>3
      <3>3. CASE i = len + 1
        <4>1. i - 1 = len /\ len \in 1..len
          BY <3>1, <3>3
        <4>2. new[i] = v /\ new[i - 1] = old[len]
          BY <1>4, <3>3, <4>1
        <4>3. old # <<>>
          BY <1>2, <4>1, EmptySeq
        <4>4. v.seen < len
          BY <1>1, <1>2, <1>5, <1>7, <2>2, <4>2, <4>3
        <4>5. QED
          BY <1>5, <2>2, <4>1, <4>2, <4>4
      <3>4. QED
        BY <3>1, <3>2, <3>3
    <2>3. QED
      BY <2>1, <2>2
  <1>8. NoIdleVersion'
    BY <1>7 DEF NoIdleVersion
  <1>9. Len(rgVersions[n]) + 1 \in DOMAIN rgVersions'[n] /\ rgVersions'[n][Len(rgVersions[n]) + 1] = v
    BY <1>1, <1>2, <1>4, <1>5
  <1>10. QED
    BY <1>5, <1>6, <1>8, <1>9

\* create_agent_version, and a version somebody saves.
LEMMA VersionWritten ==
    ASSUME RegInv,
           \/ \E d \in RgDeploys : PostVersion(d)
           \/ \E n \in RgAgents : EditVersion(n)
    PROVE  RegInv'
  <1>1. CASE \E d \in RgDeploys : PostVersion(d)
    <2>1. PICK d \in RgDeploys : PostVersion(d)
      BY <1>1
    <2>2. /\ rgDeploy[d] \in Deployments /\ DeployKnows(d) /\ rgDeploy[d].pc = "post"
          /\ rgDeploy[d].next \in 1..Len(RgNames)
          /\ rgDeploy[d].spec \in Parts3 /\ rgDeploy[d].saw \in Nat
      BY <2>1 DEF RegInv, Deployments, DeployKnows, PostVersion
    <2>3. PICK n \in RgAgents : n = Current(d)
      BY <2>2, NamesListed DEF Current
    <2>4. PICK v \in VersionsOf : v = [spec |-> rgDeploy[d].spec, seen |-> rgDeploy[d].saw]
      BY <2>2 DEF VersionsOf
    <2>5. rgVersions' = [rgVersions EXCEPT ![n] = Append(@, v)]
      BY <2>1, <2>3, <2>4 DEF PostVersion
    <2>6. rgVersions[n] # <<>> /\ rgVersions[n][Len(rgVersions[n])].spec = v.spec =>
              v.seen < Len(rgVersions[n])
      <3>1. /\ rgDeploy[d].saw <= Len(rgVersions[n])
            /\ rgDeploy[d].saw > 0 => rgVersions[n][rgDeploy[d].saw].spec # rgDeploy[d].spec
        BY <2>2, <2>3, Zenon DEF DeployKnows
      <3>2. PICK len \in Nat : len = Len(rgVersions[n]) /\ (rgVersions[n] # <<>> => len > 0)
        BY VersionsCounted, EmptySeq
      <3>3. QED
        BY <2>2, <2>4, <3>1, <3>2
    <2>7. /\ VersionsGrow /\ rgVersions' \in [RgAgents -> Seq(VersionsOf)] /\ NoIdleVersion'
          /\ Len(rgVersions[n]) + 1 \in DOMAIN rgVersions'[n]
          /\ rgVersions'[n][Len(rgVersions[n]) + 1] = v
      BY <2>5, <2>6, VersionAppended
    <2>8. PICK lost \in BOOLEAN : NextAgent(d, lost)
      BY <2>1 DEF PostVersion
    <2>9. ClassicStands
      BY <2>1 DEF PostVersion, ClassicStands
    <2>10. \E i \in DOMAIN rgVersions'[n] :
               i >= rgDeploy[d].start[n] /\ rgVersions'[n][i].spec = rgDeploy[d].spec
      <3>1. rgDeploy[d].start[n] <= Len(rgVersions[n]) /\ rgDeploy[d].start[n] \in Nat
        BY <2>2 DEF DeployKnows, Deployments
      <3>2. Len(rgVersions[n]) \in Nat
        BY VersionsCounted
      <3>3. Len(rgVersions[n]) + 1 >= rgDeploy[d].start[n]
        BY <3>1, <3>2
      <3>4. QED
        BY <2>4, <2>7, <3>3
    <2>11. rgDeploy' \in [RgDeploys -> Deployments] /\ \A e \in RgDeploys : DeployKnows(e)'
      BY <2>2, <2>3, <2>7, <2>8, <2>9, <2>10, AgentDealtWith DEF ClassicStands
    <2>12. QED
      BY <2>7, <2>9, <2>11, ClassicStays DEF RegInv
  <1>2. CASE \E n \in RgAgents : EditVersion(n)
    <2>1. PICK n \in RgAgents : EditVersion(n)
      BY <1>2
    <2>2. Len(rgVersions[n]) \in Nat
      BY VersionsCounted
    <2>3. PICK v \in VersionsOf : v = [spec |-> RgEdited, seen |-> Len(rgVersions[n])]
      BY <2>2 DEF VersionsOf, Parts3, RgEdited
    <2>4. rgVersions' = [rgVersions EXCEPT ![n] = Append(@, v)]
      BY <2>1, <2>3 DEF EditVersion, RegInv
    <2>5. rgVersions[n] # <<>> /\ rgVersions[n][Len(rgVersions[n])].spec = v.spec =>
              v.seen < Len(rgVersions[n])
      BY <2>1, <2>3 DEF EditVersion, SameAsLatest
    <2>6. VersionsGrow /\ rgVersions' \in [RgAgents -> Seq(VersionsOf)] /\ NoIdleVersion'
      BY <2>4, <2>5, VersionAppended
    <2>7. ClassicStands /\ UNCHANGED rgDeploy
      BY <2>1 DEF EditVersion, ClassicStands
    <2>8. \A d \in RgDeploys : DeployKnows(d)'
      BY <2>6, <2>7, ClassicStays, KnowledgeStays DEF ClassicStands
    <2>9. QED
      BY <2>6, <2>7, <2>8, ClassicStays DEF RegInv
  <1>3. QED
    BY <1>1, <1>2

\* A step that leaves the versions alone.
LEMMA VersionsStand ==
    ASSUME RegInv, UNCHANGED rgVersions
    PROVE  /\ VersionsGrow /\ rgVersions' \in [RgAgents -> Seq(VersionsOf)] /\ NoIdleVersion'
  <1>1. \A n \in RgAgents : Len(rgVersions[n]) \in Nat
    BY VersionsCounted
  <1>2. VersionsGrow
    BY <1>1 DEF VersionsGrow
  <1>3. NoIdleVersion /\ rgVersions' \in [RgAgents -> Seq(VersionsOf)]
    BY DEF RegInv
  <1>4. NoIdleVersion'
    BY <1>3 DEF NoIdleVersion
  <1>5. QED
    BY <1>2, <1>3, <1>4

\* An entry of the classic store written over: the list is as long as it was.
LEMMA ClassicWritten ==
    ASSUME RegInv, NEW id \in DOMAIN rgClassic, NEW agent \in Classics,
           rgClassic' = [rgClassic EXCEPT ![id] = agent]
    PROVE  /\ rgClassic' \in Seq(Classics) /\ Len(rgClassic') = Len(rgClassic)
           /\ DOMAIN rgClassic' = DOMAIN rgClassic /\ rgClassic'[id] = agent
           /\ \A i \in DOMAIN rgClassic \ {id} : rgClassic'[i] = rgClassic[i]
           /\ Len(rgClassic) \in Nat /\ DOMAIN rgClassic = 1..Len(rgClassic)
           /\ rgClassic # <<>> /\ rgClassic' # <<>>
  <1>1. rgClassic \in Seq(Classics)
    BY DEF RegInv
  <1>2. Len(rgClassic) \in Nat /\ DOMAIN rgClassic = 1..Len(rgClassic)
    BY <1>1, LenProperties
  <1>3. rgClassic' \in Seq(Classics) /\ Len(rgClassic') = Len(rgClassic)
    BY <1>1, <1>2, ExceptSeq
  <1>4. rgClassic' # <<>> /\ rgClassic # <<>>
    BY <1>2, <1>3, EmptySeq
  <1>5. QED
    BY <1>1, <1>2, <1>3, <1>4

\* A deployment lists the classic agents, brings each up to date, reports.
LEMMA ClassicDeploySteps ==
    ASSUME RegInv, NEW d \in RgDeploys, ListAgents(d) \/ UpdateAgent(d) \/ DeployReports(d)
    PROVE  RegInv'
  <1>0. /\ rgDeploy[d] \in Deployments /\ DeployKnows(d)
        /\ rgClassic \in Seq(Classics) /\ Len(rgClassic) \in Nat
        /\ DOMAIN rgClassic = 1..Len(rgClassic) /\ rgKept \subseteq DOMAIN rgClassic
    BY LenProperties DEF RegInv
  <1>1. UNCHANGED <<rgVersions, rgChat, rgKept>>
    BY DEF ListAgents, UpdateAgent, DeployReports
  <1>2. VersionsGrow /\ rgVersions' \in [RgAgents -> Seq(VersionsOf)] /\ NoIdleVersion'
    BY <1>1, VersionsStand
  <1>done. /\ PastAreRight(d) /\ rgDeploy[d].next = Len(RgNames) + 1
           /\ \A n \in RgAgents : rgDeploy[d].start[n] <= Len(rgVersions[n])
    BY <1>0 DEF ListAgents, UpdateAgent, DeployReports, DeployKnows
  <1>3. ASSUME NEW row \in Deployments, RgPut(d, row), row.pc \in {"update", "done"},
               row.start = rgDeploy[d].start, row.spec = rgDeploy[d].spec,
               row.dry = rgDeploy[d].dry, rgDeploy[d].errors => row.errors,
               row.only = rgDeploy[d].only, row.next = rgDeploy[d].next,
               row.pc = "update" =>
                   /\ Len(row.copy) <= Len(rgClassic) /\ row.at > 0
                   /\ \A id \in rgKept \cap (row.at..Len(row.copy)) :
                          row.dry \/ InSync(row.copy[id], row.spec) \/ row.copy[id].tool,
               Len(rgClassic') = Len(rgClassic), rgClassic' \in Seq(Classics)
        PROVE  rgDeploy' \in [RgDeploys -> Deployments] /\ \A e \in RgDeploys : DeployKnows(e)'
    <2>1. /\ rgDeploy' \in [RgDeploys -> Deployments] /\ rgDeploy'[d] = row
          /\ \A e \in RgDeploys \ {d} : rgDeploy'[e] = rgDeploy[e]
      BY <1>3, RowPut
    <2>2. \A e \in RgDeploys \ {d} : DeployKnows(e)'
      BY <1>0, <1>1, <1>2, <1>3, <2>1, KnowledgeStays
    <2>3. PastAreRight(d)'
      BY <1>2, <1>3, <1>done, <2>1, PastStaysRight
    <2>4. \A id \in rgKept' : WillWrite(d, id)' => rgDeploy'[d].copy[id].tool
      BY <1>1, <1>3, <2>1 DEF WillWrite
    <2>5. DeployKnows(d)'
      BY <1>1, <1>3, <1>done, <2>1, <2>3, <2>4 DEF DeployKnows
    <2>6. QED
      BY <2>1, <2>2, <2>5
  <1>4. CASE ListAgents(d)
    <2>1. ClassicStands
      BY <1>4 DEF ListAgents, ClassicStands
    <2>l. PICK copy \in {rgClassic, <<>>} :
              copy = IF RgNames[1] \in rgDeploy[d].only THEN rgClassic ELSE <<>>
      OBVIOUS
    <2>2. PICK row : /\ RgPut(d, row)
                     /\ \/ row = [rgDeploy[d] EXCEPT !.pc = "update", !.at = 1, !.copy = copy]
                        \/ row = [rgDeploy[d] EXCEPT !.pc = "done", !.errors = TRUE]
      BY <1>4, <2>l, Zenon DEF ListAgents
    <2>c. copy \in Seq(Classics) /\ (copy = <<>> => Len(copy) = 0)
      BY <1>0, <2>l, EmptySeq
    <2>3. /\ row \in Deployments /\ row.pc \in {"update", "done"}
          /\ row.start = rgDeploy[d].start /\ row.spec = rgDeploy[d].spec
          /\ row.dry = rgDeploy[d].dry /\ (rgDeploy[d].errors => row.errors)
          /\ row.only = rgDeploy[d].only /\ row.next = rgDeploy[d].next
          /\ row.pc = "update" => row.copy = copy /\ row.at = 1
      <3>1. CASE row = [rgDeploy[d] EXCEPT !.pc = "update", !.at = 1, !.copy = copy]
        BY <1>0, <2>c, <3>1 DEF Deployments
      <3>2. CASE row = [rgDeploy[d] EXCEPT !.pc = "done", !.errors = TRUE]
        BY <1>0, <3>2 DEF Deployments
      <3>3. QED
        BY <2>2, <3>1, <3>2
    <2>4. row.pc = "update" =>
              /\ Len(row.copy) <= Len(rgClassic) /\ row.at > 0
              /\ \A id \in rgKept \cap (row.at..Len(row.copy)) :
                     row.dry \/ InSync(row.copy[id], row.spec) \/ row.copy[id].tool
      <3>1. CASE copy = rgClassic
        BY <1>0, <2>3, <3>1 DEF RegInv
      <3>2. CASE copy = <<>>
        <4>1. Len(copy) = 0 /\ 1..0 = {}
          BY <2>c, <3>2
        <4>2. QED
          BY <1>0, <2>3, <4>1
      <3>3. QED
        BY <2>l, <3>1, <3>2
    <2>5. Len(rgClassic') = Len(rgClassic) /\ rgClassic' \in Seq(Classics)
      BY <1>0, <2>1 DEF ClassicStands
    <2>6. rgDeploy' \in [RgDeploys -> Deployments] /\ \A e \in RgDeploys : DeployKnows(e)'
      BY <1>3, <2>2, <2>3, <2>4, <2>5
    <2>7. QED
      BY <1>2, <2>1, <2>6, ClassicStays DEF RegInv
  <1>5. CASE DeployReports(d)
    <2>1. ClassicStands
      BY <1>5 DEF DeployReports, ClassicStands
    <2>2. PICK row : row = [rgDeploy[d] EXCEPT !.pc = "done", !.copy = <<>>, !.at = 0]
      OBVIOUS
    <2>3. RgPut(d, row)
      BY <1>5, <2>2 DEF DeployReports
    <2>4. <<>> \in Seq(Classics)
      BY EmptySeq
    <2>5. /\ row \in Deployments /\ row.pc = "done"
          /\ row.start = rgDeploy[d].start /\ row.spec = rgDeploy[d].spec
          /\ row.dry = rgDeploy[d].dry /\ row.errors = rgDeploy[d].errors
          /\ row.only = rgDeploy[d].only /\ row.next = rgDeploy[d].next
      BY <1>0, <2>2, <2>4 DEF Deployments
    <2>6. Len(rgClassic') = Len(rgClassic) /\ rgClassic' \in Seq(Classics)
      BY <1>0, <2>1 DEF ClassicStands
    <2>7. rgDeploy' \in [RgDeploys -> Deployments] /\ \A e \in RgDeploys : DeployKnows(e)'
      BY <1>3, <2>3, <2>5, <2>6
    <2>8. QED
      BY <1>2, <2>1, <2>7, ClassicStays DEF RegInv
  <1>6. CASE UpdateAgent(d)
    <2>1. /\ rgDeploy[d].pc = "update" /\ rgDeploy[d].at \in Nat /\ rgDeploy[d].at > 0
          /\ rgDeploy[d].at <= Len(rgDeploy[d].copy) /\ Len(rgDeploy[d].copy) <= Len(rgClassic)
          /\ \A i \in rgKept : WillWrite(d, i) => rgDeploy[d].copy[i].tool
          /\ rgDeploy[d].copy \in Seq(Classics) /\ rgDeploy[d].spec \in Parts3
      BY <1>0, <1>6 DEF UpdateAgent, DeployKnows, Deployments
    <2>2. PICK id : id = rgDeploy[d].at
      OBVIOUS
    <2>3. /\ id \in DOMAIN rgClassic /\ id \in DOMAIN rgDeploy[d].copy
          /\ rgDeploy[d].copy[id] \in Classics /\ id + 1 \in Nat /\ id + 1 > 0
      <3>1. DOMAIN rgDeploy[d].copy = 1..Len(rgDeploy[d].copy) /\ Len(rgDeploy[d].copy) \in Nat
        BY <2>1, LenProperties
      <3>2. id \in 1..Len(rgDeploy[d].copy) /\ id \in 1..Len(rgClassic)
        BY <1>0, <2>1, <2>2, <3>1
      <3>3. QED
        BY <1>0, <2>1, <3>1, <3>2, ElementOfSeq
    <2>4. PICK failed \in BOOLEAN, agent \in Classics :
              /\ RgPut(d, [rgDeploy[d] EXCEPT !.at = @ + 1, !.errors = @ \/ failed])
              /\ agent.tool = rgDeploy[d].copy[id].tool
              /\ \/ UNCHANGED rgClassic
                 \/ WillWrite(d, id) /\ rgClassic' = [rgClassic EXCEPT ![id] = agent]
      <3>1. [spec |-> rgDeploy[d].spec, tool |-> rgDeploy[d].copy[id].tool] \in Classics
        BY <2>1, <2>3 DEF Classics
      <3>2. id \in rgDeploy[d].at..Len(rgDeploy[d].copy)
        <4>1. Len(rgDeploy[d].copy) \in Nat
          BY <2>1, LenProperties
        <4>2. QED
          BY <2>1, <2>2, <4>1
      <3>3. PICK failed \in BOOLEAN :
                /\ RgPut(d, [rgDeploy[d] EXCEPT !.at = @ + 1, !.errors = @ \/ failed])
                /\ \/ UNCHANGED rgClassic
                   \/ /\ ~InSync(rgDeploy[d].copy[id], rgDeploy[d].spec) /\ ~rgDeploy[d].dry
                      /\ rgClassic' = [rgClassic EXCEPT ![id] =
                             [spec |-> rgDeploy[d].spec, tool |-> rgDeploy[d].copy[id].tool]]
        BY <1>6, <2>2, Zenon DEF UpdateAgent
      <3>4. \/ UNCHANGED rgClassic
            \/ /\ WillWrite(d, id)
               /\ rgClassic' = [rgClassic EXCEPT ![id] =
                      [spec |-> rgDeploy[d].spec, tool |-> rgDeploy[d].copy[id].tool]]
        BY <2>1, <3>2, <3>3, Zenon DEF WillWrite
      <3>5. PICK agent \in Classics :
                agent = [spec |-> rgDeploy[d].spec, tool |-> rgDeploy[d].copy[id].tool]
        BY <3>1
      <3>6. \/ UNCHANGED rgClassic
            \/ WillWrite(d, id) /\ rgClassic' = [rgClassic EXCEPT ![id] = agent]
        BY <3>4, <3>5, Zenon
      <3>7. agent.tool = rgDeploy[d].copy[id].tool
        BY <3>5
      <3>8. QED
        BY <3>3, <3>6, <3>7, Zenon
    <2>5. PICK row : row = [rgDeploy[d] EXCEPT !.at = @ + 1, !.errors = @ \/ failed]
      OBVIOUS
    <2>6. /\ row \in Deployments /\ row.pc = "update" /\ row.at > 0
          /\ row.start = rgDeploy[d].start /\ row.spec = rgDeploy[d].spec
          /\ row.dry = rgDeploy[d].dry /\ (rgDeploy[d].errors => row.errors)
          /\ row.copy = rgDeploy[d].copy /\ row.at = id + 1
          /\ row.only = rgDeploy[d].only /\ row.next = rgDeploy[d].next
      <3>1. (rgDeploy[d].errors \/ failed) \in BOOLEAN
        OBVIOUS
      <3>2. QED
        BY <1>0, <2>1, <2>2, <2>3, <2>5, <3>1 DEF Deployments
    <2>7. /\ rgClassic' \in Seq(Classics) /\ Len(rgClassic') = Len(rgClassic)
          /\ DOMAIN rgClassic' = DOMAIN rgClassic
          /\ \A i \in DOMAIN rgClassic :
                 \/ rgClassic'[i] = rgClassic[i]
                 \/ /\ i = id /\ WillWrite(d, id)
                    /\ rgClassic'[i].tool = rgDeploy[d].copy[id].tool
          /\ rgClassic # <<>> => rgClassic' # <<>>
      <3>1. CASE UNCHANGED rgClassic
        BY <1>0, <3>1
      <3>2. CASE WillWrite(d, id) /\ rgClassic' = [rgClassic EXCEPT ![id] = agent]
        BY <2>3, <2>4, <3>2, ClassicWritten
      <3>3. QED
        BY <2>4, <3>1, <3>2
    <2>8. \A i \in rgKept : rgClassic'[i].tool
      BY <1>0, <2>1, <2>3, <2>7 DEF RegInv
    <2>a. \A i \in rgKept \cap (row.at..Len(row.copy)) :
              row.dry \/ InSync(row.copy[i], row.spec) \/ row.copy[i].tool
      <3>1. PICK len \in Nat : len = Len(rgDeploy[d].copy)
        BY <2>1, LenProperties
      <3>2. \A i \in (id + 1)..len : i \in id..len
        BY <2>1, <2>2, <3>1
      <3>3. QED
        BY <2>1, <2>2, <2>6, <3>1, <3>2 DEF WillWrite
    <2>9. rgDeploy' \in [RgDeploys -> Deployments] /\ \A e \in RgDeploys : DeployKnows(e)'
      BY <1>3, <2>1, <2>4, <2>5, <2>6, <2>7, <2>a
    <2>10. Makers' = Makers
      BY <1>1 DEF Makers
    <2>11. QED
      BY <1>0, <1>1, <1>2, <2>7, <2>8, <2>9, <2>10 DEF RegInv
  <1>7. QED
    BY <1>4, <1>5, <1>6

\* The runtime makes an agent only where a thread found none, and one for each
\* such thread; people give agents tools.
LEMMA RuntimeSteps ==
    ASSUME RegInv,
           \/ \E c \in RgChats : FindAgent(c) \/ UseAgent(c)
           \/ \E id \in DOMAIN rgClassic : AddTool(id)
    PROVE  RegInv'
  <1>0. /\ rgClassic \in Seq(Classics) /\ Len(rgClassic) \in Nat
        /\ DOMAIN rgClassic = 1..Len(rgClassic) /\ rgKept \subseteq DOMAIN rgClassic
        /\ RgRuntime \in Parts3
    BY LenProperties, RegistrationAssumption DEF RegInv, RgDefinitions, Parts3
  <1>1. IsFiniteSet(RgChats) /\ IsFiniteSet(Makers) /\ Cardinality(Makers) \in Nat
        /\ Cardinality(RgChats) \in Nat
    BY RegistrationAssumption, FS_Subset, FS_CardinalityType DEF Makers
  <1>2. VersionsGrow /\ rgVersions' \in [RgAgents -> Seq(VersionsOf)] /\ NoIdleVersion'
        /\ UNCHANGED rgDeploy
    BY VersionsStand DEF FindAgent, UseAgent, AddTool
  <1>3. ASSUME NEW c \in RgChats, FindAgent(c) PROVE RegInv'
    <2>1. UNCHANGED <<rgClassic, rgKept>> /\ ~rgChat[c].searched
      BY <1>3 DEF FindAgent
    <2>2. PICK row : row = [id |-> IF rgClassic = <<>> THEN 0 ELSE 1, searched |-> TRUE,
                            instructions |-> IF rgClassic = <<>> THEN 0
                                             ELSE rgClassic[1].spec.instructions]
      OBVIOUS
    <2>3. rgChat' = [rgChat EXCEPT ![c] = row]
      BY <1>3, <2>2 DEF FindAgent
    <2>4. rgClassic # <<>> => rgClassic[1].spec.instructions \in Nat
      <3>1. ASSUME rgClassic # <<>> PROVE rgClassic[1] \in Classics
        BY <1>0, <3>1, EmptySeq, ElementOfSeq
      <3>2. QED
        BY <3>1 DEF Classics, Parts3
    <2>5. row \in [id : {0, 1}, searched : BOOLEAN, instructions : Nat]
      BY <2>2, <2>4
    <2>6. /\ rgChat' \in [RgChats -> [id : {0, 1}, searched : BOOLEAN, instructions : Nat]]
          /\ rgChat'[c] = row /\ \A e \in RgChats \ {c} : rgChat'[e] = rgChat[e]
      BY <2>3, <2>5 DEF RegInv
    <2>7. \A e \in RgChats : rgChat'[e].id = 1 => rgClassic' # <<>>
      <3>1. row.id = 1 => rgClassic # <<>>
        BY <2>2
      <3>2. \A e \in RgChats : rgChat[e].id = 1 => rgClassic # <<>>
        BY DEF RegInv
      <3>3. \A e \in RgChats : rgChat'[e] = row \/ rgChat'[e] = rgChat[e]
        BY <2>6
      <3>4. QED
        BY <2>1, <3>1, <3>2, <3>3
    <2>8. Len(rgClassic') + Cardinality(Makers') <= Cardinality(RgChats)
      <3>1. CASE rgClassic = <<>>
        <4>1. Makers' \subseteq RgChats /\ Len(rgClassic') = 0
          BY <2>1, <3>1, EmptySeq DEF Makers
        <4>2. IsFiniteSet(Makers') /\ Cardinality(Makers') <= Cardinality(RgChats)
          BY <1>1, <4>1, FS_Subset
        <4>3. Cardinality(Makers') \in Nat
          BY <4>2, FS_CardinalityType
        <4>4. QED
          BY <4>1, <4>2, <4>3
      <3>2. CASE rgClassic # <<>>
        <4>1. Makers' = Makers
          BY <2>1, <2>2, <2>6, <3>2 DEF Makers
        <4>2. QED
          BY <2>1, <4>1 DEF RegInv
      <3>3. QED
        BY <3>1, <3>2
    <2>9. \A d \in RgDeploys : DeployKnows(d)'
      BY <1>0, <1>2, <2>1, KnowledgeStays
    <2>10. QED
      BY <1>2, <2>1, <2>6, <2>7, <2>8, <2>9 DEF RegInv
  <1>4. ASSUME NEW c \in RgChats, UseAgent(c) PROVE RegInv'
    <2>1. UNCHANGED rgKept /\ rgChat[c].searched /\ rgChat' = [rgChat EXCEPT ![c] = RgResting]
      BY <1>4 DEF UseAgent
    <2>2. /\ rgChat' \in [RgChats -> [id : {0, 1}, searched : BOOLEAN, instructions : Nat]]
          /\ rgChat'[c] = RgResting /\ \A e \in RgChats \ {c} : rgChat'[e] = rgChat[e]
      BY <2>1 DEF RegInv, RgResting
    <2>3. Makers' = Makers \ {c}
      BY <2>2 DEF Makers, RgResting
    <2>4. CASE rgChat[c].id = 0
      <3>1. PICK agent \in Classics : agent = [spec |-> RgRuntime, tool |-> FALSE]
        BY <1>0 DEF Classics
      <3>2. rgClassic' = Append(rgClassic, agent)
        BY <1>4, <2>4, <3>1 DEF UseAgent
      <3>3. /\ rgClassic' \in Seq(Classics) /\ Len(rgClassic') = Len(rgClassic) + 1
            /\ DOMAIN rgClassic' = 1..Len(rgClassic')
            /\ \A i \in 1..Len(rgClassic) : rgClassic'[i] = rgClassic[i]
        BY <1>0, <3>2, AppendProperties, LenProperties
      <3>4. rgClassic' # <<>>
        BY <1>0, <3>3, EmptySeq
      <3>5. c \in Makers /\ Cardinality(Makers') = Cardinality(Makers) - 1
        <4>1. c \in Makers
          BY <2>1, <2>4 DEF Makers
        <4>2. Cardinality(Makers \ {c}) = Cardinality(Makers) - 1
          BY <1>1, <4>1, FS_RemoveElement
        <4>3. QED
          BY <2>3, <4>1, <4>2
      <3>6. Len(rgClassic') + Cardinality(Makers') <= Cardinality(RgChats)
        BY <1>0, <1>1, <3>3, <3>5 DEF RegInv
      <3>7. rgKept' \subseteq DOMAIN rgClassic' /\ \A i \in rgKept' : rgClassic'[i].tool
        BY <1>0, <2>1, <3>3 DEF RegInv
      <3>8. Len(rgClassic) <= Len(rgClassic')
        BY <1>0, <3>3
      <3>9. \A d \in RgDeploys : DeployKnows(d)'
        BY <1>0, <1>2, <2>1, <3>3, <3>8, KnowledgeStays
      <3>10. QED
        BY <1>2, <2>2, <3>3, <3>4, <3>6, <3>7, <3>9 DEF RegInv
    <2>5. CASE rgChat[c].id # 0
      <3>1. rgClassic # <<>>
        BY <2>5 DEF RegInv
      <3>2. 1 \in DOMAIN rgClassic /\ rgClassic[1] \in Classics
        BY <1>0, <3>1, EmptySeq, ElementOfSeq
      <3>3. PICK agent : agent = [rgClassic[1] EXCEPT !.spec.instructions = RgRuntime.instructions]
        OBVIOUS
      <3>4. agent \in Classics /\ agent.tool = rgClassic[1].tool
        BY <1>0, <3>2, <3>3 DEF Classics, Parts3
      <3>5. UNCHANGED rgClassic \/ rgClassic' = [rgClassic EXCEPT ![1] = agent]
        BY <1>4, <2>5, <3>2, <3>3 DEF UseAgent
      <3>6. /\ rgClassic' \in Seq(Classics) /\ Len(rgClassic') = Len(rgClassic)
            /\ DOMAIN rgClassic' = DOMAIN rgClassic /\ rgClassic' # <<>>
            /\ \A i \in DOMAIN rgClassic : rgClassic'[i].tool = rgClassic[i].tool
        BY <1>0, <3>1, <3>2, <3>4, <3>5, ClassicWritten
      <3>7. Makers' = Makers
        BY <2>3, <2>5 DEF Makers
      <3>8. Len(rgClassic') + Cardinality(Makers') <= Cardinality(RgChats)
        BY <3>6, <3>7 DEF RegInv
      <3>9. rgKept' \subseteq DOMAIN rgClassic' /\ \A i \in rgKept' : rgClassic'[i].tool
        BY <1>0, <2>1, <3>6 DEF RegInv
      <3>10. \A d \in RgDeploys : DeployKnows(d)'
        BY <1>0, <1>2, <2>1, <3>6, KnowledgeStays
      <3>11. QED
        BY <1>2, <2>2, <3>6, <3>8, <3>9, <3>10 DEF RegInv
    <2>6. QED
      BY <2>4, <2>5
  <1>5. ASSUME NEW id \in DOMAIN rgClassic, AddTool(id) PROVE RegInv'
    <2>1. UNCHANGED rgChat
      BY <1>5 DEF AddTool
    <2>2. rgClassic[id] \in Classics
      BY <1>0, ElementOfSeq
    <2>3. PICK agent \in Classics : agent = [rgClassic[id] EXCEPT !.tool = TRUE] /\ agent.tool
      <3>1. PICK old \in Classics : old = rgClassic[id]
        BY <2>2
      <3>2. [old EXCEPT !.tool = TRUE] \in Classics /\ [old EXCEPT !.tool = TRUE].tool = TRUE
        BY DEF Classics
      <3>3. QED
        BY <3>1, <3>2
    <2>4. rgClassic' = [rgClassic EXCEPT ![id] = agent]
      BY <1>5, <2>3 DEF AddTool
    <2>5. /\ rgClassic' \in Seq(Classics) /\ Len(rgClassic') = Len(rgClassic)
          /\ DOMAIN rgClassic' = DOMAIN rgClassic /\ rgClassic' # <<>> /\ rgClassic'[id] = agent
          /\ \A i \in DOMAIN rgClassic \ {id} : rgClassic'[i] = rgClassic[i]
      BY <2>4, ClassicWritten
    <2>6. /\ rgKept' \subseteq rgKept \cup {id}
          /\ \A d \in RgDeploys : \A i \in rgKept' \ rgKept : ~WillWrite(d, i)
      BY <1>5 DEF AddTool
    <2>7. rgKept' \subseteq DOMAIN rgClassic' /\ \A i \in rgKept' : rgClassic'[i].tool
      BY <1>0, <2>3, <2>5, <2>6 DEF RegInv
    <2>8. \A d \in RgDeploys : DeployKnows(d)'
      BY <1>0, <1>2, <2>5, <2>6, KnowledgeStays
    <2>9. Makers' = Makers
      BY <2>1 DEF Makers
    <2>10. QED
      BY <1>2, <2>1, <2>5, <2>7, <2>8, <2>9 DEF RegInv
  <1>6. QED
    BY <1>3, <1>4, <1>5

\* Nobody has registered anything yet.
LEMMA RegInvInit == RgInit => RegInv
  <1> SUFFICES ASSUME RgInit PROVE RegInv
    OBVIOUS
  <1>1. <<>> \in Seq(VersionsOf) /\ <<>> \in Seq(Classics) /\ Len(<<>>) = 0
    BY EmptySeq
  <1>2. rgVersions \in [RgAgents -> Seq(VersionsOf)] /\ rgClassic = <<>> /\ rgKept = {}
    BY <1>1 DEF RgInit
  <1>3. RgWaiting \in Deployments
    <2>1. RgEdited \in Parts3 /\ [n \in RgAgents |-> 0] \in [RgAgents -> Nat]
      BY DEF RgEdited, Parts3
    <2>2. QED
      BY <1>1, <2>1 DEF RgWaiting, Deployments
  <1>4. rgDeploy \in [RgDeploys -> Deployments] /\ \A d \in RgDeploys : rgDeploy[d].pc = "new"
    BY <1>3 DEF RgInit, RgWaiting
  <1>5. rgChat \in [RgChats -> [id : {0, 1}, searched : BOOLEAN, instructions : Nat]]
        /\ \A c \in RgChats : ~rgChat[c].searched /\ rgChat[c].id = 0
    BY DEF RgInit, RgResting
  <1>6. Makers = {}
    BY <1>5 DEF Makers
  <1>7. Len(rgClassic) + Cardinality(Makers) <= Cardinality(RgChats)
    <2>1. Cardinality(Makers) = 0 /\ Cardinality(RgChats) \in Nat
      BY <1>6, RegistrationAssumption, FS_EmptySet, FS_CardinalityType
    <2>2. QED
      BY <1>1, <1>2, <2>1
  <1>8. \A n \in RgAgents : Len(rgVersions[n]) = 0
    BY <1>1 DEF RgInit
  <1>9. NoIdleVersion
    BY <1>8 DEF NoIdleVersion
  <1>10. \A d \in RgDeploys : DeployKnows(d)
    BY <1>4 DEF DeployKnows, WillWrite
  <1>11. QED
    BY <1>1, <1>2, <1>4, <1>5, <1>7, <1>9, <1>10 DEF RegInv

\* Every step of deployments, of the runtime and of people keeps it.
LEMMA RegInvStep == RegInv /\ RgNext => RegInv'
  BY VersionSteps, VersionWritten, ClassicDeploySteps, RuntimeSteps DEF RgNext

LEMMA RegInvStays == RegInv /\ UNCHANGED rgVars => RegInv'
  <1> SUFFICES ASSUME RegInv, UNCHANGED rgVars PROVE RegInv'
    OBVIOUS
  <1>1. UNCHANGED <<rgVersions, rgClassic, rgDeploy, rgChat, rgKept>>
    BY DEF rgVars
  <1>2. NoIdleVersion' /\ Makers' = Makers
    BY <1>1 DEF RegInv, NoIdleVersion, Makers
  <1>3. \A d \in RgDeploys : DeployKnows(d)'
    BY <1>1 DEF RegInv, DeployKnows, PastAreRight, WasLatest, WillWrite, Current
  <1>4. QED
    BY <1>1, <1>2, <1>3 DEF RegInv

\* Agents are registered as reported, once, and people's changes stay.
LEMMA RegInvSound == RegInv => AgentsRegistered
  <1> SUFFICES ASSUME RegInv PROVE AgentsRegistered
    OBVIOUS
  <1>1. ReportedIsRegistered
    <2>1. SUFFICES ASSUME NEW d \in RgDeploys, rgDeploy[d].pc = "done",
                          ~rgDeploy[d].errors, ~rgDeploy[d].dry, NEW n \in rgDeploy[d].only
                   PROVE  WasLatest(d, n)
      BY DEF ReportedIsRegistered, WasLatest
    <2>2. n \in RgAgents /\ PastAreRight(d) /\ rgDeploy[d].next = Len(RgNames) + 1
      BY <2>1 DEF RegInv, DeployKnows, Deployments
    <2>3. PICK i \in 1..Len(RgNames) : RgNames[i] = n
      BY <2>2, NamesListed
    <2>4. i < Len(RgNames) + 1
      BY NamesListed
    <2>5. QED
      BY <2>1, <2>2, <2>3, <2>4 DEF PastAreRight
  <1>2. Len(rgClassic) <= Cardinality(RgChats)
    <2>1. Len(rgClassic) \in Nat
      BY LenProperties DEF RegInv
    <2>2. Cardinality(Makers) \in Nat /\ Cardinality(RgChats) \in Nat
      BY RegistrationAssumption, FS_Subset, FS_CardinalityType DEF Makers
    <2>3. QED
      BY <2>1, <2>2 DEF RegInv
  <1>3. QED
    BY <1>1, <1>2 DEF RegInv, AgentsRegistered, ClassicAgentsKept

\* What the index held before a deployment is there after it, sessions keep
\* what they ingested, and agents are registered as reported, for any sessions,
\* slugs, deployments and threads (deploy.py, session.py,
\* foundry_provisioning.py).
THEOREM DeploymentsAreSound == Spec => []DeploymentsSound
  <1>1. Init => IxInv /\ RegInv
    BY IxInvInit, RegInvInit DEF Init
  <1>2. IxInv /\ RegInv /\ [Next]_Everything => IxInv' /\ RegInv'
    <2>1. ASSUME [Next]_Everything
          PROVE  (AzNext \/ UNCHANGED azVars) /\ (RgNext \/ UNCHANGED rgVars)
      BY <2>1 DEF Next, Everything
    <2>2. QED
      BY <2>1, IxInvStep, IxInvStays, RegInvStep, RegInvStays
  <1>3. IxInv /\ RegInv => DeploymentsSound
    BY RegInvSound DEF IxInv, DeploymentsSound
  <1>4. QED
    BY <1>1, <1>2, <1>3, PTL DEF Spec

-----------------------------------------------------------------------------
(***************************************************************************)
(* The commentary on a run                                                 *)
(***************************************************************************)
\* What a run says of its own, and its events: each later than the one before.
OwnSources == {"routine", "agent:vlm"}
Commentary(r) == [trace : {r}, source : OwnSources, count : Int, at : Nat]
Commentaries == [trace : EvRuns, source : OwnSources, count : Int, at : Nat]
Makes(r, made) ==
    /\ made \in Seq(Commentary(r))
    /\ \A i, j \in 1..Len(made) : i < j => made[i].at < made[j].at

CommentaryRecords == [pc : {"new", "emit", "flush", "done", "failed"}, todo : Seq(Commentaries),
               made : Nat, db : Seq(Commentaries), otel : Seq(Commentaries)]

\* A buffer holds the events of a run from one place up to another.
Holds(buffer, made, from, to) ==
    Len(buffer) = to - from /\ \A i \in 1..Len(buffer) : buffer[i] = made[from + i]

\* The rows of a run in the database are its first events, each once.
Own(e, r) == e.trace = r /\ e.source \in OwnSources
RowsOf(store, r) == {n \in DOMAIN store : Own(store[n], r)}
Stored(store, r, made, j) ==
    /\ \A n \in RowsOf(store, r) : \E i \in 1..j : store[n] = made[i]
    /\ \A i \in 1..j : \E n \in RowsOf(store, r) : store[n] = made[i]
    /\ \A m, n \in RowsOf(store, r) : store[m] = store[n] => m = n

\* What the collector has of a run: nothing, or all its events - of a run
\* whose database comes first, no earlier than that has all of them.
Exported(r) == OfRun(evSent["logs"], r)
EventsOf(made) == {made[i] : i \in 1..Len(made)}
Collects(r, made, j) ==
    \/ Exported(r) = {}
    \/ /\ Exported(r) = EventsOf(made)
       /\ SinkBefore("db", "otel") => j = Len(made)

\* A run that has emitted k of its events and stored j of them.
RunAt(r, made, k, j) ==
    /\ Makes(r, made) /\ evRun[r].made = Len(made)
    /\ Holds(evRun[r].todo, made, k, Len(made))
    /\ Stored(evStore, r, made, j)
    /\ Collects(r, made, j)
    /\ evRun[r].pc = "new" => evRun[r].made = 0
    /\ evRun[r].pc \in {"flush", "done"} => k = Len(made)
    /\ evRun[r].pc # "failed" /\ HasSink("db") => Holds(evRun[r].db, made, j, k)
    /\ evRun[r].pc = "done" => evRun[r].db = <<>>
    /\ evRun[r].pc # "failed" /\ ~HasSink("db") => evRun[r].db = <<>>
    /\ evRun[r].pc \in {"new", "emit"} => Exported(r) = {}
    /\ evRun[r].pc \in {"new", "emit"} /\ HasSink("otel") => Holds(evRun[r].otel, made, 0, k)
    /\ evRun[r].pc \in {"new", "emit"} /\ ~HasSink("otel") => evRun[r].otel = <<>>
    /\ evRun[r].pc = "flush" /\ evRun[r].otel # <<>> =>
           Exported(r) = {} /\ Holds(evRun[r].otel, made, 0, Len(made))

RunSound(r) == \E made : \E k \in Nat, j \in Nat : j <= k /\ k <= Len(made) /\ RunAt(r, made, k, j)

\* A sequence, of whatever it holds.
Listed(s) == \E T : s \in Seq(T)

EvInv ==
    /\ evClock \in Nat
    /\ evRun \in [EvRuns -> CommentaryRecords]
    /\ Listed(evStore)
    /\ evSent = [s \in Signals |-> evSent[s]]
    /\ \A r \in EvRuns : RunSound(r)

\* One list of two, one behind the other.
Joined(s, t, both, m, n) ==
    /\ m = Len(s) /\ n = Len(t) /\ DOMAIN s = 1..m /\ DOMAIN t = 1..n
    /\ Listed(both) /\ DOMAIN both = 1..(m + n)
    /\ \A i \in 1..m : both[i] = s[i]
    /\ \A i \in 1..n : both[m + i] = t[i]

LEMMA ListsJoin ==
  ASSUME NEW s, Listed(s), NEW t, Listed(t)
  PROVE  \E m \in Nat, n \in Nat : Joined(s, t, s \o t, m, n)
  <1>1. PICK A, B : s \in Seq(A) /\ t \in Seq(B)
    BY DEF Listed
  <1>2. PICK m \in Nat, n \in Nat : /\ m = Len(s) /\ n = Len(t)
                                    /\ s \in [1..m -> A] /\ t \in [1..n -> B]
    BY <1>1, LenProperties
  <1>3. s \in [1..m -> A \cup B] /\ t \in [1..n -> A \cup B]
    BY <1>2
  <1>4. s \in Seq(A \cup B) /\ t \in Seq(A \cup B)
    BY <1>3, IsASeq
  <1>5. /\ s \o t \in Seq(A \cup B) /\ Len(s \o t) = m + n
        /\ \A i \in 1..(m + n) : (s \o t)[i] = IF i <= m THEN s[i] ELSE t[i - m]
    BY <1>2, <1>4, ConcatProperties
  <1>6. \A i \in 1..m : i \in 1..(m + n) /\ i <= m
    OBVIOUS
  <1>7. \A i \in 1..n : m + i \in 1..(m + n) /\ ~(m + i <= m) /\ (m + i) - m = i
    OBVIOUS
  <1>8. DOMAIN (s \o t) = 1..(m + n)
    BY <1>5, LenProperties
  <1>9. Listed(s \o t)
    BY <1>5 DEF Listed
  <1>10. \A i \in 1..m : (s \o t)[i] = s[i]
    BY <1>5, <1>6
  <1>11. \A i \in 1..n : (s \o t)[m + i] = t[i]
    BY <1>5, <1>7
  <1>12. DOMAIN s = 1..m /\ DOMAIN t = 1..n
    BY <1>2
  <1>13. QED
    BY <1>2, <1>8, <1>9, <1>10, <1>11, <1>12 DEF Joined

\* Rows that are not a run's own leave what is stored of it.
LEMMA OthersRows ==
  ASSUME NEW store, Listed(store), NEW more, Listed(more), NEW r, NEW made, NEW j,
         Stored(store, r, made, j), RowsOf(more, r) = {}
  PROVE  Stored(store \o more, r, made, j)
  <1>0. PICK both : both = store \o more
    OBVIOUS
  <1>1. PICK m \in Nat, n \in Nat : Joined(store, more, both, m, n)
    BY <1>0, ListsJoin
  <1>2. RowsOf(both, r) = RowsOf(store, r)
    <2>1. ASSUME NEW x \in 1..(m + n), Own(both[x], r) PROVE x \in RowsOf(store, r)
      <3>1. CASE x \in 1..m
        BY <1>1, <2>1, <3>1 DEF RowsOf, Joined
      <3>2. CASE x \notin 1..m
        <4>1. x - m \in 1..n /\ m + (x - m) = x
          BY <3>2
        <4>2. both[x] = more[x - m]
          BY <1>1, <4>1 DEF Joined
        <4>3. x - m \in RowsOf(more, r)
          BY <1>1, <2>1, <4>1, <4>2 DEF RowsOf, Joined
        <4>4. QED
          BY <4>3
      <3>3. QED
        BY <3>1, <3>2
    <2>2. ASSUME NEW x \in RowsOf(store, r) PROVE x \in RowsOf(both, r)
      <3>1. x \in 1..m /\ Own(store[x], r)
        BY <1>1 DEF RowsOf, Joined
      <3>2. x \in 1..(m + n) /\ both[x] = store[x]
        BY <1>1, <3>1 DEF Joined
      <3>3. QED
        BY <1>1, <3>1, <3>2 DEF RowsOf, Joined
    <2>3. DOMAIN both = 1..(m + n)
      BY <1>1 DEF Joined
    <2>4. QED
      BY <2>1, <2>2, <2>3 DEF RowsOf
  <1>3. \A x \in RowsOf(store, r) : both[x] = store[x]
    BY <1>1 DEF RowsOf, Joined
  <1>4. PICK R : R = RowsOf(store, r) /\ R = RowsOf(both, r)
    BY <1>2
  <1>5. /\ \A x \in R : \E i \in 1..j : store[x] = made[i]
        /\ \A i \in 1..j : \E x \in R : store[x] = made[i]
        /\ \A x, y \in R : store[x] = store[y] => x = y
    BY <1>4, Zenon DEF Stored
  <1>6. /\ \A x \in R : \E i \in 1..j : both[x] = made[i]
        /\ \A i \in 1..j : \E x \in R : both[x] = made[i]
        /\ \A x, y \in R : both[x] = both[y] => x = y
    BY <1>3, <1>4, <1>5
  <1>7. QED
    BY <1>0, <1>4, <1>6, Zenon DEF Stored

\* A buffer that is written adds the next events of its run.
LEMMA BufferStored ==
  ASSUME NEW store, Listed(store), NEW buffer, Listed(buffer), NEW r, NEW made, Makes(r, made),
         NEW j \in Nat, NEW k \in Nat, j <= k, k <= Len(made), Stored(store, r, made, j),
         Holds(buffer, made, j, k)
  PROVE  Stored(store \o buffer, r, made, k)
  <1>0. PICK all : all = store \o buffer
    OBVIOUS
  <1>a. PICK m \in Nat, n \in Nat : Joined(store, buffer, all, m, n)
    BY <1>0, ListsJoin
  <1>1. /\ n = Len(buffer)
        /\ DOMAIN store = 1..m /\ DOMAIN buffer = 1..n /\ DOMAIN all = 1..(m + n)
        /\ \A i \in 1..m : all[i] = store[i]
        /\ \A i \in 1..n : all[m + i] = buffer[i]
    BY <1>a DEF Joined
  <1>2. PICK len \in Nat : len = Len(made) /\ made \in [1..len -> Commentary(r)]
    BY LenProperties DEF Makes
  <1>3. n = k - j /\ \A i \in 1..n : buffer[i] = made[j + i]
    BY <1>1 DEF Holds
  <1>4. \A a, b \in 1..len : made[a] = made[b] => a = b
    <2>1. \A a, b \in 1..len : a < b => made[a].at < made[b].at
      BY <1>2 DEF Makes
    <2>2. \A a \in 1..len : made[a].at \in Nat
      BY <1>2 DEF Commentary
    <2>3. \A a, b \in 1..len : a < b => made[a] # made[b]
      BY <2>1, <2>2
    <2>4. QED
      BY <2>3
  <1>5. \A a \in 1..len : Own(made[a], r)
    BY <1>2 DEF Own, Commentary
  <1>6. ASSUME NEW x \in RowsOf(all, r)
        PROVE  \/ x \in RowsOf(store, r) /\ all[x] = store[x]
               \/ \E i \in 1..n : x = m + i /\ all[x] = made[j + i]
    <2>1. x \in 1..(m + n) /\ Own(all[x], r)
      BY <1>1 DEF RowsOf
    <2>2. CASE x \in 1..m
      <3>1. all[x] = store[x]
        BY <1>1, <2>2
      <3>2. QED
        BY <1>1, <2>1, <2>2, <3>1 DEF RowsOf
    <2>3. CASE x \notin 1..m
      <3>1. x - m \in 1..n /\ x = m + (x - m)
        BY <2>1, <2>3
      <3>2. all[x] = buffer[x - m]
        BY <1>1, <3>1
      <3>3. QED
        BY <1>3, <3>1, <3>2
    <2>4. QED
      BY <2>2, <2>3
  <1>7. ASSUME NEW x \in RowsOf(store, r) PROVE x \in RowsOf(all, r) /\ all[x] = store[x] /\ x \in 1..m
    <2>1. x \in 1..m /\ Own(store[x], r)
      BY <1>1 DEF RowsOf
    <2>2. x \in 1..(m + n) /\ all[x] = store[x]
      BY <1>1, <2>1
    <2>3. x \in DOMAIN all
      BY <1>1, <2>2
    <2>4. Own(all[x], r)
      BY <2>1, <2>2
    <2>5. x \in RowsOf(all, r)
      BY <2>3, <2>4 DEF RowsOf
    <2>6. QED
      BY <2>1, <2>2, <2>5
  <1>8. \A i \in 1..n : j + i \in 1..k /\ j + i \in 1..len /\ ~(j + i \in 1..j)
    BY <1>2, <1>3
  <1>9. ASSUME NEW i \in 1..n PROVE m + i \in RowsOf(all, r) /\ all[m + i] = made[j + i]
    <2>1. m + i \in 1..(m + n) /\ all[m + i] = made[j + i]
      <3>1. all[m + i] = buffer[i] /\ buffer[i] = made[j + i]
        BY <1>1, <1>3
      <3>2. m + i \in 1..(m + n)
        OBVIOUS
      <3>3. QED
        BY <3>1, <3>2
    <2>2. Own(made[j + i], r)
      BY <1>5, <1>8
    <2>3. QED
      BY <1>1, <2>1, <2>2 DEF RowsOf
  <1>10. /\ \A x \in RowsOf(store, r) : \E i \in 1..j : store[x] = made[i]
         /\ \A i \in 1..j : \E x \in RowsOf(store, r) : store[x] = made[i]
         /\ \A x, y \in RowsOf(store, r) : store[x] = store[y] => x = y
    BY DEF Stored
  <1>11. \A i \in 1..j : i \in 1..k /\ i \in 1..len
    BY <1>2
  <1>12. \A x \in RowsOf(all, r) : \E i \in 1..k : all[x] = made[i]
    BY <1>6, <1>8, <1>10, <1>11
  <1>13. ASSUME NEW i \in 1..k PROVE \E x \in RowsOf(all, r) : all[x] = made[i]
    <2>1. CASE i \in 1..j
      BY <1>7, <1>10, <2>1
    <2>2. CASE i \notin 1..j
      <3>1. i - j \in 1..n /\ j + (i - j) = i
        BY <1>3, <2>2
      <3>2. QED
        BY <1>9, <3>1
    <2>3. QED
      BY <2>1, <2>2
  <1>14. ASSUME NEW x \in RowsOf(all, r), NEW y \in RowsOf(all, r), all[x] = all[y]
         PROVE  x = y
    <2>1. CASE x \in RowsOf(store, r) /\ all[x] = store[x] /\ y \in RowsOf(store, r) /\ all[y] = store[y]
      BY <1>10, <1>14, <2>1
    <2>2. ASSUME NEW a \in RowsOf(store, r), NEW i \in 1..n, store[a] = made[j + i] PROVE FALSE
      <3>1. PICK h \in 1..j : store[a] = made[h]
        BY <1>10
      <3>2. h = j + i
        BY <1>4, <1>8, <1>11, <2>2, <3>1
      <3>3. QED
        BY <1>8, <3>1, <3>2
    <2>3. ASSUME NEW i \in 1..n, NEW h \in 1..n, x = m + i, y = m + h, made[j + i] = made[j + h]
          PROVE  x = y
      <3>1. j + i = j + h
        BY <1>4, <1>8, <2>3
      <3>2. i = h
        BY <3>1
      <3>3. QED
        BY <2>3, <3>2
    <2>4. CASE \E i \in 1..n : x = m + i /\ all[x] = made[j + i]
      <3>1. PICK i \in 1..n : x = m + i /\ all[x] = made[j + i]
        BY <2>4
      <3>2. CASE y \in RowsOf(store, r) /\ all[y] = store[y]
        BY <1>14, <2>2, <3>1, <3>2
      <3>3. CASE \E h \in 1..n : y = m + h /\ all[y] = made[j + h]
        BY <1>14, <2>3, <3>1, <3>3
      <3>4. QED
        BY <1>6, <3>2, <3>3
    <2>5. CASE x \in RowsOf(store, r) /\ all[x] = store[x]
      <3>1. CASE \E h \in 1..n : y = m + h /\ all[y] = made[j + h]
        BY <1>14, <2>2, <2>5, <3>1
      <3>2. QED
        BY <1>6, <2>1, <2>5, <3>1
    <2>6. QED
      BY <1>6, <2>4, <2>5
  <1>15. QED
    BY <1>0, <1>12, <1>13, <1>14, Zenon DEF Stored

\* The events of a run are nobody else's.
LEMMA NoOthersEvents ==
  ASSUME NEW r, NEW made, Makes(r, made), NEW buffer, Listed(buffer), NEW from \in Nat, NEW to \in Nat,
         to <= Len(made), Holds(buffer, made, from, to), NEW q, q # r
  PROVE  RowsOf(buffer, q) = {} /\ OfRun(Range(buffer), q) = {}
  <1>1. PICK n \in Nat : n = Len(buffer) /\ DOMAIN buffer = 1..n
    BY LenProperties DEF Listed
  <1>2. PICK len \in Nat : len = Len(made) /\ made \in [1..len -> Commentary(r)]
    BY LenProperties DEF Makes
  <1>3. n = to - from /\ \A i \in 1..n : buffer[i] = made[from + i]
    BY <1>1 DEF Holds
  <1>4. \A i \in 1..n : from + i \in 1..len
    BY <1>2, <1>3
  <1>5. \A i \in 1..n : buffer[i].trace = r
    BY <1>2, <1>3, <1>4 DEF Commentary
  <1>6. RowsOf(buffer, q) = {}
    BY <1>1, <1>5 DEF RowsOf, Own
  <1>7. OfRun(Range(buffer), q) = {}
    BY <1>1, <1>5 DEF OfRun, Range
  <1>8. QED
    BY <1>6, <1>7

\* A run keeps what it has while others move.
LEMMA RunKept ==
  ASSUME NEW q, RunSound(q), Listed(evStore), evSinks' = evSinks, evRun'[q] = evRun[q],
         OfRun(evSent'["logs"], q) = OfRun(evSent["logs"], q),
         NEW more, Listed(more), RowsOf(more, q) = {},
         evStore' = evStore \/ evStore' = evStore \o more
  PROVE  RunSound(q)'
  <1>0. PICK made : \E k \in Nat, j \in Nat : j <= k /\ k <= Len(made) /\ RunAt(q, made, k, j)
    BY DEF RunSound
  <1>1. PICK k \in Nat, j \in Nat : j <= k /\ k <= Len(made) /\ RunAt(q, made, k, j)
    BY <1>0
  <1>2. Stored(evStore', q, made, j)
    <2>1. Stored(evStore, q, made, j)
      BY <1>1 DEF RunAt
    <2>2. QED
      BY <2>1, OthersRows
  <1>3. \A s : HasSink(s)' <=> HasSink(s)
    BY DEF HasSink
  <1>4. \A s, u : SinkBefore(s, u)' <=> SinkBefore(s, u)
    BY DEF SinkBefore
  <1>5. Exported(q)' = Exported(q)
    BY DEF Exported
  <1>6. Collects(q, made, j)'
    <2>1. Collects(q, made, j)
      BY <1>1 DEF RunAt
    <2>2. QED
      BY <1>4, <1>5, <2>1 DEF Collects
  <1>7. RunAt(q, made, k, j)'
    BY <1>1, <1>2, <1>3, <1>5, <1>6 DEF RunAt
  <1>8. QED
    BY <1>1, <1>7 DEF RunSound

\* An event that is nobody's own in the database.
LEMMA ForeignRow ==
  ASSUME NEW e, e.source \notin OwnSources, Listed(evStore)
  PROVE  /\ Append(evStore, e) = evStore \o <<e>>
         /\ Listed(<<e>>) /\ Listed(Append(evStore, e))
         /\ \A q : RowsOf(<<e>>, q) = {}
  <1>1. Listed(<<e>>)
    <2>1. <<e>> \in Seq({e})
      OBVIOUS
    <2>2. QED
      BY <2>1 DEF Listed
  <1>2. \A q : RowsOf(<<e>>, q) = {}
    BY DEF RowsOf, Own
  <1>3. PICK T : evStore \in Seq(T)
    BY DEF Listed
  <1>4. PICK len \in Nat : len = Len(evStore) /\ evStore \in [1..len -> T]
    BY <1>3, LenProperties
  <1>5. evStore \in [1..len -> T \cup {e}]
    BY <1>4
  <1>6. evStore \in Seq(T \cup {e}) /\ e \in T \cup {e}
    BY <1>5, IsASeq
  <1>7. Append(evStore, e) = evStore \o <<e>> /\ Append(evStore, e) \in Seq(T \cup {e})
    BY <1>6, AppendIsConcat
  <1>8. QED
    BY <1>1, <1>2, <1>7 DEF Listed

\* The database, the runs and the collector after events of nobody's own.
LEMMA ForeignKeeps ==
  ASSUME EvInv, NEW e, e.source \notin OwnSources, evStore' = Append(evStore, e),
         evClock' = evClock + 1, UNCHANGED <<evSinks, evRun, evSent>>
  PROVE  EvInv'
  <1>1. /\ Append(evStore, e) = evStore \o <<e>>
        /\ Listed(<<e>>) /\ Listed(Append(evStore, e))
        /\ \A q : RowsOf(<<e>>, q) = {}
    BY ForeignRow DEF EvInv
  <1>2. ASSUME NEW q \in EvRuns PROVE RunSound(q)'
    <2>1. RunSound(q) /\ Listed(evStore)
      BY DEF EvInv
    <2>2. evRun'[q] = evRun[q] /\ OfRun(evSent'["logs"], q) = OfRun(evSent["logs"], q)
      OBVIOUS
    <2>3. evStore' = evStore \o <<e>> /\ RowsOf(<<e>>, q) = {}
      BY <1>1
    <2>4. QED
      BY <1>1, <2>1, <2>2, <2>3, RunKept
  <1>3. evClock' \in Nat
    BY DEF EvInv
  <1>4. QED
    BY <1>1, <1>2, <1>3 DEF EvInv

\* Events of clients, and summaries.
LEMMA IngestedKeeps ==
  ASSUME EvInv, NEW r, Ingested(r)
  PROVE  EvInv'
  <1>1. PICK e : e = Event(r, "external", 1, evClock + 1)
    OBVIOUS
  <1>2. e.source \notin OwnSources
    BY <1>1 DEF Event, OwnSources
  <1>3. /\ evStore' = Append(evStore, e) /\ evClock' = evClock + 1
        /\ UNCHANGED <<evSinks, evRun, evSent>>
    BY <1>1 DEF Ingested
  <1>4. QED
    BY <1>2, <1>3, ForeignKeeps

LEMMA SummaryKeeps ==
  ASSUME EvInv, NEW by, SummariseEvents(by)
  PROVE  EvInv'
  <1>1. \E trace : evStore' = Append(evStore, Event(trace, Semantic, NoMetric, evClock + 1))
    BY DEF SummariseEvents
  <1>2. PICK e : e.source = Semantic /\ evStore' = Append(evStore, e)
    BY <1>1 DEF Event
  <1>3. e.source \notin OwnSources
    BY <1>2 DEF Semantic, OwnSources
  <1>4. evClock' = evClock + 1 /\ UNCHANGED <<evSinks, evRun, evSent>>
    BY DEF SummariseEvents
  <1>5. QED
    BY <1>2, <1>3, <1>4, ForeignKeeps

\* A run's own step: the others keep what they have, and it is sound after it.
LEMMA OneRunMoves ==
  ASSUME EvInv, NEW r \in EvRuns, evSinks' = evSinks,
         NEW x \in CommentaryRecords, evRun' = [evRun EXCEPT ![r] = x],
         evClock' \in Nat, evSent' = [s \in Signals |-> evSent'[s]],
         \A q \in EvRuns \ {r} : OfRun(evSent'["logs"], q) = OfRun(evSent["logs"], q),
         NEW more, Listed(more), \A q \in EvRuns \ {r} : RowsOf(more, q) = {},
         evStore' = evStore \/ evStore' = evStore \o more,
         RunSound(r)'
  PROVE  EvInv'
  <1>1. /\ evRun \in [EvRuns -> CommentaryRecords] /\ Listed(evStore)
        /\ \A q \in EvRuns : RunSound(q)
    BY DEF EvInv
  <1>2. evRun' \in [EvRuns -> CommentaryRecords]
    BY <1>1
  <1>3. Listed(evStore')
    <2>1. \E m \in Nat, n \in Nat : Joined(evStore, more, evStore \o more, m, n)
      BY <1>1, ListsJoin
    <2>2. Listed(evStore \o more)
      BY <2>1 DEF Joined
    <2>3. QED
      BY <1>1, <2>2
  <1>4. ASSUME NEW q \in EvRuns PROVE RunSound(q)'
    <2>1. CASE q = r
      BY <2>1
    <2>2. CASE q # r
      <3>1. evRun'[q] = evRun[q]
        BY <1>1, <2>2
      <3>2. RunSound(q) /\ OfRun(evSent'["logs"], q) = OfRun(evSent["logs"], q) /\ RowsOf(more, q) = {}
        BY <1>1, <2>2
      <3>3. QED
        BY <1>1, <3>1, <3>2, RunKept
    <2>3. QED
      BY <2>1, <2>2
  <1>5. QED
    BY <1>2, <1>3, <1>4 DEF EvInv

\* The events a run makes.
LEMMA EventsMade ==
  ASSUME NEW r, NEW found \in EvFindings, evClock \in Nat,
         NEW made, made = [n \in DOMAIN found |-> Said(r, found[n], evClock + n)]
  PROVE  Makes(r, made) /\ Len(made) = Len(found)
  <1>1. PICK len \in Nat : len = Len(found) /\ DOMAIN found = 1..len
                           /\ found \in [1..len -> [count : Int, model : BOOLEAN]]
    BY EvAssumption, LenProperties
  <1>2. ASSUME NEW n \in 1..len
        PROVE  made[n] \in Commentary(r) /\ made[n].at = evClock + n
    <2>1. made[n] = Said(r, found[n], evClock + n)
      BY <1>1
    <2>2. found[n].count \in Int /\ evClock + n \in Nat
      BY <1>1
    <2>3. /\ Said(r, found[n], evClock + n).trace = r
          /\ Said(r, found[n], evClock + n).at = evClock + n
          /\ Said(r, found[n], evClock + n) \in Commentary(r)
      BY <2>2 DEF Said, Templated, Event, Commentary, OwnSources
    <2>4. QED
      BY <2>1, <2>3
  <1>3. made = [n \in 1..len |-> made[n]]
    BY <1>1
  <1>4. made \in [1..len -> Commentary(r)]
    BY <1>2, <1>3
  <1>5. made \in Seq(Commentary(r)) /\ Len(made) = len
    BY <1>4
  <1>6. \A i, j \in 1..len : i < j => made[i].at < made[j].at
    BY <1>2
  <1>7. QED
    BY <1>1, <1>5, <1>6 DEF Makes

\* A run's events are made before any is emitted.
LEMMA CommentsKeeps ==
  ASSUME EvInv, NEW r \in EvRuns, Comments(r)
  PROVE  EvInv'
  <1>1. PICK found \in EvFindings :
          /\ evRun' = [evRun EXCEPT ![r] = [EvIdle EXCEPT
                 !.pc = "emit", !.made = Len(found),
                 !.todo = [n \in DOMAIN found |-> Said(r, found[n], evClock + n)]]]
          /\ evClock' = evClock + Len(found)
    BY DEF Comments
  <1>2. UNCHANGED <<evSinks, evStore, evSent>> /\ evRun[r].pc = "new"
    BY DEF Comments
  <1>3. PICK made : made = [n \in DOMAIN found |-> Said(r, found[n], evClock + n)]
    OBVIOUS
  <1>4. Makes(r, made) /\ Len(made) = Len(found)
    BY <1>3, EventsMade DEF EvInv
  <1>5. PICK x : /\ x = [EvIdle EXCEPT !.pc = "emit", !.made = Len(found), !.todo = made]
                 /\ evRun' = [evRun EXCEPT ![r] = x]
    BY <1>1, <1>3
  <1>6. evRun \in [EvRuns -> CommentaryRecords] /\ evClock \in Nat
    BY DEF EvInv
  <1>7. evRun'[r] = x
    BY <1>5, <1>6
  <1>8. PICK len \in Nat : len = Len(made) /\ made \in [1..len -> Commentary(r)]
    BY <1>4, LenProperties DEF Makes
  <1>9. made \in Seq(Commentaries)
    <2>1. made \in [1..len -> Commentaries]
      BY <1>8 DEF Commentary, Commentaries
    <2>2. QED
      BY <2>1, IsASeq
  <1>a. /\ x.pc = "emit" /\ x.todo = made /\ x.made = Len(found)
        /\ x.db = <<>> /\ x.otel = <<>>
    BY <1>5 DEF EvIdle
  <1>b. x = [pc |-> x.pc, todo |-> x.todo, made |-> x.made, db |-> x.db, otel |-> x.otel]
    BY <1>5 DEF EvIdle
  <1>c. Len(found) \in Nat /\ <<>> \in Seq(Commentaries)
    BY <1>4, <1>8
  <1>10. x \in CommentaryRecords
    BY <1>9, <1>a, <1>b, <1>c DEF CommentaryRecords
  <1>11. PICK old : \E k \in Nat, j \in Nat : j <= k /\ k <= Len(old) /\ RunAt(r, old, k, j)
    BY DEF EvInv, RunSound
  <1>12. PICK k \in Nat, j \in Nat : j <= k /\ k <= Len(old) /\ RunAt(r, old, k, j)
    BY <1>11
  <1>13. j = 0 /\ Exported(r) = {} /\ Stored(evStore, r, old, j)
    <2>1. Len(old) = 0
      BY <1>2, <1>12 DEF RunAt
    <2>2. j = 0
      BY <1>12, <2>1
    <2>3. QED
      BY <1>2, <1>12, <2>2 DEF RunAt
  <1>14. Stored(evStore, r, made, 0)
    BY <1>13 DEF Stored
  <1>15. RunAt(r, made, 0, 0)'
    <2>1. Holds(made, made, 0, Len(made))
      BY <1>8 DEF Holds
    <2>2. Holds(<<>>, made, 0, 0)
      BY DEF Holds
    <2>3. Exported(r)' = {} /\ Collects(r, made, 0)'
      BY <1>2, <1>13 DEF Exported, Collects
    <2>4. evStore' = evStore
      BY <1>2
    <2>5. /\ x.pc = "emit" /\ x.todo = made /\ x.made = Len(made) /\ x.db = <<>> /\ x.otel = <<>>
      BY <1>4, <1>a
    <2>6. QED
      BY <1>4, <1>7, <1>14, <2>1, <2>2, <2>3, <2>4, <2>5 DEF RunAt
  <1>16. RunSound(r)'
    <2>1. 0 <= 0 /\ 0 <= Len(made)
      BY <1>8
    <2>2. QED
      BY <1>15, <2>1 DEF RunSound
  <1>17. /\ Listed(<<>>) /\ \A q : RowsOf(<<>>, q) = {}
    BY DEF Listed, RowsOf
  <1>18. evClock' \in Nat
    BY <1>1, <1>4, <1>6, <1>8
  <1>19. evSent' = [s \in Signals |-> evSent'[s]]
    BY <1>2 DEF EvInv
  <1>20. QED
    BY <1>2, <1>5, <1>10, <1>16, <1>17, <1>18, <1>19, OneRunMoves

\* The next event of a run, and the list without it.
EventTaken(todo, made, k, len) ==
    /\ k + 1 <= len /\ Head(todo) = made[k + 1] /\ Head(todo) \in Commentaries
    /\ Tail(todo) \in Seq(Commentaries) /\ Holds(Tail(todo), made, k + 1, len)

LEMMA NextEvent ==
  ASSUME NEW todo \in Seq(Commentaries), todo # <<>>, NEW made, NEW k \in Nat,
         NEW len \in Nat, k <= len, Holds(todo, made, k, len)
  PROVE  EventTaken(todo, made, k, len)
  <1>1. PICK n \in Nat : n = Len(todo) /\ n # 0
    BY LenProperties, EmptySeq
  <1>2. n = len - k /\ \A i \in 1..n : todo[i] = made[k + i]
    BY <1>1 DEF Holds
  <1>3. /\ Head(todo) = todo[1] /\ Head(todo) \in Commentaries
        /\ Tail(todo) \in Seq(Commentaries) /\ Len(Tail(todo)) = n - 1
        /\ \A i \in 1..n - 1 : Tail(todo)[i] = todo[i + 1]
    BY <1>1, HeadTailProperties
  <1>4. 1 \in 1..n /\ k + 1 <= len /\ n - 1 = len - (k + 1)
    BY <1>1, <1>2
  <1>5. \A i \in 1..n - 1 : i + 1 \in 1..n /\ k + (i + 1) = (k + 1) + i
    BY <1>1
  <1>6. Head(todo) = made[k + 1]
    BY <1>2, <1>3, <1>4
  <1>7. \A i \in 1..n - 1 : Tail(todo)[i] = made[(k + 1) + i]
    BY <1>2, <1>3, <1>5
  <1>8. Holds(Tail(todo), made, k + 1, len)
    BY <1>3, <1>4, <1>7 DEF Holds
  <1>9. QED
    BY <1>3, <1>4, <1>6, <1>8 DEF EventTaken

\* A buffer with the next event.
LEMMA BufferGrows ==
  ASSUME NEW buffer \in Seq(Commentaries), NEW made, NEW from \in Nat, NEW k \in Nat, from <= k,
         Holds(buffer, made, from, k), NEW e \in Commentaries, e = made[k + 1]
  PROVE  /\ Append(buffer, e) \in Seq(Commentaries)
         /\ Holds(Append(buffer, e), made, from, k + 1)
  <1>1. PICK n \in Nat : n = Len(buffer)
    OBVIOUS
  <1>2. n = k - from /\ \A i \in 1..n : buffer[i] = made[from + i]
    BY <1>1 DEF Holds
  <1>3. /\ Append(buffer, e) \in Seq(Commentaries) /\ Len(Append(buffer, e)) = n + 1
        /\ \A i \in 1..n : Append(buffer, e)[i] = buffer[i]
        /\ Append(buffer, e)[n + 1] = e
    BY <1>1, AppendProperties
  <1>4. n + 1 = (k + 1) - from /\ from + (n + 1) = k + 1
    BY <1>2
  <1>5. \A i \in 1..n + 1 : i \in 1..n \/ i = n + 1
    OBVIOUS
  <1>6. \A i \in 1..n + 1 : Append(buffer, e)[i] = made[from + i]
    BY <1>2, <1>3, <1>4, <1>5
  <1>7. QED
    BY <1>3, <1>4, <1>6 DEF Holds

\* What is known of a run that moves.
RunFacts(r, made, k, j, len) ==
    /\ evRun[r] \in CommentaryRecords /\ evClock \in Nat /\ Listed(evStore)
    /\ evSent = [s \in Signals |-> evSent[s]]
    /\ j <= k /\ k <= len /\ len = Len(made)
    /\ RunAt(r, made, k, j)

LEMMA RunKnown ==
  ASSUME EvInv, NEW r \in EvRuns
  PROVE  \E made : \E k \in Nat, j \in Nat, len \in Nat : RunFacts(r, made, k, j, len)
  <1>1. PICK made : \E k \in Nat, j \in Nat : j <= k /\ k <= Len(made) /\ RunAt(r, made, k, j)
    BY DEF EvInv, RunSound
  <1>2. PICK k \in Nat, j \in Nat : j <= k /\ k <= Len(made) /\ RunAt(r, made, k, j)
    BY <1>1
  <1>3. PICK len \in Nat : len = Len(made)
    BY <1>2, LenProperties DEF RunAt, Makes
  <1>4. evRun[r] \in CommentaryRecords
    BY DEF EvInv
  <1>5. RunFacts(r, made, k, j, len)
    BY <1>2, <1>3, <1>4 DEF RunFacts, EvInv
  <1>6. QED
    BY <1>5

\* A sink that is flushed before another one is one of the setting.
LEMMA BeforeIsThere ==
  ASSUME NEW s, NEW u, SinkBefore(s, u)
  PROVE  HasSink(s) /\ HasSink(u)
  BY DEF SinkBefore, HasSink, Range

LEMMA StartFlushKeeps ==
  ASSUME EvInv, NEW r \in EvRuns, StartFlush(r)
  PROVE  EvInv'
  <1>1. PICK made : \E k \in Nat, j \in Nat, len \in Nat : RunFacts(r, made, k, j, len)
    BY RunKnown
  <1>2. PICK k \in Nat, j \in Nat, len \in Nat : RunFacts(r, made, k, j, len)
    BY <1>1
  <1>3. /\ evRun[r].pc = "emit" /\ evRun[r].todo = <<>>
        /\ evRun' = [evRun EXCEPT ![r].pc = "flush"]
        /\ UNCHANGED <<evSinks, evStore, evSent, evClock>>
    BY DEF StartFlush
  <1>4. evRun \in [EvRuns -> CommentaryRecords] /\ evRun[r] \in CommentaryRecords
    BY DEF EvInv
  <1>5. PICK x : x = [evRun[r] EXCEPT !.pc = "flush"]
    OBVIOUS
  <1>6. /\ evRun' = [evRun EXCEPT ![r] = x] /\ evRun'[r] = x /\ x \in CommentaryRecords
        /\ x.pc = "flush" /\ x.todo = evRun[r].todo /\ x.made = evRun[r].made
        /\ x.db = evRun[r].db /\ x.otel = evRun[r].otel
    BY <1>3, <1>4, <1>5 DEF CommentaryRecords
  <1>7. RunAt(r, made, k, j) /\ j <= k /\ k <= len /\ len = Len(made)
    BY <1>2 DEF RunFacts
  <1>8. k = len
    <2>1. Len(evRun[r].todo) = len - k /\ Len(evRun[r].todo) = 0
      BY <1>3, <1>7 DEF RunAt, Holds
    <2>2. QED
      BY <2>1
  <1>9. Exported(r) = {} /\ (evRun[r].otel # <<>> => Holds(evRun[r].otel, made, 0, len))
    BY <1>3, <1>7, <1>8 DEF RunAt
  <1>10. RunAt(r, made, k, j)'
    <2>1. Exported(r)' = {} /\ Collects(r, made, j)'
      BY <1>3, <1>9 DEF Exported, Collects
    <2>2. \A s : HasSink(s)' <=> HasSink(s)
      BY <1>3 DEF HasSink
    <2>3. QED
      BY <1>3, <1>6, <1>7, <1>8, <1>9, <2>1, <2>2 DEF RunAt
  <1>11. RunSound(r)'
    BY <1>7, <1>10 DEF RunSound
  <1>12. /\ Listed(<<>>) /\ \A q : RowsOf(<<>>, q) = {}
    BY DEF Listed, RowsOf
  <1>13. evClock' \in Nat /\ evSent' = [s \in Signals |-> evSent'[s]]
    BY <1>3 DEF EvInv
  <1>14. QED
    BY <1>3, <1>6, <1>11, <1>12, <1>13, OneRunMoves

LEMMA ReportedKeeps ==
  ASSUME EvInv, NEW r \in EvRuns, Reported(r)
  PROVE  EvInv'
  <1>1. PICK made : \E k \in Nat, j \in Nat, len \in Nat : RunFacts(r, made, k, j, len)
    BY RunKnown
  <1>2. PICK k \in Nat, j \in Nat, len \in Nat : RunFacts(r, made, k, j, len)
    BY <1>1
  <1>3. /\ evRun[r].pc = "flush" /\ evRun[r].db = <<>> /\ evRun[r].otel = <<>>
        /\ evRun' = [evRun EXCEPT ![r].pc = "done"]
        /\ UNCHANGED <<evSinks, evStore, evSent, evClock>>
    BY DEF Reported
  <1>4. evRun \in [EvRuns -> CommentaryRecords] /\ evRun[r] \in CommentaryRecords
    BY DEF EvInv
  <1>5. PICK x : x = [evRun[r] EXCEPT !.pc = "done"]
    OBVIOUS
  <1>6. /\ evRun' = [evRun EXCEPT ![r] = x] /\ evRun'[r] = x /\ x \in CommentaryRecords
        /\ x.pc = "done" /\ x.todo = evRun[r].todo /\ x.made = evRun[r].made
        /\ x.db = evRun[r].db /\ x.otel = evRun[r].otel
    BY <1>3, <1>4, <1>5 DEF CommentaryRecords
  <1>7. RunAt(r, made, k, j) /\ j <= k /\ k <= len /\ len = Len(made)
    BY <1>2 DEF RunFacts
  <1>8. RunAt(r, made, k, j)'
    <2>1. Exported(r)' = Exported(r) /\ Collects(r, made, j)'
      BY <1>3, <1>7 DEF RunAt, Exported, Collects, SinkBefore
    <2>2. \A s : HasSink(s)' <=> HasSink(s)
      BY <1>3 DEF HasSink
    <2>3. QED
      BY <1>3, <1>6, <1>7, <2>1, <2>2 DEF RunAt
  <1>9. RunSound(r)'
    BY <1>7, <1>8 DEF RunSound
  <1>10. /\ Listed(<<>>) /\ \A q : RowsOf(<<>>, q) = {}
    BY DEF Listed, RowsOf
  <1>11. evClock' \in Nat /\ evSent' = [s \in Signals |-> evSent'[s]]
    BY <1>3 DEF EvInv
  <1>12. QED
    BY <1>3, <1>6, <1>9, <1>10, <1>11, OneRunMoves

\* An event goes to the sinks; one whose turn comes after a write that fails
\* does not get it.
LEMMA EmitEventKeeps ==
  ASSUME EvInv, NEW r \in EvRuns, EmitEvent(r)
  PROVE  EvInv'
  <1>1. PICK made : \E k \in Nat, j \in Nat, len \in Nat : RunFacts(r, made, k, j, len)
    BY RunKnown
  <1>2. PICK k \in Nat, j \in Nat, len \in Nat : RunFacts(r, made, k, j, len)
    BY <1>1
  <1>3. /\ RunAt(r, made, k, j) /\ j <= k /\ k <= len /\ len = Len(made)
        /\ Listed(evStore) /\ evRun[r] \in CommentaryRecords /\ evRun \in [EvRuns -> CommentaryRecords]
    BY <1>2 DEF RunFacts, EvInv
  <1>4. PICK e, db : e = Head(evRun[r].todo) /\ db = Buffered("db", evRun[r].db, e)
    OBVIOUS
  <1>5. /\ evRun[r].pc = "emit" /\ evRun[r].todo # <<>>
        /\ UNCHANGED <<evSinks, evSent, evClock>>
        /\ \/ /\ evRun' = [evRun EXCEPT ![r].todo = Tail(@), ![r].otel = Buffered("otel", @, e),
                                        ![r].db = IF Len(db) >= EvBatch THEN <<>> ELSE db]
              /\ evStore' = IF Len(db) >= EvBatch THEN evStore \o db ELSE evStore
           \/ /\ Len(db) >= EvBatch
              /\ evRun' = [evRun EXCEPT ![r].pc = "failed", ![r].db = db,
                     ![r].otel = IF SinkBefore("otel", "db") THEN Buffered("otel", @, e) ELSE @]
              /\ evStore' = evStore
    BY <1>4 DEF EmitEvent
  <1>6. evRun[r].todo \in Seq(Commentaries) /\ evRun[r].db \in Seq(Commentaries)
        /\ evRun[r].otel \in Seq(Commentaries)
    BY <1>3 DEF CommentaryRecords
  <1>7. Holds(evRun[r].todo, made, k, len)
    BY <1>3 DEF RunAt
  <1>8. /\ k + 1 <= len /\ e = made[k + 1] /\ e \in Commentaries
        /\ Tail(evRun[r].todo) \in Seq(Commentaries)
        /\ Holds(Tail(evRun[r].todo), made, k + 1, len)
    <2>1. PICK todo : todo = evRun[r].todo
      OBVIOUS
    <2>2. todo \in Seq(Commentaries) /\ todo # <<>> /\ Holds(todo, made, k, len) /\ k <= len
      BY <1>3, <1>5, <1>6, <1>7, <2>1
    <2>3. EventTaken(todo, made, k, len)
      BY <2>2, NextEvent
    <2>4. EventTaken(evRun[r].todo, made, k, len)
      BY <2>1, <2>3
    <2>5. QED
      BY <1>4, <2>4 DEF EventTaken
  <1>9. /\ db \in Seq(Commentaries)
        /\ HasSink("db") => Holds(db, made, j, k + 1)
        /\ ~HasSink("db") => db = <<>>
    <2>1. CASE HasSink("db")
      <3>1. Holds(evRun[r].db, made, j, k)
        BY <1>3, <1>5, <2>1 DEF RunAt
      <3>2. db = Append(evRun[r].db, e)
        BY <1>4, <2>1 DEF Buffered
      <3>3. QED
        BY <1>3, <1>6, <1>8, <2>1, <3>1, <3>2, BufferGrows
    <2>2. CASE ~HasSink("db")
      <3>1. evRun[r].db = <<>>
        BY <1>3, <1>5, <2>2 DEF RunAt
      <3>2. db = <<>>
        BY <1>4, <2>2, <3>1 DEF Buffered
      <3>3. QED
        BY <2>2, <3>2
    <2>3. QED
      BY <2>1, <2>2
  <1>10. PICK otel : otel = Buffered("otel", evRun[r].otel, e)
    OBVIOUS
  <1>11. /\ otel \in Seq(Commentaries)
         /\ HasSink("otel") => Holds(otel, made, 0, k + 1)
         /\ ~HasSink("otel") => otel = <<>>
    <2>1. CASE HasSink("otel")
      <3>1. Holds(evRun[r].otel, made, 0, k)
        BY <1>3, <1>5, <2>1 DEF RunAt
      <3>2. otel = Append(evRun[r].otel, e)
        BY <1>10, <2>1 DEF Buffered
      <3>3. PICK buffer \in Seq(Commentaries) : buffer = evRun[r].otel
        BY <1>6
      <3>4. 0 \in Nat /\ 0 <= k /\ Holds(buffer, made, 0, k)
        BY <3>1, <3>3
      <3>5. Append(buffer, e) \in Seq(Commentaries) /\ Holds(Append(buffer, e), made, 0, k + 1)
        BY <1>8, <3>4, BufferGrows
      <3>6. QED
        BY <2>1, <3>2, <3>3, <3>5
    <2>2. CASE ~HasSink("otel")
      BY <1>3, <1>5, <1>6, <1>10, <2>2 DEF RunAt, Buffered
    <2>3. QED
      BY <2>1, <2>2
  <1>12. Exported(r) = {} /\ Exported(r)' = {} /\ \A i : Collects(r, made, i)'
    <2>1. Exported(r) = {}
      BY <1>3, <1>5 DEF RunAt
    <2>2. QED
      BY <1>5, <2>1 DEF Exported, Collects
  <1>13. \A s : HasSink(s)' <=> HasSink(s)
    BY <1>5 DEF HasSink
  <1>14. Makes(r, made) /\ evRun[r].made = len /\ Stored(evStore, r, made, j)
    BY <1>3 DEF RunAt
  <1>15. evClock' \in Nat /\ evSent' = [s \in Signals |-> evSent'[s]]
    BY <1>5 DEF EvInv
  <1>16. Listed(db) /\ Listed(<<>>) /\ \A q : RowsOf(<<>>, q) = {}
    BY <1>9 DEF Listed, RowsOf
  <1>17. Len(db) >= EvBatch => HasSink("db")
    <2>1. SUFFICES ASSUME ~HasSink("db"), Len(db) >= EvBatch PROVE FALSE
      OBVIOUS
    <2>2. Len(db) = 0
      BY <1>9, <2>1
    <2>3. QED
      BY <2>1, <2>2, EvAssumption
  <1>18. ASSUME Len(db) >= EvBatch, NEW q \in EvRuns \ {r} PROVE RowsOf(db, q) = {}
    BY <1>3, <1>8, <1>9, <1>14, <1>16, <1>17, <1>18, NoOthersEvents
  <1>19. ASSUME evRun' = [evRun EXCEPT ![r].todo = Tail(@), ![r].otel = Buffered("otel", @, e),
                                       ![r].db = IF Len(db) >= EvBatch THEN <<>> ELSE db],
                evStore' = IF Len(db) >= EvBatch THEN evStore \o db ELSE evStore
         PROVE  EvInv'
    <2>1. PICK rest, keep : rest = Tail(evRun[r].todo) /\ keep = IF Len(db) >= EvBatch THEN <<>> ELSE db
      OBVIOUS
    <2>2. PICK x : x = [evRun[r] EXCEPT !.todo = rest, !.otel = otel, !.db = keep]
      OBVIOUS
    <2>3. evRun' = [evRun EXCEPT ![r] = x] /\ evRun'[r] = x
      BY <1>3, <1>10, <1>19, <2>1, <2>2
    <2>4. /\ x.pc = "emit" /\ x.todo = rest /\ x.made = len /\ x.db = keep /\ x.otel = otel
      BY <1>3, <1>5, <1>14, <2>2 DEF CommentaryRecords
    <2>5. keep \in Seq(Commentaries)
      BY <1>9, <2>1
    <2>6. x \in CommentaryRecords
      BY <1>3, <1>8, <1>11, <2>1, <2>2, <2>5 DEF CommentaryRecords
    <2>7. Holds(rest, made, k + 1, Len(made))
      BY <1>3, <1>8, <2>1
    <2>8. CASE Len(db) >= EvBatch
      <3>1. evStore' = evStore \o db /\ keep = <<>> /\ HasSink("db")
        BY <1>17, <1>19, <2>1, <2>8
      <3>2. Stored(evStore \o db, r, made, k + 1)
        BY <1>3, <1>8, <1>9, <1>14, <1>16, <3>1, BufferStored
      <3>3. Holds(<<>>, made, k + 1, k + 1)
        BY DEF Holds
      <3>4. RunAt(r, made, k + 1, k + 1)'
        BY <1>3, <1>11, <1>12, <1>13, <1>14, <2>3, <2>4, <2>7, <3>1, <3>2, <3>3 DEF RunAt
      <3>5. k + 1 \in Nat /\ k + 1 <= k + 1 /\ k + 1 <= Len(made)
        BY <1>3, <1>8
      <3>6. RunSound(r)'
        BY <3>4, <3>5 DEF RunSound
      <3>7. \A q \in EvRuns \ {r} : RowsOf(db, q) = {}
        BY <1>18, <2>8
      <3>8. QED
        BY <1>5, <1>15, <1>16, <2>3, <2>6, <3>1, <3>6, <3>7, OneRunMoves
    <2>9. CASE ~(Len(db) >= EvBatch)
      <3>1. evStore' = evStore /\ keep = db
        BY <1>19, <2>1, <2>9
      <3>2. RunAt(r, made, k + 1, j)'
        BY <1>3, <1>9, <1>11, <1>12, <1>13, <1>14, <2>3, <2>4, <2>7, <3>1 DEF RunAt
      <3>3. k + 1 \in Nat /\ j <= k + 1 /\ k + 1 <= Len(made)
        BY <1>3, <1>8
      <3>4. RunSound(r)'
        BY <3>2, <3>3 DEF RunSound
      <3>5. QED
        BY <1>5, <1>15, <1>16, <2>3, <2>6, <3>1, <3>4, OneRunMoves
    <2>10. QED
      BY <2>8, <2>9
  <1>20. ASSUME evRun' = [evRun EXCEPT ![r].pc = "failed", ![r].db = db,
                     ![r].otel = IF SinkBefore("otel", "db") THEN Buffered("otel", @, e) ELSE @],
                evStore' = evStore
         PROVE  EvInv'
    <2>1. PICK keep : /\ keep = IF SinkBefore("otel", "db") THEN otel ELSE evRun[r].otel
                      /\ keep \in Seq(Commentaries)
      BY <1>6, <1>11
    <2>2. PICK x : x = [evRun[r] EXCEPT !.pc = "failed", !.db = db, !.otel = keep]
      OBVIOUS
    <2>3. evRun' = [evRun EXCEPT ![r] = x] /\ evRun'[r] = x
      BY <1>3, <1>10, <1>20, <2>1, <2>2
    <2>4. x.pc = "failed" /\ x.todo = evRun[r].todo /\ x.made = len
      BY <1>3, <1>14, <2>2 DEF CommentaryRecords
    <2>5. x \in CommentaryRecords
      BY <1>3, <1>9, <2>1, <2>2 DEF CommentaryRecords
    <2>6. RunAt(r, made, k, j)'
      BY <1>3, <1>7, <1>12, <1>14, <1>20, <2>3, <2>4 DEF RunAt
    <2>7. RunSound(r)'
      BY <1>3, <2>6 DEF RunSound
    <2>8. QED
      BY <1>5, <1>15, <1>16, <1>20, <2>3, <2>5, <2>7, OneRunMoves
  <1>21. QED
    BY <1>5, <1>19, <1>20

\* The database's buffer is written, or the commentary ends.
LEMMA FlushDatabaseKeeps ==
  ASSUME EvInv, NEW r \in EvRuns, FlushDatabase(r)
  PROVE  EvInv'
  <1>1. PICK made : \E k \in Nat, j \in Nat, len \in Nat : RunFacts(r, made, k, j, len)
    BY RunKnown
  <1>2. PICK k \in Nat, j \in Nat, len \in Nat : RunFacts(r, made, k, j, len)
    BY <1>1
  <1>3. /\ RunAt(r, made, k, j) /\ j <= k /\ k <= len /\ len = Len(made)
        /\ Listed(evStore) /\ evRun[r] \in CommentaryRecords /\ evRun \in [EvRuns -> CommentaryRecords]
    BY <1>2 DEF RunFacts, EvInv
  <1>4. PICK db : db = evRun[r].db
    OBVIOUS
  <1>5. /\ evRun[r].pc = "flush" /\ db # <<>>
        /\ \/ evRun' = [evRun EXCEPT ![r].db = <<>>] /\ evStore' = evStore \o db
           \/ evRun' = [evRun EXCEPT ![r].pc = "failed"] /\ evStore' = evStore
        /\ UNCHANGED <<evSinks, evSent, evClock>>
    BY <1>4 DEF FlushDatabase
  <1>6. /\ k = len /\ HasSink("db") /\ Holds(db, made, j, k) /\ Makes(r, made)
        /\ evRun[r].made = len /\ Holds(evRun[r].todo, made, k, len)
        /\ Stored(evStore, r, made, j) /\ Collects(r, made, j)
        /\ evRun[r].otel # <<>> => Exported(r) = {} /\ Holds(evRun[r].otel, made, 0, len)
    BY <1>3, <1>4, <1>5 DEF RunAt
  <1>7. db \in Seq(Commentaries)
    BY <1>3, <1>4 DEF CommentaryRecords
  <1>8. Listed(db) /\ Listed(<<>>) /\ \A q : RowsOf(<<>>, q) = {}
    BY <1>7 DEF Listed, RowsOf
  <1>9. evClock' \in Nat /\ evSent' = [s \in Signals |-> evSent'[s]]
    BY <1>5 DEF EvInv
  <1>10. /\ \A s : HasSink(s)' <=> HasSink(s)
         /\ \A s, u : SinkBefore(s, u)' <=> SinkBefore(s, u)
         /\ Exported(r)' = Exported(r)
    BY <1>5 DEF HasSink, SinkBefore, Exported
  <1>11. ASSUME evRun' = [evRun EXCEPT ![r].db = <<>>], evStore' = evStore \o db
         PROVE  EvInv'
    <2>1. PICK x : x = [evRun[r] EXCEPT !.db = <<>>]
      OBVIOUS
    <2>2. evRun' = [evRun EXCEPT ![r] = x] /\ evRun'[r] = x
      BY <1>3, <1>11, <2>1
    <2>3. /\ x.pc = "flush" /\ x.todo = evRun[r].todo /\ x.made = len /\ x.db = <<>>
          /\ x.otel = evRun[r].otel
      BY <1>3, <1>5, <1>6, <2>1 DEF CommentaryRecords
    <2>4. x \in CommentaryRecords
      <3>1. <<>> \in Seq(Commentaries)
        OBVIOUS
      <3>2. QED
        BY <1>3, <2>1, <3>1 DEF CommentaryRecords
    <2>5. Stored(evStore \o db, r, made, k)
      BY <1>3, <1>6, <1>8, BufferStored
    <2>6. Collects(r, made, k)'
      BY <1>3, <1>6, <1>10 DEF Collects
    <2>7. Holds(<<>>, made, k, k)
      BY DEF Holds
    <2>8. RunAt(r, made, k, k)'
      BY <1>3, <1>6, <1>10, <1>11, <2>2, <2>3, <2>5, <2>6, <2>7 DEF RunAt
    <2>9. RunSound(r)'
      <3>1. k <= k /\ k <= Len(made)
        BY <1>3
      <3>2. QED
        BY <2>8, <3>1 DEF RunSound
    <2>10. \A q \in EvRuns \ {r} : RowsOf(db, q) = {}
      BY <1>3, <1>6, <1>8, NoOthersEvents
    <2>11. QED
      BY <1>5, <1>8, <1>9, <1>11, <2>2, <2>4, <2>9, <2>10, OneRunMoves
  <1>12. ASSUME evRun' = [evRun EXCEPT ![r].pc = "failed"], evStore' = evStore
         PROVE  EvInv'
    <2>1. PICK x : x = [evRun[r] EXCEPT !.pc = "failed"]
      OBVIOUS
    <2>2. evRun' = [evRun EXCEPT ![r] = x] /\ evRun'[r] = x
      BY <1>3, <1>12, <2>1
    <2>3. x.pc = "failed" /\ x.todo = evRun[r].todo /\ x.made = len
      BY <1>3, <1>6, <2>1 DEF CommentaryRecords
    <2>4. x \in CommentaryRecords
      BY <1>3, <2>1 DEF CommentaryRecords
    <2>5. Collects(r, made, j)'
      BY <1>6, <1>10 DEF Collects
    <2>6. RunAt(r, made, k, j)'
      BY <1>3, <1>6, <1>12, <2>2, <2>3, <2>5 DEF RunAt
    <2>7. RunSound(r)'
      BY <1>3, <2>6 DEF RunSound
    <2>8. QED
      BY <1>5, <1>8, <1>9, <1>12, <2>2, <2>4, <2>7, OneRunMoves
  <1>13. QED
    BY <1>5, <1>11, <1>12

\* The collector gets all the events of a run at once.
LEMMA FlushCollectorKeeps ==
  ASSUME EvInv, NEW r \in EvRuns, FlushCollector(r)
  PROVE  EvInv'
  <1>1. PICK made : \E k \in Nat, j \in Nat, len \in Nat : RunFacts(r, made, k, j, len)
    BY RunKnown
  <1>2. PICK k \in Nat, j \in Nat, len \in Nat : RunFacts(r, made, k, j, len)
    BY <1>1
  <1>3. /\ RunAt(r, made, k, j) /\ j <= k /\ k <= len /\ len = Len(made)
        /\ Listed(evStore) /\ evRun[r] \in CommentaryRecords /\ evRun \in [EvRuns -> CommentaryRecords]
    BY <1>2 DEF RunFacts, EvInv
  <1>4. PICK otel : otel = evRun[r].otel
    OBVIOUS
  <1>5. /\ evRun[r].pc = "flush" /\ otel # <<>>
        /\ SinkBefore("db", "otel") => evRun[r].db = <<>>
        /\ evRun' = [evRun EXCEPT ![r].otel = <<>>]
        /\ evSent' = [s \in Signals |-> evSent[s] \cup Carried(s, Range(otel))]
        /\ UNCHANGED <<evSinks, evStore, evClock>>
    BY <1>4 DEF FlushCollector
  <1>6. /\ k = len /\ Makes(r, made) /\ evRun[r].made = len
        /\ Holds(evRun[r].todo, made, k, len) /\ Stored(evStore, r, made, j)
        /\ Exported(r) = {} /\ Holds(otel, made, 0, len)
        /\ HasSink("db") => Holds(evRun[r].db, made, j, k)
        /\ ~HasSink("db") => evRun[r].db = <<>>
    BY <1>3, <1>4, <1>5 DEF RunAt
  <1>7. otel \in Seq(Commentaries)
    BY <1>3, <1>4 DEF CommentaryRecords
  <1>8. Listed(otel) /\ Listed(<<>>) /\ \A q : RowsOf(<<>>, q) = {}
    BY <1>7 DEF Listed, RowsOf
  <1>9. evSent'["logs"] = evSent["logs"] \cup Range(otel)
    BY <1>5 DEF Carried, Signals
  <1>10. \A q : OfRun(evSent'["logs"], q) = OfRun(evSent["logs"], q) \cup OfRun(Range(otel), q)
    BY <1>9 DEF OfRun
  <1>11. Exported(r)' = EventsOf(made)
    <2>1. PICK n \in Nat : n = Len(otel) /\ otel \in [1..n -> Commentaries]
      BY <1>7, LenProperties
    <2>2. n = len /\ \A i \in 1..len : otel[i] = made[i]
      <3>1. Len(otel) = len - 0 /\ \A i \in 1..Len(otel) : otel[i] = made[0 + i]
        BY <1>6 DEF Holds
      <3>2. \A i \in 1..len : 0 + i = i
        OBVIOUS
      <3>3. QED
        BY <2>1, <3>1, <3>2
    <2>3. Range(otel) = EventsOf(made)
      BY <1>3, <2>1, <2>2 DEF Range, EventsOf
    <2>4. \A e \in EventsOf(made) : e.trace = r /\ e.source \in OwnSources
      <3>1. made \in [1..len -> Commentary(r)]
        BY <1>3, <1>6, LenProperties DEF Makes
      <3>2. QED
        BY <1>3, <3>1 DEF EventsOf, Commentary
    <2>5. OfRun(Range(otel), r) = EventsOf(made)
      BY <2>3, <2>4 DEF OfRun, OwnSources
    <2>6. QED
      BY <1>6, <1>10, <2>5 DEF Exported
  <1>12. SinkBefore("db", "otel") => j = len
    <2>1. SUFFICES ASSUME SinkBefore("db", "otel") PROVE j = len
      OBVIOUS
    <2>2. HasSink("db")
      BY <2>1, BeforeIsThere
    <2>3. Holds(<<>>, made, j, k)
      BY <1>5, <1>6, <2>1, <2>2
    <2>4. 0 = k - j
      BY <2>3 DEF Holds
    <2>5. QED
      BY <1>6, <2>4
  <1>13. /\ \A s : HasSink(s)' <=> HasSink(s)
         /\ \A s, u : SinkBefore(s, u)' <=> SinkBefore(s, u)
    BY <1>5 DEF HasSink, SinkBefore
  <1>14. PICK x : x = [evRun[r] EXCEPT !.otel = <<>>]
    OBVIOUS
  <1>15. evRun' = [evRun EXCEPT ![r] = x] /\ evRun'[r] = x
    BY <1>3, <1>5, <1>14
  <1>16. /\ x.pc = "flush" /\ x.todo = evRun[r].todo /\ x.made = len /\ x.db = evRun[r].db
         /\ x.otel = <<>>
    BY <1>3, <1>5, <1>6, <1>14 DEF CommentaryRecords
  <1>17. x \in CommentaryRecords
    <2>1. <<>> \in Seq(Commentaries)
      OBVIOUS
    <2>2. QED
      BY <1>3, <1>14, <2>1 DEF CommentaryRecords
  <1>18. Collects(r, made, j)'
    BY <1>3, <1>11, <1>12, <1>13 DEF Collects
  <1>19. RunAt(r, made, k, j)'
    BY <1>3, <1>5, <1>6, <1>13, <1>15, <1>16, <1>18 DEF RunAt
  <1>20. RunSound(r)'
    BY <1>3, <1>19 DEF RunSound
  <1>21. \A q \in EvRuns \ {r} : OfRun(evSent'["logs"], q) = OfRun(evSent["logs"], q)
    <2>1. \A q \in EvRuns \ {r} : OfRun(Range(otel), q) = {}
      BY <1>3, <1>6, <1>8, NoOthersEvents
    <2>2. QED
      BY <1>10, <2>1
  <1>22. evClock' \in Nat /\ evSent' = [s \in Signals |-> evSent'[s]]
    BY <1>5 DEF EvInv
  <1>23. QED
    BY <1>5, <1>8, <1>15, <1>17, <1>20, <1>21, <1>22, OneRunMoves

\* The invariant of the commentary: it holds at first, and every step keeps it.
LEMMA EvInvInit == EvInit => EvInv
  <1>1. SUFFICES ASSUME EvInit PROVE EvInv
    OBVIOUS
  <1>2. /\ evRun = [r \in EvRuns |-> EvIdle] /\ evStore = <<>> /\ evClock = 0
        /\ evSent = [s \in Signals |-> {}]
    BY <1>1 DEF EvInit
  <1>3. EvIdle \in CommentaryRecords
    <2>1. <<>> \in Seq(Commentaries) /\ 0 \in Nat
      OBVIOUS
    <2>2. QED
      BY <2>1 DEF EvIdle, CommentaryRecords
  <1>4. evRun \in [EvRuns -> CommentaryRecords]
    BY <1>2, <1>3
  <1>5. evSent["logs"] = {} /\ evSent = [s \in Signals |-> evSent[s]]
    BY <1>2 DEF Signals
  <1>6. ASSUME NEW r \in EvRuns PROVE RunSound(r)
    <2>1. /\ evRun[r].pc = "new" /\ evRun[r].todo = <<>> /\ evRun[r].made = 0
          /\ evRun[r].db = <<>> /\ evRun[r].otel = <<>>
      BY <1>2 DEF EvIdle
    <2>2. Len(<<>>) = 0 /\ 0 \in Nat /\ 0 <= 0
      OBVIOUS
    <2>3. Makes(r, <<>>) /\ Holds(<<>>, <<>>, 0, 0)
      BY DEF Makes, Holds
    <2>4. Stored(evStore, r, <<>>, 0)
      BY <1>2 DEF Stored, RowsOf
    <2>5. Exported(r) = {} /\ Collects(r, <<>>, 0)
      BY <1>5 DEF Exported, OfRun, Collects
    <2>6. RunAt(r, <<>>, 0, 0)
      BY <2>1, <2>2, <2>3, <2>4, <2>5 DEF RunAt
    <2>7. QED
      BY <2>2, <2>6 DEF RunSound
  <1>7. Listed(evStore)
    BY <1>2 DEF Listed
  <1>8. QED
    BY <1>2, <1>4, <1>5, <1>6, <1>7 DEF EvInv

LEMMA EvInvStays == EvInv /\ UNCHANGED evVars => EvInv'
  <1>1. SUFFICES ASSUME EvInv, UNCHANGED evVars PROVE EvInv'
    OBVIOUS
  <1>2. UNCHANGED <<evSinks, evRun, evStore, evSent, evClock>>
    BY <1>1 DEF evVars
  <1>3. /\ evClock \in Nat /\ evRun \in [EvRuns -> CommentaryRecords] /\ Listed(evStore)
        /\ evSent = [s \in Signals |-> evSent[s]] /\ \A r \in EvRuns : RunSound(r)
    BY <1>1 DEF EvInv
  <1>4. /\ Listed(<<>>) /\ \A q : RowsOf(<<>>, q) = {}
    BY DEF Listed, RowsOf
  <1>5. ASSUME NEW r \in EvRuns PROVE RunSound(r)'
    <2>1. evRun'[r] = evRun[r] /\ OfRun(evSent'["logs"], r) = OfRun(evSent["logs"], r)
      BY <1>2
    <2>2. QED
      BY <1>2, <1>3, <1>4, <2>1, RunKept
  <1>6. QED
    BY <1>2, <1>3, <1>5 DEF EvInv

LEMMA EvInvStep == EvInv /\ EvNext => EvInv'
  <1>1. SUFFICES ASSUME EvInv, EvNext PROVE EvInv'
    OBVIOUS
  <1>2. ASSUME NEW r \in EvRuns, Comments(r) PROVE EvInv'
    BY <1>1, <1>2, CommentsKeeps
  <1>3. ASSUME NEW r \in EvRuns, EmitEvent(r) PROVE EvInv'
    BY <1>1, <1>3, EmitEventKeeps
  <1>4. ASSUME NEW r \in EvRuns, StartFlush(r) PROVE EvInv'
    BY <1>1, <1>4, StartFlushKeeps
  <1>5. ASSUME NEW r \in EvRuns, FlushDatabase(r) PROVE EvInv'
    BY <1>1, <1>5, FlushDatabaseKeeps
  <1>6. ASSUME NEW r \in EvRuns, FlushCollector(r) PROVE EvInv'
    BY <1>1, <1>6, FlushCollectorKeeps
  <1>7. ASSUME NEW r \in EvRuns, Reported(r) PROVE EvInv'
    BY <1>1, <1>7, ReportedKeeps
  <1>8. ASSUME NEW r \in EvRuns, Ingested(r) PROVE EvInv'
    BY <1>1, <1>8, IngestedKeeps
  <1>9. ASSUME NEW by \in EvRuns \cup {"video"}, SummariseEvents(by) PROVE EvInv'
    BY <1>1, <1>9, SummaryKeeps
  <1>10. QED
    BY <1>1, <1>2, <1>3, <1>4, <1>5, <1>6, <1>7, <1>8, <1>9 DEF EvNext

\* As many events as there are places that hold one.
CountedTo(made, j) ==
    /\ IsFiniteSet({made[i] : i \in 1..j}) /\ Cardinality({made[i] : i \in 1..j}) = j
    /\ \A a, b \in 1..Len(made) : made[a].at \in Nat /\ (a < b => made[a].at < made[b].at)

LEMMA EventsCounted ==
  ASSUME NEW r, NEW made, Makes(r, made), NEW j \in Nat, j <= Len(made)
  PROVE  CountedTo(made, j)
  <1>1. PICK len \in Nat : len = Len(made) /\ made \in [1..len -> Commentary(r)]
    BY LenProperties DEF Makes
  <1>2. \A a \in 1..len : made[a].at \in Nat
    BY <1>1 DEF Commentary
  <1>3. \A a, b \in 1..len : a < b => made[a].at < made[b].at
    BY <1>1 DEF Makes
  <1>4. \A a, b \in 1..len : made[a] = made[b] => a = b
    <2>1. \A a, b \in 1..len : a < b => made[a] # made[b]
      BY <1>2, <1>3
    <2>2. QED
      BY <2>1
  <1>5. PICK place : place = [i \in 1..j |-> made[i]]
    OBVIOUS
  <1>6. \A i \in 1..j : i \in 1..len
    BY <1>1
  <1>7. place \in Bijection(1..j, {made[i] : i \in 1..j})
    BY <1>4, <1>5, <1>6, Fun_IsBij
  <1>8. ExistsBijection(1..j, {made[i] : i \in 1..j})
    BY <1>7 DEF ExistsBijection
  <1>9. IsFiniteSet(1..j) /\ Cardinality(1..j) = j
    <2>1. 1 \in Int /\ j \in Int
      OBVIOUS
    <2>2. IsFiniteSet(1..j) /\ Cardinality(1..j) = IF 1 > j THEN 0 ELSE j - 1 + 1
      BY <2>1, FS_Interval
    <2>3. (IF 1 > j THEN 0 ELSE j - 1 + 1) = j
      OBVIOUS
    <2>4. QED
      BY <2>2, <2>3
  <1>10. QED
    BY <1>1, <1>2, <1>3, <1>8, <1>9, FS_Bijection DEF CountedTo

\* The rows of a run are as many as its events among them.
LEMMA RowsCounted ==
  ASSUME NEW store, NEW r, NEW made, NEW j \in Nat, Stored(store, r, made, j),
         IsFiniteSet({made[i] : i \in 1..j})
  PROVE  Cardinality(RowsOf(store, r)) = Cardinality({made[i] : i \in 1..j})
  <1>1. /\ \A n \in RowsOf(store, r) : \E i \in 1..j : store[n] = made[i]
        /\ \A i \in 1..j : \E n \in RowsOf(store, r) : store[n] = made[i]
        /\ \A m, n \in RowsOf(store, r) : store[m] = store[n] => m = n
    BY DEF Stored
  <1>2. PICK rows, events : rows = RowsOf(store, r) /\ events = {made[i] : i \in 1..j}
    OBVIOUS
  <1>3. PICK at : at = [n \in rows |-> store[n]]
    OBVIOUS
  <1>4. at \in Bijection(rows, events)
    <2>1. \A n \in rows : store[n] \in events
      BY <1>1, <1>2
    <2>2. \A m, n \in rows : store[m] = store[n] => m = n
      BY <1>1, <1>2
    <2>3. \A e \in events : \E n \in rows : store[n] = e
      BY <1>1, <1>2
    <2>4. at \in [rows -> events] /\ \A n \in rows : at[n] = store[n]
      BY <1>3, <2>1
    <2>5. QED
      BY <2>2, <2>3, <2>4, Fun_IsBij
  <1>5. at \in Injection(rows, events) /\ at \in Surjection(rows, events)
    BY <1>4 DEF Bijection
  <1>6. QED
    BY <1>2, <1>5, FS_Injection

\* What is stored and exported of a run that has stored j of its events.
LEMMA EvInvStored == EvInv => ReportsAreStored
  <1>1. SUFFICES ASSUME EvInv, NEW r \in EvRuns
        PROVE  LET stored == OfRun(Range(evStore), r)
                   sent == OfRun(evSent["logs"], r)
               IN  /\ evRun[r].pc = "done" /\ HasSink("db") => Cardinality(stored) = evRun[r].made
                   /\ Cardinality(stored) = Cardinality({n \in DOMAIN evStore : evStore[n] \in stored})
                   /\ \A e \in stored : \A n \in DOMAIN evRun[r].todo : e.at < evRun[r].todo[n].at
                   /\ sent # {} => Cardinality(sent) = evRun[r].made
                   /\ SinkBefore("db", "otel") => sent \subseteq stored
    BY DEF ReportsAreStored
  <1>2. PICK made : \E k \in Nat, j \in Nat, len \in Nat : RunFacts(r, made, k, j, len)
    BY <1>1, RunKnown
  <1>3. PICK k \in Nat, j \in Nat, len \in Nat : RunFacts(r, made, k, j, len)
    BY <1>2
  <1>4. /\ RunAt(r, made, k, j) /\ j <= k /\ k <= len /\ len = Len(made)
        /\ evRun[r] \in CommentaryRecords
    BY <1>3 DEF RunFacts
  <1>5. /\ Makes(r, made) /\ evRun[r].made = len /\ Holds(evRun[r].todo, made, k, len)
        /\ Stored(evStore, r, made, j) /\ Collects(r, made, j)
    BY <1>4 DEF RunAt
  <1>6. PICK stored, sent : stored = OfRun(Range(evStore), r) /\ sent = Exported(r)
    OBVIOUS
  <1>7. /\ IsFiniteSet({made[i] : i \in 1..j}) /\ Cardinality({made[i] : i \in 1..j}) = j
        /\ \A a, b \in 1..len : made[a].at \in Nat /\ (a < b => made[a].at < made[b].at)
    <2>1. j <= Len(made)
      BY <1>4
    <2>2. CountedTo(made, j)
      BY <1>5, <2>1, EventsCounted
    <2>3. QED
      BY <1>4, <2>2 DEF CountedTo
  <1>8. /\ \A n \in RowsOf(evStore, r) : \E i \in 1..j : evStore[n] = made[i]
        /\ \A i \in 1..j : \E n \in RowsOf(evStore, r) : evStore[n] = made[i]
    BY <1>5 DEF Stored
  <1>9. \A n \in DOMAIN evStore : evStore[n] \in stored <=> n \in RowsOf(evStore, r)
    BY <1>6 DEF OfRun, Range, RowsOf, Own, OwnSources
  <1>10. \A e : e \in stored <=> \E n \in RowsOf(evStore, r) : e = evStore[n]
    BY <1>6 DEF OfRun, Range, RowsOf, Own, OwnSources
  <1>11. stored = {made[i] : i \in 1..j}
    BY <1>8, <1>10
  <1>12. evRun[r].pc = "done" /\ HasSink("db") => Cardinality(stored) = evRun[r].made
    <2>1. SUFFICES ASSUME evRun[r].pc = "done", HasSink("db") PROVE j = len
      BY <1>5, <1>7, <1>11
    <2>2. k = len /\ Holds(<<>>, made, j, k)
      BY <1>4, <2>1 DEF RunAt
    <2>3. 0 = k - j
      BY <2>2 DEF Holds
    <2>4. QED
      BY <2>2, <2>3
  <1>13. Cardinality(stored) = Cardinality({n \in DOMAIN evStore : evStore[n] \in stored})
    <2>1. {n \in DOMAIN evStore : evStore[n] \in stored} = RowsOf(evStore, r)
      BY <1>9 DEF RowsOf
    <2>2. QED
      BY <1>5, <1>7, <1>11, <2>1, RowsCounted
  <1>14. \A e \in stored : \A n \in DOMAIN evRun[r].todo : e.at < evRun[r].todo[n].at
    <2>1. PICK todo \in Seq(Commentaries) : todo = evRun[r].todo
      BY <1>4 DEF CommentaryRecords
    <2>2. PICK n \in Nat : n = Len(todo) /\ DOMAIN todo = 1..n
      BY LenProperties
    <2>3. n = len - k /\ \A i \in 1..n : todo[i] = made[k + i]
      BY <1>5, <2>1, <2>2 DEF Holds
    <2>4. ASSUME NEW i \in 1..j, NEW m \in 1..n PROVE made[i].at < todo[m].at
      <3>1. i \in 1..len /\ k + m \in 1..len /\ i < k + m
        BY <1>4, <2>3
      <3>2. made[i].at < made[k + m].at
        BY <1>7, <3>1
      <3>3. QED
        BY <2>3, <3>2
    <2>5. QED
      BY <1>11, <2>1, <2>2, <2>4
  <1>15. sent # {} => Cardinality(sent) = evRun[r].made
    <2>1. SUFFICES ASSUME sent # {} PROVE Cardinality(sent) = len
      BY <1>5
    <2>2. sent = {made[i] : i \in 1..len}
      BY <1>4, <1>5, <1>6, <2>1 DEF Collects, EventsOf
    <2>3. len \in Nat /\ len <= Len(made)
      BY <1>4
    <2>4. CountedTo(made, len)
      BY <1>5, <2>3, EventsCounted
    <2>5. QED
      BY <2>2, <2>4 DEF CountedTo
  <1>16. SinkBefore("db", "otel") => sent \subseteq stored
    <2>1. SUFFICES ASSUME SinkBefore("db", "otel"), sent # {} PROVE sent \subseteq stored
      OBVIOUS
    <2>2. sent = {made[i] : i \in 1..len} /\ j = len
      BY <1>4, <1>5, <1>6, <2>1 DEF Collects, EventsOf
    <2>3. QED
      BY <1>11, <2>2
  <1>17. QED
    BY <1>6, <1>12, <1>13, <1>14, <1>15, <1>16 DEF Exported

\* A run whose commentary is reported has its events in the database, each
\* once; whatever happens it has the oldest of them there; and behind the
\* database the collector has nothing that is not there
\* (emit_analysis_commentary and the sinks' emit and flush).
THEOREM CommentaryIsStored == Spec => []ReportsAreStored
  <1>1. Init => EvInv
    BY EvInvInit DEF Init
  <1>2. EvInv /\ [Next]_Everything => EvInv'
    <2>1. SUFFICES ASSUME EvInv, [Next]_Everything PROVE EvInv'
      OBVIOUS
    <2>2. EvNext \/ UNCHANGED evVars
      BY <2>1 DEF Next, Everything
    <2>3. QED
      BY <2>1, <2>2, EvInvStep, EvInvStays
  <1>3. EvInv => ReportsAreStored
    BY EvInvStored
  <1>4. QED
    BY <1>1, <1>2, <1>3, PTL DEF Spec

-----------------------------------------------------------------------------
(***************************************************************************)
(* Mission sessions                                                        *)
(***************************************************************************)
\* Where a create request is while it runs a session, or was left by a run that
\* raised, and a command while it works on one.
RunPcs == {"running", "loop", "task", "finish", "write", "written", "raised"}
CommandPcs == {"event", "check", "cancel", "save"}

Pcs == {"new", "refused", "stored", "lookup", "found", "answer", "done"}
         \cup RunPcs \cup CommandPcs

MsTypeInv == MsTypeOK /\ msPc \in [Requests -> Pcs]

\* The session of a create request exists.
Made(c) == msPc[c] \notin {"new", "refused"}

\* What requests hold exists, and a request runs one session at most.
LinkInv ==
    /\ \A i \in Ids : msStore[i] # None => Made(msStore[i])
    /\ \A c \in Creators : Made(c) => msId[c] \in Ids /\ msStore[msId[c]] # None
    /\ \A r \in Requests : msObj[r] # None => Made(msObj[r])
    /\ \A c \in Creators : msPc[c] \in {"found"} \cup RunPcs => msObj[c] # None
    /\ \A k \in Commanders : msPc[k] \in CommandPcs => msObj[k] # None
    /\ \A c \in Creators : msPc[c] \in RunPcs => c \in msRuns[msObj[c]]
    /\ \A o \in Creators : ~Made(o) => msRuns[o] = {}
    /\ \A o \in Creators, c \in Creators : c \in msRuns[o] =>
            /\ msPc[c] \in RunPcs \cup {"answer", "done"}
            /\ msPc[c] \in RunPcs => msObj[c] = o
    /\ \A k \in Commanders : msPc[k] \in {"check", "cancel"} => msCancel[msObj[k]]

LEMMA Objects ==
  ASSUME MsTypeInv, LinkInv
  PROVE  /\ \A c \in Creators : msPc[c] \in {"found"} \cup RunPcs => msObj[c] \in Creators
         /\ \A k \in Commanders : msPc[k] \in CommandPcs => msObj[k] \in Creators
         /\ \A i \in Ids : msStore[i] # None => msStore[i] \in Creators
         /\ \A c \in Creators : c \in Ids /\ c \in Requests /\ c \notin Commanders /\ c # None
         /\ \A k \in Commanders : k \in Requests /\ k \notin Creators
         /\ FixedIds \subseteq Ids
BY MsAssumption DEF MsTypeInv, MsTypeOK, LinkInv, Ids, Requests, None

LEMMA InitMs == MsInit => MsTypeInv /\ LinkInv
<1> SUFFICES ASSUME MsInit PROVE MsTypeInv /\ LinkInv
  OBVIOUS
<1>1. MsTypeOK
  BY DEF MsInit, MsTypeOK, None, Final, TaskAnswers
<1>2. msPc \in [Requests -> Pcs]
  BY DEF MsInit, Pcs
<1>3. LinkInv
  BY DEF MsInit, LinkInv, Made, RunPcs, CommandPcs, Requests
<1>4. QED
  BY <1>1, <1>2, <1>3 DEF MsTypeInv

LEMMA StepMsTypeInv == MsTypeInv /\ LinkInv /\ [MsNext]_msVars => MsTypeInv'
<1> SUFFICES ASSUME MsTypeInv, LinkInv, [MsNext]_msVars PROVE MsTypeInv'
  OBVIOUS
<1> USE DEF MsTypeInv, MsTypeOK, Go, Pcs, RunPcs, CommandPcs, Final, Persist, TaskAnswers
<1>1. ASSUME NEW c \in Creators, RefuseCreate(c) \/ Create(c) \/ SaveCreated(c) \/ GetMission(c)
      PROVE  MsTypeInv'
  <2>1. CASE RefuseCreate(c) \/ SaveCreated(c)
    BY <2>1, Objects DEF RefuseCreate, SaveCreated
  <2>2. CASE Create(c)
    BY <2>2, Objects DEF Create, Ids
  <2>3. CASE GetMission(c)
    BY <2>3, Objects DEF GetMission, LinkInv, Made
  <2>4. QED
    BY <1>1, <2>1, <2>2, <2>3
<1>2. ASSUME NEW c \in Creators, StartRun(c) \/ SaveRunning(c) \/ Loop(c) \/ RunTask(c)
      PROVE  MsTypeInv'
  BY <1>2, Objects DEF StartRun, SaveRunning, Loop, RunTask
<1>3. ASSUME NEW c \in Creators, Summarise(c) \/ WriteStatus(c) \/ SaveFinal(c) \/ Answer(c)
      PROVE  MsTypeInv'
  BY <1>3, Objects DEF Summarise, SummaryStatus, WriteStatus, SaveFinal, Answer
<1>4. ASSUME NEW k \in Commanders, SendCommand(k) \/ SetCancel(k) \/ CheckStatus(k)
                                   \/ WriteCancelled(k) \/ SaveCommand(k)
      PROVE  MsTypeInv'
  <2>1. CASE SendCommand(k)
    BY <2>1, Objects DEF SendCommand
  <2>2. CASE SetCancel(k) \/ WriteCancelled(k)
    <3>1. CASE SetCancel(k)
      BY <2>2, <3>1, Objects DEF SetCancel
    <3>2. CASE WriteCancelled(k)
      BY <2>2, <3>2, Objects DEF WriteCancelled
    <3>3. QED
      BY <2>2, <3>1, <3>2
  <2>3. CASE SaveCommand(k)
    <3>1. /\ msObj[k] \in Creators /\ msPc' = [msPc EXCEPT ![k] = "done"]
          /\ UNCHANGED <<msStore, msId, msStatus, msTask, msCancel, msObj, msSum, msRuns, msWanted>>
      BY <2>3, Objects DEF SaveCommand
    <3>2. PICK s \in {msStatus[msObj[k]], "unsaved"} : msSaved' = [msSaved EXCEPT ![msObj[k]] = s]
      BY <2>3 DEF SaveCommand
    <3>3. s \in {None, "unsaved", "created", "running"} \cup Final
      BY <3>1
    <3>4. QED
      BY <3>1, <3>2, <3>3
  <2>4. CASE CheckStatus(k)
    BY <2>4, Objects DEF CheckStatus
  <2>5. QED
    BY <1>4, <2>1, <2>2, <2>3, <2>4
<1>5. CASE UNCHANGED msVars
  BY <1>5 DEF msVars
<1>6. QED
  BY <1>1, <1>2, <1>3, <1>4, <1>5 DEF MsNext

\* A session that one request ran: what its task, its summary and its status
\* can be, by where that request is.
OnlyRun(o, c) ==
    /\ msPc[c] = "running" => msTask[o] = "pending"
    /\ msPc[c] = "task" => msTask[o] = "running"
    /\ msPc[c] = "raised" => msTask[o] \in {"pending", "running"}
    /\ msPc[c] \in {"running", "loop", "task", "raised"} =>
           \/ msStatus[o] = "running"
           \/ msStatus[o] = "cancelled" /\ msCancel[o]
    /\ msPc[c] = "finish" =>
           msTask[o] \in {"completed", "failed", "delegated", "in_progress"} \/ msCancel[o]
    /\ msPc[c] = "write" => Tells(msSum[c], o)
    /\ msPc[c] \in {"written", "answer", "done"} => Tells(msStatus[o], o)

RunInv ==
    /\ \A o \in Creators : msStatus[o] = "running" =>
           \E c \in Creators : msPc[c] \in RunPcs \ {"written"} /\ msObj[c] = o
    /\ \A c \in Creators : msPc[c] = "write" => msSum[c] \in Final
    /\ \A o \in Creators : msRuns[o] = {} => msTask[o] = "pending"
    /\ \A o, c \in Creators : msRuns[o] = {c} => OnlyRun(o, c)

\* The session found under the id of a create request is its own only while
\* no other took the id, and then that request runs it.
ReachInv ==
    \A c \in Creators : Made(c) /\ msStore[msId[c]] = c =>
        /\ msPc[c] = "found" => msObj[c] = c
        /\ msPc[c] \in RunPcs \cup {"answer", "done"} /\ c \in msWanted => msRuns[c] # {}

\* A status the hook has not seen has a request on its way to the hook.
Owed(o) ==
    \/ msPc[o] = "stored"
    \/ \E c \in Creators : msPc[c] \in {"running", "written"} /\ msObj[c] = o
    \/ \E k \in Commanders : msPc[k] = "save" /\ msObj[k] = o

SaveInv == \A o \in Creators : msSaved[o] \in {msStatus[o], "unsaved"} \/ Owed(o)

MsInv == MsTypeInv /\ LinkInv /\ RunInv /\ ReachInv /\ SaveInv

LEMMA InitMsInv == MsInit => MsInv
BY InitMs DEF MsInit, MsInv, RunInv, ReachInv, SaveInv, OnlyRun, Requests, RunPcs, None, Ids

LEMMA StepLinkInv == MsTypeInv /\ LinkInv /\ [MsNext]_msVars => LinkInv'
<1> SUFFICES ASSUME MsTypeInv, LinkInv, [MsNext]_msVars PROVE LinkInv'
  OBVIOUS
<1> USE DEF MsTypeInv, MsTypeOK, LinkInv, Made, Go, Pcs, RunPcs, CommandPcs
<1>1. ASSUME NEW c \in Creators, RefuseCreate(c) PROVE LinkInv'
  BY <1>1, Objects DEF RefuseCreate
<1>2. ASSUME NEW c \in Creators, Create(c) PROVE LinkInv'
  BY <1>2, Objects DEF Create
<1>3. ASSUME NEW c \in Creators, SaveCreated(c) PROVE LinkInv'
  BY <1>3, Objects DEF SaveCreated
<1>4. ASSUME NEW c \in Creators, GetMission(c) PROVE LinkInv'
  BY <1>4, Objects DEF GetMission
<1>5. ASSUME NEW c \in Creators, StartRun(c) PROVE LinkInv'
  BY <1>5, Objects DEF StartRun
<1>6. ASSUME NEW c \in Creators, SaveRunning(c) \/ RunTask(c) PROVE LinkInv'
  <2>1. CASE SaveRunning(c)
    BY <2>1, Objects DEF SaveRunning
  <2>2. CASE RunTask(c)
    BY <2>2, Objects DEF RunTask
  <2>3. QED
    BY <1>6, <2>1, <2>2
<1>7. ASSUME NEW c \in Creators, Loop(c) PROVE LinkInv'
  <2>1. /\ msPc[c] = "loop" /\ msObj[c] \in Creators
        /\ \E x \in {"finish", "task"} : msPc' = [msPc EXCEPT ![c] = x]
        /\ UNCHANGED <<msStore, msId, msStatus, msCancel, msObj, msRuns>>
    BY <1>7, Objects DEF Loop
  <2>2. QED
    BY <2>1, Objects
<1>8. ASSUME NEW c \in Creators, Summarise(c) \/ WriteStatus(c) \/ SaveFinal(c) PROVE LinkInv'
  <2>1. CASE Summarise(c)
    BY <2>1, Objects DEF Summarise
  <2>2. CASE WriteStatus(c)
    BY <2>2, Objects DEF WriteStatus
  <2>3. CASE SaveFinal(c)
    BY <2>3, Objects DEF SaveFinal
  <2>4. QED
    BY <1>8, <2>1, <2>2, <2>3
<1>9. ASSUME NEW c \in Creators, Answer(c) PROVE LinkInv'
  BY <1>9, Objects DEF Answer
<1>10. ASSUME NEW k \in Commanders, SendCommand(k) PROVE LinkInv'
  BY <1>10, Objects DEF SendCommand
<1>11. ASSUME NEW k \in Commanders, SetCancel(k) PROVE LinkInv'
  BY <1>11, Objects DEF SetCancel
<1>12. ASSUME NEW k \in Commanders, CheckStatus(k) PROVE LinkInv'
  BY <1>12, Objects DEF CheckStatus
<1>13. ASSUME NEW k \in Commanders, WriteCancelled(k) \/ SaveCommand(k) PROVE LinkInv'
  <2>1. PICK pc \in {"save", "done"} :
          /\ msPc[k] \in {"cancel", "save"} /\ msPc' = [msPc EXCEPT ![k] = pc]
          /\ UNCHANGED <<msStore, msId, msObj, msCancel, msRuns>>
    BY <1>13 DEF WriteCancelled, SaveCommand
  <2>2. QED
    BY <2>1, Objects
<1>14. CASE UNCHANGED msVars
  BY <1>14 DEF msVars
<1>15. QED
  BY <1>1, <1>2, <1>3, <1>4, <1>5, <1>6, <1>7, <1>8, <1>9, <1>10, <1>11, <1>12, <1>13, <1>14
     DEF MsNext

LEMMA StepReachInv == MsTypeInv /\ LinkInv /\ ReachInv /\ [MsNext]_msVars => ReachInv'
<1> SUFFICES ASSUME MsTypeInv, LinkInv, ReachInv, [MsNext]_msVars PROVE ReachInv'
  OBVIOUS
<1> USE DEF MsTypeInv, MsTypeOK, ReachInv, Made, Go, Pcs, RunPcs
<1>1. ASSUME NEW c \in Creators, RefuseCreate(c) PROVE ReachInv'
  BY <1>1, Objects DEF RefuseCreate
<1>2. ASSUME NEW c \in Creators, Create(c) PROVE ReachInv'
  <2>1. PICK i \in FixedIds \cup {c} :
           msId' = [msId EXCEPT ![c] = i] /\ msStore' = [msStore EXCEPT ![i] = c]
    BY <1>2 DEF Create
  <2>2. /\ msPc' = [msPc EXCEPT ![c] = "stored"] /\ msObj' = msObj /\ msRuns' = msRuns
        /\ msWanted' \subseteq msWanted \cup {c}
    BY <1>2 DEF Create
  <2>3. c \in Requests /\ \A d \in Creators : d \in Requests
    BY Objects
  <2>4. SUFFICES ASSUME NEW d \in Creators, Made(d)', msStore'[msId'[d]] = d
                 PROVE  /\ msPc'[d] = "found" => msObj'[d] = d
                        /\ msPc'[d] \in RunPcs \cup {"answer", "done"} /\ d \in msWanted'
                               => msRuns'[d] # {}
    OBVIOUS
  <2>5. CASE d = c
    <3>1. msPc'[c] = "stored"
      BY <2>2, <2>3
    <3>2. QED
      BY <2>5, <3>1
  <2>6. CASE d # c
    <3>1. /\ msPc'[d] = msPc[d] /\ msId'[d] = msId[d] /\ (d \in msWanted' => d \in msWanted)
      BY <2>1, <2>2, <2>3, <2>6
    <3>2. Made(d)
      BY <2>4, <3>1
    <3>3. msStore[msId[d]] = d
      <4>1. msId[d] \in Ids
        BY <3>2 DEF LinkInv
      <4>2. msStore'[msId[d]] = IF msId[d] = i THEN c ELSE msStore[msId[d]]
        BY <2>1, <4>1
      <4>3. QED
        BY <2>4, <2>6, <3>1, <4>2
    <3>4. QED
      BY <2>2, <3>1, <3>2, <3>3
  <2>7. QED
    BY <2>5, <2>6
<1>3. ASSUME NEW c \in Creators, SaveCreated(c) PROVE ReachInv'
  BY <1>3, Objects DEF SaveCreated
<1>4. ASSUME NEW c \in Creators, GetMission(c) PROVE ReachInv'
  <2>1. /\ msPc[c] = "lookup" /\ msId[c] \in Ids
        /\ msPc' = [msPc EXCEPT ![c] = "found"]
        /\ msObj' = [msObj EXCEPT ![c] = msStore[msId[c]]]
        /\ UNCHANGED <<msStore, msId, msRuns, msWanted>>
    BY <1>4, Objects DEF GetMission, LinkInv
  <2>2. c \in Requests /\ \A d \in Creators : d \in Requests
    BY Objects
  <2>3. SUFFICES ASSUME NEW d \in Creators, Made(d)', msStore'[msId'[d]] = d
                 PROVE  /\ msPc'[d] = "found" => msObj'[d] = d
                        /\ msPc'[d] \in RunPcs \cup {"answer", "done"} /\ d \in msWanted'
                               => msRuns'[d] # {}
    OBVIOUS
  <2>4. CASE d = c
    BY <2>1, <2>2, <2>3, <2>4
  <2>5. CASE d # c
    <3>1. msPc'[d] = msPc[d] /\ msObj'[d] = msObj[d] /\ Made(d) /\ msStore[msId[d]] = d
      BY <2>1, <2>2, <2>3, <2>5
    <3>2. QED
      BY <2>1, <3>1
  <2>6. QED
    BY <2>4, <2>5
<1>5. ASSUME NEW c \in Creators, StartRun(c) PROVE ReachInv'
  <2>1. /\ msPc[c] = "found" /\ msObj[c] \in Creators
        /\ msPc' = [msPc EXCEPT ![c] = "running"]
        /\ msRuns' = [msRuns EXCEPT ![msObj[c]] = msRuns[msObj[c]] \cup {c}]
        /\ UNCHANGED <<msStore, msId, msObj, msWanted>>
    BY <1>5, Objects DEF StartRun
  <2>2. c \in Requests /\ \A d \in Creators : d \in Requests
    BY Objects
  <2>3. SUFFICES ASSUME NEW d \in Creators, Made(d)', msStore'[msId'[d]] = d
                 PROVE  /\ msPc'[d] = "found" => msObj'[d] = d
                        /\ msPc'[d] \in RunPcs \cup {"answer", "done"} /\ d \in msWanted'
                               => msRuns'[d] # {}
    OBVIOUS
  <2>4. msRuns[d] \subseteq msRuns'[d]
    BY <2>1
  <2>5. CASE d = c
    <3>1. Made(c) /\ msStore[msId[c]] = c /\ msPc'[c] = "running"
      BY <2>1, <2>2, <2>3, <2>5
    <3>2. msObj[c] = c
      BY <2>1, <3>1
    <3>3. c \in msRuns'[c]
      BY <2>1, <3>2
    <3>4. QED
      BY <2>5, <3>1, <3>3
  <2>6. CASE d # c
    <3>1. msPc'[d] = msPc[d] /\ Made(d) /\ msStore[msId[d]] = d
      BY <2>1, <2>2, <2>3, <2>6
    <3>2. QED
      BY <2>1, <2>4, <3>1
  <2>7. QED
    BY <2>5, <2>6
<1>6. ASSUME NEW c \in Creators, SaveRunning(c) \/ Loop(c) \/ RunTask(c) PROVE ReachInv'
  BY <1>6, Objects DEF SaveRunning, Loop, RunTask
<1>7. ASSUME NEW c \in Creators, Summarise(c) \/ WriteStatus(c) PROVE ReachInv'
  BY <1>7, Objects DEF Summarise, WriteStatus
<1>8. ASSUME NEW c \in Creators, SaveFinal(c) \/ Answer(c) PROVE ReachInv'
  BY <1>8, Objects DEF SaveFinal, Answer
<1>9. ASSUME NEW k \in Commanders, SendCommand(k) \/ SetCancel(k) \/ CheckStatus(k) PROVE ReachInv'
  BY <1>9, Objects DEF SendCommand, SetCancel, CheckStatus
<1>10. ASSUME NEW k \in Commanders, WriteCancelled(k) \/ SaveCommand(k) PROVE ReachInv'
  BY <1>10, Objects DEF WriteCancelled, SaveCommand
<1>11. CASE UNCHANGED msVars
  BY <1>11 DEF msVars
<1>12. QED
  BY <1>1, <1>2, <1>3, <1>4, <1>5, <1>6, <1>7, <1>8, <1>9, <1>10, <1>11 DEF MsNext

LEMMA StepRunInv == MsTypeInv /\ LinkInv /\ RunInv /\ [MsNext]_msVars => RunInv'
<1> SUFFICES ASSUME MsTypeInv, LinkInv, RunInv, [MsNext]_msVars PROVE RunInv'
  OBVIOUS
<1> USE DEF MsTypeInv, MsTypeOK, RunInv, OnlyRun, Tells, Final, Go, Pcs, RunPcs, LinkInv
<1>1. ASSUME NEW c \in Creators, RefuseCreate(c) PROVE RunInv'
  BY <1>1, Objects DEF RefuseCreate
<1>2. ASSUME NEW c \in Creators, Create(c) PROVE RunInv'
  <2>1. /\ msPc[c] = "new" /\ msRuns[c] = {} /\ \A o \in Creators : c \notin msRuns[o]
        /\ \A d \in Creators \ {c} : msPc'[d] = msPc[d] /\ msStatus'[d] = msStatus[d]
        /\ msStatus'[c] = "created" /\ msPc'[c] = "stored"
        /\ UNCHANGED <<msTask, msCancel, msObj, msSum, msRuns>>
    BY <1>2, Objects DEF Create, Made
  <2> HIDE DEF MsTypeInv, MsTypeOK, LinkInv, Go, Pcs
  <2>2. \A o \in Creators : msStatus'[o] = "running" =>
            \E d \in Creators : msPc'[d] \in RunPcs \ {"written"} /\ msObj'[d] = o
    BY <2>1
  <2>3. \A o, d \in Creators : msRuns'[o] = {d} => OnlyRun(o, d)'
    BY <2>1
  <2>4. QED
    BY <2>1, <2>2, <2>3
<1>3. ASSUME NEW c \in Creators, SaveCreated(c) PROVE RunInv'
  BY <1>3, Objects DEF SaveCreated
<1>4. ASSUME NEW c \in Creators, GetMission(c) PROVE RunInv'
  <2>1. /\ msPc[c] = "lookup" /\ msPc'[c] = "found"
        /\ \A d \in Creators \ {c} : msPc'[d] = msPc[d] /\ msObj'[d] = msObj[d]
        /\ UNCHANGED <<msStatus, msTask, msCancel, msSum, msRuns>>
    <3> HIDE DEF LinkInv, RunInv
    <3>1. QED
      BY <1>4, Objects DEF GetMission
  <2> HIDE DEF MsTypeInv, MsTypeOK, LinkInv, Go, Pcs
  <2>2. \A o \in Creators : msStatus'[o] = "running" =>
            \E d \in Creators : msPc'[d] \in RunPcs \ {"written"} /\ msObj'[d] = o
    BY <2>1
  <2>3. \A o, d \in Creators : msRuns'[o] = {d} => OnlyRun(o, d)'
    BY <2>1
  <2>4. QED
    BY <2>1, <2>2, <2>3
<1>5. ASSUME NEW c \in Creators, StartRun(c) PROVE RunInv'
  <2>1. PICK o \in Creators : o = msObj[c]
    BY <1>5, Objects DEF StartRun
  <2>2. /\ msPc[c] = "found" /\ msPc'[c] = "running" /\ msObj[c] = o
        /\ \A d \in Creators \ {c} : msPc'[d] = msPc[d]
        /\ \A q \in Creators \ {o} : msStatus'[q] = msStatus[q] /\ msRuns'[q] = msRuns[q]
        /\ msRuns'[o] = msRuns[o] \cup {c} /\ msStatus'[o] = "running"
        /\ \A q \in Creators : c \notin msRuns[q]
        /\ UNCHANGED <<msTask, msCancel, msObj, msSum>>
    <3>1. /\ msPc[c] = "found" /\ msPc'[c] = "running" /\ msObj[c] = o
          /\ \A d \in Creators \ {c} : msPc'[d] = msPc[d]
      <4> HIDE DEF LinkInv, RunInv
      <4>1. QED
        BY <1>5, <2>1, Objects DEF StartRun
    <3>2. /\ \A q \in Creators \ {o} : msStatus'[q] = msStatus[q] /\ msRuns'[q] = msRuns[q]
          /\ msRuns'[o] = msRuns[o] \cup {c} /\ msStatus'[o] = "running"
          /\ UNCHANGED <<msTask, msCancel, msObj, msSum>>
      <4> HIDE DEF LinkInv, RunInv
      <4>1. QED
        BY <1>5, <2>1 DEF StartRun
    <3>3. \A q \in Creators : c \notin msRuns[q]
      <4> HIDE DEF RunInv, MsTypeInv, MsTypeOK, Go, Pcs
      <4>1. QED
        BY <3>1
    <3>4. QED
      BY <3>1, <3>2, <3>3
  <2> HIDE DEF MsTypeInv, MsTypeOK, LinkInv, Go, Pcs
  <2>3. \A q \in Creators : msStatus'[q] = "running" =>
            \E d \in Creators : msPc'[d] \in RunPcs \ {"written"} /\ msObj'[d] = q
    BY <2>2
  <2>4. ASSUME NEW q \in Creators, NEW d \in Creators, msRuns'[q] = {d} PROVE OnlyRun(q, d)'
    <3>1. CASE q = o
      <4>1. d = c /\ msRuns[o] = {}
        BY <2>2, <2>4, <3>1
      <4>2. msTask[o] = "pending"
        BY <4>1
      <4>3. QED
        BY <2>2, <3>1, <4>1, <4>2
    <3>2. CASE q # o
      <4>1. d # c /\ OnlyRun(q, d)
        BY <2>2, <2>4, <3>2
      <4>2. QED
        BY <2>2, <3>2, <4>1
    <3>3. QED
      BY <3>1, <3>2
  <2>5. QED
    BY <2>2, <2>3, <2>4
<1>6. ASSUME NEW c \in Creators, SaveRunning(c) PROVE RunInv'
  BY <1>6, Objects DEF SaveRunning
<1>7. ASSUME NEW c \in Creators, Loop(c) PROVE RunInv'
  <2> DEFINE o == msObj[c]
  <2>1. /\ o \in Creators /\ c \in msRuns[o] /\ msPc[c] = "loop"
        /\ \A p \in Creators : c \in msRuns[p] => p = o
    BY <1>7, Objects DEF Loop
  <2>2. CASE /\ msTask[o] \in SettledTasks \/ msCancel[o]
             /\ Go(c, "loop", "finish")
             /\ UNCHANGED msTask
    <3>1. /\ \A d \in Creators \ {c} : msPc'[d] = msPc[d]
          /\ msPc'[c] = "finish"
          /\ UNCHANGED <<msTask, msStatus, msCancel, msObj, msSum, msRuns>>
      BY <1>7, <2>1, <2>2, Objects DEF Loop
    <3> HIDE DEF MsTypeInv, MsTypeOK, LinkInv, Go, Pcs
    <3>2. \A p \in Creators : msStatus'[p] = "running" =>
              \E d \in Creators : msPc'[d] \in RunPcs \ {"written"} /\ msObj'[d] = p
      BY <2>1, <3>1
    <3>3. ASSUME NEW p \in Creators, NEW d \in Creators, msRuns'[p] = {d} PROVE OnlyRun(p, d)'
      <4>1. CASE d = c
        BY <2>1, <2>2, <3>1, <3>3, <4>1 DEF SettledTasks
      <4>2. CASE d # c
        BY <3>1, <3>3, <4>2
      <4>3. QED
        BY <4>1, <4>2
    <3>4. QED
      BY <2>1, <3>1, <3>2, <3>3
  <2>3. CASE /\ msTask[o] = "pending" /\ ~msCancel[o]
             /\ Go(c, "loop", "task")
             /\ msTask' = [msTask EXCEPT ![o] = "running"]
    <3>1. /\ msRuns[o] # {} /\ \A d \in Creators : msRuns[o] = {d} => d = c
          /\ \A p \in Creators : p # o => msTask'[p] = msTask[p]
          /\ msTask'[o] = "running"
          /\ msPc'[c] = "task" /\ \A d \in Creators \ {c} : msPc'[d] = msPc[d]
          /\ UNCHANGED <<msStatus, msCancel, msObj, msSum, msRuns>>
      BY <1>7, <2>1, <2>3, Objects DEF Loop
    <3> HIDE DEF MsTypeInv, MsTypeOK, LinkInv, Go, Pcs
    <3>2. ASSUME NEW p \in Creators, NEW d \in Creators, msRuns'[p] = {d}
          PROVE  OnlyRun(p, d)'
      <4>1. CASE p = o
        <5>1. d = c /\ msPc'[c] = "task" /\ msRuns[o] = {c}
          BY <2>1, <3>1, <3>2, <4>1, Objects
        <5>2. OnlyRun(o, c)
          BY <2>1, <5>1
        <5>3. \/ msStatus[o] = "running"
              \/ msStatus[o] = "cancelled" /\ msCancel[o]
          BY <2>1, <5>2
        <5>4. msTask'[o] = "running" /\ msStatus'[o] = msStatus[o] /\ msCancel'[o] = msCancel[o]
          BY <3>1
        <5>5. QED
          BY ONLY <4>1, <5>1, <5>3, <5>4 DEF OnlyRun
      <4>2. CASE p # o
        <5>1. d # c /\ OnlyRun(p, d)
          BY <2>1, <3>1, <3>2, <4>2
        <5>2. QED
          BY <3>1, <4>2, <5>1
      <4>3. QED
        BY <4>1, <4>2
    <3>3. \A p \in Creators : msStatus'[p] = "running" =>
              \E d \in Creators : msPc'[d] \in RunPcs \ {"written"} /\ msObj'[d] = p
      BY <2>1, <3>1
    <3>4. /\ \A d \in Creators : msPc'[d] = "write" => msSum'[d] \in Final
          /\ \A p \in Creators : msRuns'[p] = {} => msTask'[p] = "pending"
      BY <2>1, <3>1
    <3>5. QED
      BY <3>2, <3>3, <3>4
  <2>4. CASE /\ msTask[o] \notin SettledTasks /\ ~msCancel[o]
             /\ Go(c, "loop", "finish")
             /\ msTask' = [msTask EXCEPT ![o] = IF @ = "in_progress" THEN @ ELSE "failed"]
    <3>1. /\ msRuns[o] # {} /\ \A d \in Creators : msRuns[o] = {d} => d = c
          /\ \A p \in Creators : p # o => msTask'[p] = msTask[p]
          /\ msTask'[o] \in {"in_progress", "failed"}
          /\ msPc'[c] = "finish" /\ \A d \in Creators \ {c} : msPc'[d] = msPc[d]
          /\ UNCHANGED <<msStatus, msCancel, msObj, msSum, msRuns>>
      BY <1>7, <2>1, <2>4, Objects DEF Loop
    <3> HIDE DEF MsTypeInv, MsTypeOK, LinkInv, Go, Pcs
    <3>2. ASSUME NEW p \in Creators, NEW d \in Creators, msRuns'[p] = {d}
          PROVE  OnlyRun(p, d)'
      <4>1. CASE p = o
        <5>1. d = c /\ msPc'[c] = "finish"
          BY <2>1, <3>1, <3>2, <4>1, Objects
        <5>2. QED
          BY <3>1, <4>1, <5>1
      <4>2. CASE p # o
        <5>1. d # c /\ OnlyRun(p, d)
          BY <2>1, <3>1, <3>2, <4>2
        <5>2. QED
          BY <3>1, <4>2, <5>1
      <4>3. QED
        BY <4>1, <4>2
    <3>3. \A p \in Creators : msStatus'[p] = "running" =>
              \E d \in Creators : msPc'[d] \in RunPcs \ {"written"} /\ msObj'[d] = p
      BY <2>1, <3>1
    <3>4. /\ \A d \in Creators : msPc'[d] = "write" => msSum'[d] \in Final
          /\ \A p \in Creators : msRuns'[p] = {} => msTask'[p] = "pending"
      BY <2>1, <3>1
    <3>5. QED
      BY <3>2, <3>3, <3>4
  <2>5. QED
    BY <1>7, <2>2, <2>3, <2>4 DEF Loop
<1>8. ASSUME NEW c \in Creators, RunTask(c) PROVE RunInv'
  <2> DEFINE o == msObj[c]
  <2>1. /\ o \in Creators /\ c \in msRuns[o] /\ msPc[c] = "task"
        /\ \A p \in Creators : c \in msRuns[p] => p = o
    BY <1>8, Objects DEF RunTask
  <2>2. /\ \A d \in Creators \ {c} : msPc'[d] = msPc[d]
        /\ \A p \in Creators : p # o => msTask'[p] = msTask[p]
        /\ \/ msPc'[c] = "loop"
           \/ msPc'[c] = "raised" /\ msTask'[o] = msTask[o]
        /\ UNCHANGED <<msStatus, msCancel, msObj, msSum, msRuns>>
    BY <1>8, <2>1, Objects DEF RunTask
  <2> HIDE DEF MsTypeInv, MsTypeOK, LinkInv, Go, Pcs
  <2>3. ASSUME NEW p \in Creators, NEW d \in Creators, msRuns'[p] = {d}
        PROVE  OnlyRun(p, d)'
    <3>1. CASE p = o
      <4>1. d = c /\ msRuns[o] = {c}
        BY <2>1, <2>2, <2>3, <3>1
      <4>2. OnlyRun(o, c)
        BY <2>1, <4>1
      <4>3. /\ msTask[o] = "running"
            /\ \/ msStatus[o] = "running"
               \/ msStatus[o] = "cancelled" /\ msCancel[o]
        BY <2>1, <4>2
      <4>4. msStatus'[o] = msStatus[o] /\ msCancel'[o] = msCancel[o]
        BY <2>2
      <4>5. QED
        BY ONLY <2>2, <3>1, <4>1, <4>3, <4>4 DEF OnlyRun
    <3>2. CASE p # o
      <4>1. d # c /\ OnlyRun(p, d)
        BY <2>1, <2>2, <2>3, <3>2
      <4>2. QED
        BY <2>2, <3>2, <4>1
    <3>3. QED
      BY <3>1, <3>2
  <2>4. \A p \in Creators : msStatus'[p] = "running" =>
            \E d \in Creators : msPc'[d] \in RunPcs \ {"written"} /\ msObj'[d] = p
    BY <2>1, <2>2
  <2>5. /\ \A d \in Creators : msPc'[d] = "write" => msSum'[d] \in Final
        /\ \A p \in Creators : msRuns'[p] = {} => msTask'[p] = "pending"
    BY <2>1, <2>2
  <2>6. QED
    BY <2>3, <2>4, <2>5
<1>9. ASSUME NEW c \in Creators, Summarise(c) PROVE RunInv'
  BY <1>9, Objects DEF Summarise, SummaryStatus
<1>10. ASSUME NEW c \in Creators, WriteStatus(c) PROVE RunInv'
  BY <1>10, Objects DEF WriteStatus
<1>11. ASSUME NEW c \in Creators, SaveFinal(c) PROVE RunInv'
  BY <1>11, Objects DEF SaveFinal
<1>12. ASSUME NEW c \in Creators, Answer(c) PROVE RunInv'
  <2>1. /\ msPc[c] = "answer" /\ msPc'[c] = "done"
        /\ \A d \in Creators \ {c} : msPc'[d] = msPc[d] /\ msObj'[d] = msObj[d]
        /\ UNCHANGED <<msTask, msStatus, msCancel, msSum, msRuns>>
    BY <1>12, Objects DEF Answer
  <2> HIDE DEF MsTypeInv, MsTypeOK, LinkInv, Go, Pcs
  <2>2. \A o \in Creators : msStatus'[o] = "running" =>
            \E d \in Creators : msPc'[d] \in RunPcs \ {"written"} /\ msObj'[d] = o
    BY <2>1
  <2>3. \A o, d \in Creators : msRuns'[o] = {d} => OnlyRun(o, d)'
    BY <2>1
  <2>4. QED
    BY <2>1, <2>2, <2>3
<1>13. ASSUME NEW k \in Commanders, SendCommand(k) PROVE RunInv'
  BY <1>13, Objects DEF SendCommand
<1>14. ASSUME NEW k \in Commanders, SetCancel(k) PROVE RunInv'
  BY <1>14, Objects DEF SetCancel, CommandPcs
<1>15. ASSUME NEW k \in Commanders, CheckStatus(k) PROVE RunInv'
  BY <1>15, Objects DEF CheckStatus
<1>16. ASSUME NEW k \in Commanders, WriteCancelled(k) PROVE RunInv'
  <2> DEFINE o == msObj[k]
  <2>1. /\ o \in Creators /\ msCancel[o] /\ msStatus'[o] = "cancelled"
        /\ \A p \in Creators : p # o => msStatus'[p] = msStatus[p]
        /\ \A d \in Creators : msPc'[d] = msPc[d]
        /\ UNCHANGED <<msTask, msCancel, msObj, msSum, msRuns>>
    BY <1>16, Objects DEF WriteCancelled, CommandPcs
  <2> HIDE DEF MsTypeInv, MsTypeOK, LinkInv, Go, Pcs
  <2>2. \A p \in Creators : msStatus'[p] = "running" =>
            \E d \in Creators : msPc'[d] \in RunPcs \ {"written"} /\ msObj'[d] = p
    BY <2>1
  <2>3. \A p, d \in Creators : msRuns'[p] = {d} => OnlyRun(p, d)'
    BY <2>1
  <2>4. QED
    BY <2>1, <2>2, <2>3
<1>17. ASSUME NEW k \in Commanders, SaveCommand(k) PROVE RunInv'
  BY <1>17, Objects DEF SaveCommand
<1>18. CASE UNCHANGED msVars
  BY <1>18 DEF msVars
<1>19. QED
  BY <1>1, <1>2, <1>3, <1>4, <1>5, <1>6, <1>7, <1>8, <1>9, <1>10, <1>11, <1>12, <1>13, <1>14,
     <1>15, <1>16, <1>17, <1>18 DEF MsNext

LEMMA StepSaveInv == MsTypeInv /\ LinkInv /\ SaveInv /\ [MsNext]_msVars => SaveInv'
<1> SUFFICES ASSUME MsTypeInv, LinkInv, SaveInv, [MsNext]_msVars PROVE SaveInv'
  OBVIOUS
<1> USE DEF MsTypeInv, MsTypeOK, SaveInv, Owed, Go, Pcs, Persist, RunPcs, CommandPcs
<1>1. ASSUME NEW c \in Creators, RefuseCreate(c) PROVE SaveInv'
  BY <1>1, Objects DEF RefuseCreate
<1>2. ASSUME NEW c \in Creators, Create(c) PROVE SaveInv'
  BY <1>2, Objects DEF Create
<1>3. ASSUME NEW c \in Creators, SaveCreated(c) PROVE SaveInv'
  BY <1>3, Objects DEF SaveCreated
<1>4. ASSUME NEW c \in Creators, GetMission(c) PROVE SaveInv'
  BY <1>4, Objects DEF GetMission
<1>5. ASSUME NEW c \in Creators, StartRun(c) PROVE SaveInv'
  BY <1>5, Objects DEF StartRun
<1>6. ASSUME NEW c \in Creators, SaveRunning(c) PROVE SaveInv'
  BY <1>6, Objects DEF SaveRunning
<1>7. ASSUME NEW c \in Creators, Loop(c) PROVE SaveInv'
  BY <1>7, Objects DEF Loop
<1>8. ASSUME NEW c \in Creators, RunTask(c) PROVE SaveInv'
  BY <1>8, Objects DEF RunTask
<1>9. ASSUME NEW c \in Creators, Summarise(c) PROVE SaveInv'
  BY <1>9, Objects DEF Summarise
<1>10. ASSUME NEW c \in Creators, WriteStatus(c) PROVE SaveInv'
  BY <1>10, Objects DEF WriteStatus
<1>11. ASSUME NEW c \in Creators, SaveFinal(c) PROVE SaveInv'
  BY <1>11, Objects DEF SaveFinal
<1>12. ASSUME NEW c \in Creators, Answer(c) PROVE SaveInv'
  BY <1>12, Objects DEF Answer
<1>13. ASSUME NEW k \in Commanders, SendCommand(k) PROVE SaveInv'
  BY <1>13, Objects DEF SendCommand
<1>14. ASSUME NEW k \in Commanders, SetCancel(k) PROVE SaveInv'
  BY <1>14, Objects DEF SetCancel
<1>15. ASSUME NEW k \in Commanders, CheckStatus(k) PROVE SaveInv'
  BY <1>15, Objects DEF CheckStatus
<1>16. ASSUME NEW k \in Commanders, WriteCancelled(k) PROVE SaveInv'
  BY <1>16, Objects DEF WriteCancelled
<1>17. ASSUME NEW k \in Commanders, SaveCommand(k) PROVE SaveInv'
  BY <1>17, Objects DEF SaveCommand
<1>18. CASE UNCHANGED msVars
  BY <1>18 DEF msVars
<1>19. QED
  BY <1>1, <1>2, <1>3, <1>4, <1>5, <1>6, <1>7, <1>8, <1>9, <1>10, <1>11, <1>12, <1>13, <1>14,
     <1>15, <1>16, <1>17, <1>18 DEF MsNext

LEMMA MsInvImplies == MsInv => SessionsAddUp
<1> SUFFICES ASSUME MsInv PROVE SessionsAddUp
  OBVIOUS
<1> USE DEF MsInv, MsTypeInv, MsTypeOK, LinkInv
<1>1. ReachableWasRun
  BY DEF ReachableWasRun, ReachInv, Made
<1>2. ASSUME Quiet, NEW o \in Creators
      PROVE  /\ msStatus[o] = "running" => \E c \in msRuns[o] : msPc[c] = "raised"
             /\ msSaved[o] \in {msStatus[o], "unsaved"}
  <2>1. msSaved[o] \in {msStatus[o], "unsaved"}
    BY <1>2 DEF Quiet, SaveInv, Owed, Requests
  <2>2. ASSUME msStatus[o] = "running" PROVE \E c \in msRuns[o] : msPc[c] = "raised"
    <3>1. PICK c \in Creators : msPc[c] \in RunPcs \ {"written"} /\ msObj[c] = o
      BY <1>2, <2>2 DEF RunInv
    <3>2. msPc[c] = "raised"
      BY <1>2, <3>1 DEF Quiet, RunPcs, Requests
    <3>3. c \in msRuns[o]
      BY <3>1, <3>2 DEF RunPcs
    <3>4. QED
      BY <3>2, <3>3
  <2>3. QED
    BY <2>1, <2>2
<1>3. ASSUME Quiet, NEW o \in Creators, NEW c \in Creators, msRuns[o] = {c}
      PROVE  \/ msPc[c] = "done" /\ Tells(msStatus[o], o)
             \/ /\ msPc[c] = "raised" /\ msTask[o] \in {"pending", "running"}
                /\ \/ msStatus[o] = "running"
                   \/ msStatus[o] = "cancelled" /\ msCancel[o]
  <2>1. msPc[c] \in {"raised", "done"}
    BY <1>3 DEF Quiet, RunPcs, Requests
  <2>2. OnlyRun(o, c)
    BY <1>3 DEF RunInv
  <2>3. QED
    BY <2>1, <2>2 DEF OnlyRun
<1>4. QED
  BY <1>1, <1>2, <1>3 DEF SessionsAddUp, SettledStatus, SavedIsCurrent

\* What requests racing over one mission id leave behind adds up: a reachable
\* session whose creator asked for a run was run, only a run that raised leaves
\* a session running, one with a single run that came to its end shows what
\* became of its task or that it was cancelled, and the hook saw the status
\* the session shows.
THEOREM SessionsAgree == Spec => []SessionsAddUp
<1>1. Init => MsInv
  BY InitMsInv DEF Init
<1>2. MsInv /\ [MsNext]_msVars => MsInv'
  BY StepMsTypeInv, StepLinkInv, StepRunInv, StepReachInv, StepSaveInv DEF MsInv
<1>3. MsInv /\ [Next]_Everything => MsInv'
  <2>1. SUFFICES ASSUME MsInv, [Next]_Everything PROVE MsInv'
    OBVIOUS
  <2>2. MsNext \/ UNCHANGED msVars
    BY <2>1 DEF Next, Everything
  <2>3. QED
    BY <1>2, <2>1, <2>2
<1>4. QED
  BY <1>1, <1>3, MsInvImplies, PTL DEF Spec
=============================================================================
