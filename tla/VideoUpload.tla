----------------------------- MODULE VideoUpload -----------------------------
(***************************************************************************)
(* The upload of a drone video: VideoUploadAPIView of apps/videos/views.py *)
(* with the screen of core/azure/synth_screen.py, the row of               *)
(* apps/videos/models.py and the ingestion that saving it starts           *)
(* (apps/videos/signals.py).                                               *)
(*                                                                         *)
(* Uploads share nothing (each has a temporary folder and a blob name of   *)
(* its own), so one upload is the whole of it.  Storage and the database   *)
(* may fail, a tool may be missing, and the worker may be killed between   *)
(* any two steps.                                                          *)
(***************************************************************************)
EXTENDS Naturals

CONSTANT VuCap \* bound: the largest file accepted, in chunks

ASSUME VuAssumption == VuCap \in Nat \ {0}

VARIABLES vuOn,     \* the screen is enabled, and its toolchain installed
          vuClip,   \* the file and the form it came with
          vuAt, vuAnswer,
          vuWritten, \* chunks copied to the temporary file
          vuBlob, vuRow, vuIngest

vuVars == <<vuOn, vuClip, vuAt, vuAnswer, vuWritten, vuBlob, vuRow, vuIngest>>

(***************************************************************************)
(* Files.  A clip's container may declare a generator (tag or C2PA AI      *)
(* manifest) or a camera (metadata, telemetry); its pixels show a sensor   *)
(* pattern or not and up to three other signs of fabrication.  raises: a   *)
(* patch in colour with some texture, whose three variances np.corrcoef    *)
(* turns into one number that [0, 1] cannot index, or a frame of less than *)
(* 32 lines, which fractal_dimension cannot shrink.                        *)
(***************************************************************************)
Honest == [account |-> "number", sized |-> TRUE, chunks |-> 1, mp4 |-> TRUE, video |-> TRUE]
Forms == {[Honest EXCEPT !.account = "missing"], [Honest EXCEPT !.account = "text"],
          [Honest EXCEPT !.chunks = VuCap + 1],
          [Honest EXCEPT !.chunks = VuCap + 1, !.sized = FALSE],
          [Honest EXCEPT !.chunks = 0], [Honest EXCEPT !.mp4 = FALSE],
          [Honest EXCEPT !.video = FALSE], [Honest EXCEPT !.chunks = VuCap]}
Pictures == [declared : BOOLEAN, camera : BOOLEAN, pattern : {"strong", "weak", "none"},
             signs : 0..3, frames : BOOLEAN, raises : BOOLEAN]
Clips == [form : Forms, picture : Pictures]

VuTypeOK ==
    /\ vuOn \in [screen : BOOLEAN, tools : BOOLEAN] /\ vuClip \in Clips
    /\ vuAt \in {"receive", "copy", "inspect", "screen", "store", "register", "ingest",
                 "respond", "done", "killed"}
    /\ vuAnswer \in {0, 201, 400, 413, 500} /\ vuWritten \in 0..VuCap
    /\ vuBlob \in BOOLEAN /\ vuRow \in BOOLEAN /\ vuIngest \in {"none", "done", "failed"}

VuInit ==
    /\ vuOn \in [screen : BOOLEAN, tools : BOOLEAN] /\ vuClip \in Clips
    /\ vuAt = "receive" /\ vuAnswer = 0 /\ vuWritten = 0
    /\ vuBlob = FALSE /\ vuRow = FALSE /\ vuIngest = "none"

(***************************************************************************)
(* The verdict.  Without frames the pixel features are None, and None is   *)
(* never a sign.  An exception anywhere in the screen, the missing         *)
(* toolchain's ImportError among them, counts as camera footage.           *)
(***************************************************************************)
CameraEvidence(p) == p.camera \/ (p.frames /\ p.pattern = "strong")
Signs(p) == IF p.frames THEN p.signs + (IF p.pattern = "none" THEN 1 ELSE 0) ELSE 0

Decide(p) ==
    IF p.declared THEN "synthetic-declared"
    ELSE IF CameraEvidence(p) THEN "camera"
    ELSE IF Signs(p) >= 3 THEN "likely-fabricated"
    ELSE IF Signs(p) > 0 THEN "review" ELSE "camera"

Fabricated == {"likely-fabricated", "synthetic-declared"}

FeaturesRaise(p) == p.frames /\ p.raises

Screened(p) ==
    IF ~vuOn.screen \/ ~vuOn.tools \/ FeaturesRaise(p) THEN "camera" ELSE Decide(p)

(***************************************************************************)
(* The request, one action per step.                                       *)
(***************************************************************************)
End(code) == vuAnswer' = code /\ vuAt' = "done" /\ UNCHANGED <<vuWritten, vuRow, vuIngest>>
AnswerUpload(code) == End(code) /\ UNCHANGED vuBlob
Proceed(next) == vuAt' = next /\ UNCHANGED <<vuAnswer, vuRow, vuIngest>>

Receive ==
    /\ vuAt = "receive"
    /\ LET f == vuClip.form
       IN  \/ f.account # "number" /\ AnswerUpload(400)
           \/ f.account = "number" /\ f.sized /\ f.chunks > VuCap /\ AnswerUpload(413)
           \/ /\ f.account = "number" /\ ~(f.sized /\ f.chunks > VuCap)
              /\ Proceed("copy") /\ UNCHANGED <<vuWritten, vuBlob>>

\* Chunk by chunk: one past the cap aborts the copy.
Copy ==
    /\ vuAt = "copy"
    /\ \/ vuWritten = VuCap /\ vuClip.form.chunks > VuCap /\ AnswerUpload(413)
       \/ vuWritten = vuClip.form.chunks /\ vuWritten = 0 /\ AnswerUpload(400)
       \/ /\ vuWritten = vuClip.form.chunks /\ vuWritten > 0
          /\ Proceed("inspect") /\ UNCHANGED <<vuWritten, vuBlob>>
       \/ /\ vuWritten < vuClip.form.chunks /\ vuWritten < VuCap
          /\ vuWritten' = vuWritten + 1
          /\ UNCHANGED <<vuAt, vuAnswer, vuBlob, vuRow, vuIngest>>

\* The ftyp box, then ffprobe; an ffprobe that is missing or slow refuses.
Inspect ==
    /\ vuAt = "inspect"
    /\ \/ AnswerUpload(400)
       \/ /\ vuClip.form.mp4 /\ vuClip.form.video
          /\ Proceed("screen") /\ UNCHANGED <<vuWritten, vuBlob>>

Screen ==
    /\ vuAt = "screen"
    /\ \/ Screened(vuClip.picture) \in Fabricated /\ AnswerUpload(400)
       \/ /\ Screened(vuClip.picture) \notin Fabricated
          /\ Proceed("store") /\ UNCHANGED <<vuWritten, vuBlob>>

\* Variant of Store: a failed upload is registered all the same.
StoreSwallows ==
    /\ vuAt = "store"
    /\ vuBlob' \in BOOLEAN /\ Proceed("register") /\ UNCHANGED vuWritten
\* The blob is written, then its SAS is signed: either raises, and a failed
\* signature (no account key, say) leaves the blob where it is.
Store ==
    /\ vuAt = "store"
    /\ \/ vuBlob' \in BOOLEAN /\ End(500)
       \/ vuBlob' = TRUE /\ Proceed("register") /\ UNCHANGED vuWritten

Register ==
    /\ vuAt = "register"
    /\ \/ AnswerUpload(500)
       \/ /\ vuRow' = TRUE /\ vuAt' = "ingest"
          /\ UNCHANGED <<vuAnswer, vuWritten, vuBlob, vuIngest>>

\* The row's post_save handler runs inside save() and swallows every error.
Ingest ==
    /\ vuAt = "ingest" /\ vuIngest' \in {"done", "failed"} /\ vuAt' = "respond"
    /\ UNCHANGED <<vuAnswer, vuWritten, vuBlob, vuRow>>

RespondCreated == vuAt = "respond" /\ AnswerUpload(201)

\* The worker is killed: nothing of the request is undone.
Killed ==
    /\ vuAt \notin {"done", "killed"} /\ vuAt' = "killed"
    /\ UNCHANGED <<vuAnswer, vuWritten, vuBlob, vuRow, vuIngest>>

VuNext ==
    /\ \/ Receive \/ Copy \/ Inspect \/ Screen \/ Store \/ Register \/ Ingest
       \/ RespondCreated \/ Killed
    /\ UNCHANGED <<vuOn, vuClip>>

(***************************************************************************)
(* Properties.                                                             *)
(***************************************************************************)

\* The steps of an upload, in storage, in the database and in the answer, add
\* up although any of them may fail: a row's video is in storage and an upload
\* that answered 201 has its row; a refused upload left nothing; a video in
\* storage without a row is what a failed signature, a failed registration or a
\* killed worker left, and no other answer than 500 was given for it.
UploadsAddUp ==
    /\ vuRow => vuBlob
    /\ vuAnswer = 201 => vuRow
    /\ vuAnswer \in {400, 413} => ~vuBlob /\ ~vuRow
    /\ vuBlob /\ ~vuRow => vuAnswer = 500 \/ vuAt \in {"register", "killed"}

\* What is stored was copied whole, within the cap, and was inspected; unless
\* the screen could not work it was screened, and a declared generator is never
\* stored, whatever camera evidence comes with it.
StoredWasInspected ==
    vuBlob =>
        /\ vuClip.form.mp4 /\ vuClip.form.video
        /\ vuWritten = vuClip.form.chunks /\ vuWritten \in 1..VuCap
        /\ (vuOn.screen /\ vuOn.tools /\ ~FeaturesRaise(vuClip.picture)) =>
               /\ ~vuClip.picture.declared
               /\ CameraEvidence(vuClip.picture) \/ Signs(vuClip.picture) < 3

\* synth_screen.py:5: "a clip that screens as fabricated is refused before it is
\* ever stored or indexed".  With the screen enabled and installed, a clip that
\* declares its generator is not stored.
FabricatedIsRefused ==
    vuBlob /\ vuOn.screen /\ vuOn.tools => Decide(vuClip.picture) \notin Fabricated
=============================================================================
