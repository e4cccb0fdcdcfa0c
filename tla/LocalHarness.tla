---------------------------- MODULE LocalHarness ----------------------------
(***************************************************************************)
(* The local interactive kit: one command of the CLI, run by the harness   *)
(* under the agent's profile.  Autonomy modes are 0 dry_run, 1 confirm and *)
(* 2 auto.  The profile, the command line and what the operator answers    *)
(* are chosen at the start; the pipeline may raise at any of its steps.    *)
(***************************************************************************)
EXTENDS Naturals, FiniteSets

CONSTANTS LhProfiles, \* profiles: ceiling, default, gated, allowed
          LhActions   \* gated actions a profile can name

\* A ceiling is one of the three modes: _resolve_mode raises on any other.
ASSUME LhAssumption == \A p \in LhProfiles : p.max \in 0..2

VARIABLES
    lhProfile,  \* the profile read from agent_profile.yaml
    lhArgs,     \* the command and its options
    lhPc,       \* where the command is
    lhMode,     \* the mode the harness resolved
    lhSteps,    \* pipeline steps that were executed
    lhWritten,  \* the output was stored
    lhConfirmed,\* actions an operator, or --yes, agreed to
    lhExit      \* none, or how the command ended

lhVars == <<lhProfile, lhArgs, lhPc, lhMode, lhSteps, lhWritten, lhConfirmed, lhExit>>

Commands == {"fetch-video", "extract-frames", "run-inference", "write-output", "run"}
LhArgs == [command : Commands, mode : {0, 1, 2}, dry : BOOLEAN, yes : BOOLEAN,
           reply : BOOLEAN,   \* the operator at a terminal says yes
           out : BOOLEAN, railsOk : BOOLEAN]
PipelineSteps == <<"fetch", "extract", "infer">>

LhTypeOK ==
    /\ lhProfile \in LhProfiles /\ lhArgs \in LhArgs
    /\ lhPc \in {"start", "resolved", "pipeline", "gate", "store", "end"}
    /\ lhMode \in 0..2
    /\ lhSteps \in 0..3
    /\ lhConfirmed \subseteq LhActions
    /\ lhExit \in {"none", "ok", "plan", "denied", "raised"}

LhInit ==
    /\ lhProfile \in LhProfiles
    /\ lhArgs \in LhArgs
    /\ lhPc = "start"
    /\ lhMode = 0 /\ lhSteps = 0
    /\ lhWritten = FALSE
    /\ lhConfirmed = {}
    /\ lhExit = "none"

LhGo(from, to) == lhPc = from /\ lhPc' = to
LhEnd(from, how) == LhGo(from, "end") /\ lhExit' = how

\* Variant of Ceiling: what the command line asks for.
CeilingNone(mode) == mode

Ceiling(mode) == IF mode > lhProfile.max THEN lhProfile.max ELSE mode

\* --dry-run wins over --mode; neither exceeds the profile.
ResolveMode ==
    /\ LhGo("start", "resolved")
    /\ lhMode' = Ceiling(IF lhArgs.dry THEN 0 ELSE lhArgs.mode)
    /\ UNCHANGED <<lhProfile, lhArgs, lhSteps, lhWritten, lhConfirmed, lhExit>>

\* fetch-video resolves the path and passes the guardrails by.
CmdFetchVideo ==
    /\ lhPc = "resolved" /\ lhArgs.command = "fetch-video"
    /\ IF lhMode = 0
       THEN LhEnd("resolved", "plan") /\ UNCHANGED lhSteps
       ELSE /\ lhSteps' = 1
            /\ \E how \in {"ok", "raised"} : LhEnd("resolved", how)
    /\ UNCHANGED <<lhProfile, lhArgs, lhMode, lhWritten, lhConfirmed>>

CheckGuardrails ==
    /\ lhPc = "resolved" /\ lhArgs.command # "fetch-video"
    /\ IF ~lhArgs.railsOk THEN LhEnd("resolved", "raised")
       ELSE IF lhMode = 0 THEN LhEnd("resolved", "plan")
       ELSE LhGo("resolved", "pipeline") /\ UNCHANGED lhExit
    /\ UNCHANGED <<lhProfile, lhArgs, lhMode, lhSteps, lhWritten, lhConfirmed>>

\* The next step of run_pipeline; the last one brings the output.  A skill
\* returns part of it, whatever --out says; a run stores it when asked to.
PipelineStep ==
    /\ lhPc = "pipeline"
    /\ lhSteps' = lhSteps + 1
    /\ \/ LhEnd("pipeline", "raised")
       \/ lhSteps' < 3 /\ UNCHANGED <<lhPc, lhExit>>
       \/ /\ lhSteps' = 3
          /\ IF lhArgs.command \in {"run", "write-output"} /\ lhArgs.out
             THEN LhGo("pipeline", "gate") /\ UNCHANGED lhExit
             ELSE LhEnd("pipeline", "ok")
    /\ UNCHANGED <<lhProfile, lhArgs, lhMode, lhWritten, lhConfirmed>>

MustAsk(action) ==
    /\ action \in lhProfile.gated
    /\ ~(lhMode = 2 /\ action \in lhProfile.allowed)

\* Without --yes and without a terminal nobody can say yes.
Gate ==
    LET agreed == lhArgs.yes \/ lhArgs.reply IN
    /\ lhPc = "gate"
    /\ IF ~MustAsk("write_output") THEN LhGo("gate", "store") /\ UNCHANGED <<lhConfirmed, lhExit>>
       ELSE IF agreed
       THEN LhGo("gate", "store") /\ lhConfirmed' = {"write_output"} /\ UNCHANGED lhExit
       ELSE LhEnd("gate", "denied") /\ UNCHANGED lhConfirmed
    /\ UNCHANGED <<lhProfile, lhArgs, lhMode, lhSteps, lhWritten>>

StoreOutput ==
    /\ lhPc = "store"
    /\ \/ lhWritten' = TRUE /\ LhEnd("store", "ok")
       \/ LhEnd("store", "raised") /\ UNCHANGED lhWritten
    /\ UNCHANGED <<lhProfile, lhArgs, lhMode, lhSteps, lhConfirmed>>

LhNext ==
    \/ ResolveMode \/ CmdFetchVideo \/ CheckGuardrails
    \/ PipelineStep \/ Gate \/ StoreOutput

LhSpec == LhInit /\ [][LhNext]_lhVars

\* "The harness will never exceed this mode even if asked to": with a ceiling
\* of dry_run nothing is executed at all.  What was denied, or only planned, was
\* not written, and the output of a gated action is written only after a yes,
\* but for what auto mode lets pass (_gate; the next property is about that).
ProfileObeyed ==
    /\ lhProfile.max = 0 \/ lhArgs.dry => lhSteps = 0 /\ ~lhWritten
    /\ lhExit \in {"denied", "plan", "raised"} => ~lhWritten
    /\ lhWritten /\ "write_output" \in lhProfile.gated =>
        \/ lhConfirmed = {"write_output"}
        \/ lhProfile.max = 2 /\ lhArgs.mode = 2 /\ "write_output" \in lhProfile.allowed

\* agent_harness.py:10: "*Always-ask* actions (e.g. ``write_output``) require
\* explicit confirmation in any executing mode".  An output whose writing the
\* profile gates was confirmed.
AlwaysAsked ==
    lhWritten /\ "write_output" \in lhProfile.gated => lhConfirmed = {"write_output"}
=============================================================================
