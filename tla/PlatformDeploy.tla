--------------------------- MODULE PlatformDeploy ---------------------------
(***************************************************************************)
(* The deployer of the Snowflake objects, run by people and jobs that know *)
(* nothing of each other, on a platform that loads and captures files      *)
(* meanwhile.  A statement stands for all those of its directory that      *)
(* create, replace or resume one kind of object.                           *)
(***************************************************************************)
EXTENDS Naturals, SequencesExt

CONSTANTS
    Deployer,
    File,
    Target,         \* the environments deployed to and built by dbt
    NoOne,
    MaxFailures     \* bound: statements that fail for no reason shown, and interrupts

ASSUME DeployAssumption == NoOne \notin Deployer /\ Target \subseteq {"dev", "prod"}

VARIABLES
    objects,        \* the objects that exist, dbt's tables by the layout of their schemas
    running,        \* the tasks and alerts that are not suspended
    file,           \* file |-> "none", "staged", "dropped" or "loaded"
    delta,          \* files whose rows the stream has yet to hand over
    captures,       \* file |-> times its rows went to the queue
    deployment,     \* deployer |-> its run of the script
    broken,         \* what is wrong with the set-up, .env and the scripts
    deploys, failures,
    vouched,        \* history: phases that a run of the whole phase called deployed
    suspendedBy     \* history: task or alert |-> the deployer that suspended it last

platformVars == <<objects, running, file, delta, captures>>
runVars == <<deployment, deploys, failures, vouched, suspendedBy>>
deployVars == <<platformVars, runVars, broken>>

-----------------------------------------------------------------------------
Create(o, n) == [op |-> "create if not exists", object |-> o, needs |-> n]
Replace(o, n) == [op |-> "create or replace", object |-> o, needs |-> n]
NoResume(o) == Create(o, {o})      \* Mutant: nothing is resumed
Resume(o) == [op |-> "resume", object |-> o, needs |-> {o}]

Scheduled == {"tasks", "alerts"}

(* dbt's schemas have bare names in production and a prefix elsewhere.     *)
Marts(env) == IF env = "prod" THEN "marts" ELSE "prefixed_marts"

PHASES ==
    [phase \in {"pre-dbt", "post-dbt"} |->
        IF phase = "pre-dbt" THEN <<"10_ingestion", "20_streams_tasks">>
        ELSE <<"30_monitoring", "40_alerts">>]

DEPLOYABLE_PHASES == <<"pre-dbt", "post-dbt">>

Directories == {"10_ingestion", "20_streams_tasks", "30_monitoring", "40_alerts"}

(* The statements of the directories, rendered for each environment.       *)
Scripts ==
    [env \in Target |-> [directory \in Directories |->
        CASE directory = "10_ingestion" ->
               <<Replace("stage", {}), Create("raw_tables", {}), Replace("sp_load", {})>>
          [] directory = "20_streams_tasks" ->
               <<Create("stream", {"raw_tables"}), Replace("sp_drain", {}),
                 Replace("tasks", {"stream"}), Resume("tasks")>>
          [] directory = "30_monitoring" ->
               <<Replace("sla_view", {"raw_tables", Marts(env)})>>
          [] directory = "40_alerts" ->
               <<Replace("alert_procedures", {}),
                 Replace("alerts", {"sla_view", "alert_procedures", Marts(env)}),
                 Resume("alerts")>>]]

ScriptFaults == {"unassigned_directory", "unknown_placeholder", "empty_alert_email"}

(* discover: the directories of a phase, or the one that --only names, if  *)
(* it is among them.                                                       *)
Discover(phase, only) ==
    LET wanted == IF phase = "all" THEN DEPLOYABLE_PHASES ELSE <<phase>>
        all == FlattenSeq([i \in DOMAIN wanted |-> PHASES[wanted[i]]]) IN
    CASE only = "everything" -> all
      [] only # "everything" /\ only \in ToSet(all) -> <<only>>
      [] OTHER -> <<>>

(* Why the deployer stops before it connects: a directory without a phase, *)
(* --only without a match, a placeholder that is unknown or empty.         *)
Refused(directories) ==
    \/ directories = <<>>
    \/ broken \cap {"unassigned_directory", "unknown_placeholder"} # {}
    \/ "empty_alert_email" \in broken /\ \E i \in DOMAIN directories : directories[i] = "40_alerts"

-----------------------------------------------------------------------------
NewRun == [pc |-> "idle", plan |-> <<>>, whole |-> {}, go_on |-> FALSE, failed |-> FALSE, exit |-> 0]

DeployInit ==
    /\ objects = {} /\ running = {}
    /\ file = [f \in File |-> "none"] /\ delta = {} /\ captures = [f \in File |-> 0]
    /\ deployment = [d \in Deployer |-> NewRun]
    /\ deploys = 0 /\ failures = 0
    /\ vouched = {} /\ suspendedBy = [o \in Scheduled |-> NoOne]

(* main: everything is rendered and split before anything is executed.     *)
StartDeploy(d, env, phase, only, go_on) ==
    LET directories == Discover(phase, only)
        scripts == Scripts[env] IN
    /\ deployment[d].pc = "idle"
    /\ deploys' = deploys + 1
    /\ deployment' = [deployment EXCEPT ![d] =
         IF Refused(directories) THEN [NewRun EXCEPT !.exit = 1]
         ELSE [NewRun EXCEPT
                 !.pc = "applying", !.go_on = go_on,
                 !.plan = FlattenSeq([i \in DOMAIN directories |-> scripts[directories[i]]]),
                 !.whole = IF only = "everything"
                             THEN {p \in DOMAIN PHASES : phase \in {p, "all"}} ELSE {}]]
    /\ UNCHANGED <<platformVars, failures, broken, vouched, suspendedBy>>

(* The run of d ends.  history: what it suspended and did not resume is    *)
(* put down to nobody if it says so.                                       *)
Exit(d, code) ==
    /\ deployment' = [deployment EXCEPT ![d] = [NewRun EXCEPT !.exit = code]]
    /\ vouched' = IF code = 0 THEN vouched \cup deployment[d].whole ELSE vouched
    /\ suspendedBy' = [o \in Scheduled |->
                         IF suspendedBy[o] = d /\ code # 0 THEN NoOne ELSE suspendedBy[o]]

(* Mutant: the stream is replaced as everything else is.                   *)
ExecuteReplacing(d, s) ==
    /\ objects' = objects \cup {s.object}
    /\ running' = IF s.op = "resume" THEN running \cup {s.object}
                  ELSE IF s.op = "create or replace" THEN running \ {s.object} ELSE running
    /\ delta' = IF s.object = "stream" THEN {f \in File : file[f] = "loaded"} ELSE delta
    /\ file' = IF s.object = "stage" /\ s.op = "create or replace"
                 THEN [f \in File |-> IF file[f] = "staged" THEN "dropped" ELSE file[f]] ELSE file
    /\ suspendedBy' = IF s.op = "create or replace" /\ s.object \in Scheduled
                        THEN [suspendedBy EXCEPT ![s.object] = d] ELSE suspendedBy
    /\ UNCHANGED captures

(* What the server does with statement s.  A new task or alert is          *)
(* suspended; replacing an internal stage drops its files; a new stream    *)
(* shows the initial rows of its table.                                    *)
Execute(d, s) ==
    /\ objects' = objects \cup {s.object}
    /\ running' = IF s.op = "resume" THEN running \cup {s.object}
                  ELSE IF s.op = "create or replace" THEN running \ {s.object} ELSE running
    /\ delta' = IF s.object = "stream" /\ "stream" \notin objects
                  THEN {f \in File : file[f] = "loaded"} ELSE delta
    /\ file' = IF s.object = "stage" /\ s.op = "create or replace"
                 THEN [f \in File |-> IF file[f] = "staged" THEN "dropped" ELSE file[f]] ELSE file
    /\ suspendedBy' = IF s.op = "create or replace" /\ s.object \in Scheduled
                        THEN [suspendedBy EXCEPT ![s.object] = d] ELSE suspendedBy
    /\ UNCHANGED captures

ApplyStatement(d) ==
    LET r == deployment[d] IN
    /\ r.pc = "applying" /\ r.plan # <<>> /\ Head(r.plan).needs \subseteq objects
    /\ Execute(d, Head(r.plan))
    /\ deployment' = [deployment EXCEPT ![d].plan = Tail(@)]
    /\ UNCHANGED <<deploys, failures, broken, vouched>>

(* A statement fails, for want of an object it needs or another reason: by *)
(* default the run stops there.                                            *)
StatementFails(d) ==
    LET r == deployment[d] IN
    /\ r.pc = "applying" /\ r.plan # <<>>
    /\ IF Head(r.plan).needs \subseteq objects
         THEN failures < MaxFailures /\ failures' = failures + 1
         ELSE UNCHANGED failures
    /\ IF r.go_on
         THEN /\ deployment' = [deployment EXCEPT ![d].plan = Tail(@), ![d].failed = TRUE]
              /\ UNCHANGED <<vouched, suspendedBy>>
         ELSE Exit(d, 1)
    /\ UNCHANGED <<platformVars, deploys, broken>>

(* Mutant: with --continue-on-error the run ends well.                     *)
FinishWell(d) ==
    /\ deployment[d].pc = "applying" /\ deployment[d].plan = <<>>
    /\ Exit(d, 0)
    /\ UNCHANGED <<platformVars, deploys, failures, broken>>

FinishDeploy(d) ==
    /\ deployment[d].pc = "applying" /\ deployment[d].plan = <<>>
    /\ Exit(d, IF deployment[d].failed THEN 1 ELSE 0)
    /\ UNCHANGED <<platformVars, deploys, failures, broken>>

(* No connection after max_retries attempts, or Ctrl-C.                    *)
AbortDeploy(d) ==
    /\ deployment[d].pc = "applying" /\ failures < MaxFailures
    /\ failures' = failures + 1
    /\ \E code \in {1, 130} : Exit(d, code)
    /\ UNCHANGED <<platformVars, deploys, broken>>

-----------------------------------------------------------------------------
(* The platform at work: PUT, COPY, drain, and a dbt build.                *)
PutFile(f) ==
    /\ "stage" \in objects /\ file[f] = "none"
    /\ file' = [file EXCEPT ![f] = "staged"]
    /\ UNCHANGED <<objects, running, delta, captures, runVars, broken>>

LoadFiles ==
    /\ {"stage", "raw_tables", "sp_load"} \subseteq objects
    /\ LET staged == {f \in File : file[f] = "staged"} IN
       /\ staged # {}
       /\ file' = [f \in File |-> IF f \in staged THEN "loaded" ELSE file[f]]
       /\ delta' = IF "stream" \in objects THEN delta \cup staged ELSE delta
    /\ UNCHANGED <<objects, running, captures, runVars, broken>>

DrainStream ==
    /\ {"stream", "sp_drain"} \subseteq objects /\ delta # {}
    /\ captures' = [f \in File |-> captures[f] + IF f \in delta THEN 1 ELSE 0]
    /\ delta' = {}
    /\ UNCHANGED <<objects, running, file, runVars, broken>>

DbtBuild(env) ==
    /\ "raw_tables" \in objects
    /\ objects' = objects \cup {Marts(env)}
    /\ UNCHANGED <<running, file, delta, captures, runVars, broken>>

-----------------------------------------------------------------------------
(* A redeployment neither loses rows nor captures them again, whatever     *)
(* loads and drains run beside it and wherever it stops: with a stream,    *)
(* the rows of a loaded file are to come or were handed over once          *)
(* (create stream if not exists, show_initial_rows).                       *)
CapturedOnce ==
    "stream" \in objects =>
        \A f \in File : file[f] = "loaded" =>
            captures[f] + (IF f \in delta THEN 1 ELSE 0) = 1

(* A task or alert that stands suspended was left so by a run that failed  *)
(* or is not over: nobody who was told that all went well suspended it,    *)
(* though replacing suspends and several runs overlap (02_tasks.sql:177:   *)
(* "a task nobody resumed").                                               *)
SuspensionIsReported ==
    \A o \in Scheduled : o \in objects \ running /\ suspendedBy[o] # NoOne =>
        deployment[suspendedBy[o]].pc = "applying"

(* Every object of a phase exists once a run of the whole phase has said   *)
(* that the layer is deployed, for whatever environment, and however runs  *)
(* overlap, fail and go on after errors (exit code of main).               *)
VouchedIsDeployed ==
    \A p \in vouched :
        \A d \in ToSet(PHASES[p]), env \in Target :
            \A s \in ToSet(Scripts[env][d]) : s.object \in objects

(* Staged files survive a redeployment: "Redeploying is a no-op, so `make  *)
(* bootstrap` is safe to run repeatedly" (docs/adr/0002-terraform-scope.md:*)
(* 76).                                                                    *)
StagedFilesSurvive == \A f \in File : file[f] # "dropped"
=============================================================================
