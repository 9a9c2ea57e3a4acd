----------------------------- MODULE SetupDoctor -----------------------------
(***************************************************************************)
(* The doctor, which examines a set-up check by check, and the operator    *)
(* who works through what it reports: runs it, does what the first failure *)
(* names, and runs it again.                                               *)
(***************************************************************************)
EXTENDS PlatformDeploy

CONSTANTS
    Operator,       \* a deployer
    SnowflakeEnv,   \* SNOWFLAKE_ENV, which names the schemas for the doctor
    DbtTarget,      \* DBT_TARGET, which names them for the deployer and for dbt
    MaxFaults       \* bound: faults of a set-up

ASSUME DoctorAssumption == Operator \in Deployer /\ DbtTarget \in Target

VARIABLES
    setup,          \* "asks", "repairs" or "ready"
    todo            \* the commands still to run

doctorVars == <<setup, todo>>

-----------------------------------------------------------------------------
(* The checks in the order of main: own, the faults each one is there to   *)
(* find; on, the earlier checks whose subject it cannot do without.        *)
Check(name, status, own, on) == [name |-> name, status |-> status, own |-> own, on |-> on]

Snowflake == {"python packages", ".env", "credentials", "account DNS"}

Checks ==
    <<Check("python version", "FAIL", {"old python"}, {}),
      Check("filesystem", "FAIL", {"windows drive"}, {}),
      Check("virtualenv", "WARN", {"no venv"}, {}),
      Check("python packages", "FAIL", {"package missing"}, {}),
      Check("dbt", "FAIL", {"no dbt"}, {}),
      Check("optional tools", "WARN", {"no docker"}, {}),
      Check(".env", "FAIL", {"no .env"}, {}),
      Check("dbt profile", "FAIL", {"no profile"}, {}),
      Check("dbt packages", "FAIL", {"no dbt packages"}, {}),
      Check("data directories", "FAIL", {"read-only directory"}, {"python packages"}),
      Check("credentials", "FAIL", {"bad key"}, {"python packages", ".env"}),
      Check("account DNS", "FAIL", {"bad account"}, {"python packages", ".env"}),
      Check("connection", "FAIL", {"key not registered"}, Snowflake),
      Check("warehouses", "FAIL", {"no usage"}, Snowflake \cup {"connection"}),
      Check("deployed objects", "FAIL", {}, Snowflake \cup {"connection", "warehouses"}),
      Check("pipeline health", "WARN", {}, {})>>

SetupFaults == UNION {Checks[i].own : i \in DOMAIN Checks}
OwnOf(names) == UNION {Checks[i].own : i \in {n \in DOMAIN Checks : Checks[n].name \in names}}

(* What is wrong with the subject of a check, itself or what it rests on.  *)
Causes == [i \in DOMAIN Checks |-> Checks[i].own \cup OwnOf(Checks[i].on)]

(* check_snowflake_objects: an object and the command that makes it.       *)
Expected ==
    [o \in {"raw_tables", Marts(SnowflakeEnv), "sla_view"} |->
        CASE o = "raw_tables" -> "make deploy-sql-pre"
          [] o = "sla_view" -> "make deploy-sql-post"
          [] OTHER -> "make dbt-build"]

Missing == DOMAIN Expected \ objects

(* A missing RAW layer fails the check, which the docstring calls "a       *)
(* checklist rather than pass/fail".                                       *)
ObjectsStatus ==
    IF "raw_tables" \in Missing THEN "FAIL" ELSE IF Missing # {} THEN "WARN" ELSE "OK"

(* The view that the last check reads may be missing; with no file loaded  *)
(* it shows red.                                                           *)
HealthStatus ==
    IF "sla_view" \notin objects \/ broken \cap OwnOf(Snowflake \cup {"connection", "warehouses"}) # {} THEN "SKIP"
    ELSE IF \A f \in File : file[f] # "loaded" THEN "WARN" ELSE "OK"

(* The body of check i.                                                    *)
Examine(i) ==
    IF Checks[i].name = "pipeline health" THEN HealthStatus
    ELSE IF broken \cap Causes[i] # {} THEN Checks[i].status
    ELSE IF Checks[i].name = "deployed objects" THEN ObjectsStatus ELSE "OK"

(* Mutant: nothing is blocked for want of an .env.                         *)
BlocksLess ==
    {<<"python version", "filesystem">>, <<"python packages", ".env">>,
     <<"credentials", "account DNS">>, <<"account DNS", "connection">>,
     <<"connection", "warehouses">>}

(* main, block: when the check on the left fails, all from the one on the  *)
(* right on are skipped; main stops at an unsupported Python.              *)
BlocksFrom ==
    {<<"python version", "filesystem">>, <<"python packages", ".env">>,
     <<".env", "credentials">>, <<"credentials", "account DNS">>,
     <<"account DNS", "connection">>, <<"connection", "warehouses">>}

(* Once blocked, all later checks are: that a gate may be blocked itself   *)
(* makes no difference.                                                    *)
IsBlocked(i) ==
    \E g, k \in 1..i :
        <<Checks[g].name, Checks[k].name>> \in BlocksFrom /\ Examine(g) = "FAIL"

(* Doctor.check for each check in turn; a body that raises is a failure.   *)
Report == [i \in DOMAIN Checks |-> IF IsBlocked(i) THEN "SKIP" ELSE Examine(i)]

FailuresIn(report) == {i \in DOMAIN report : report[i] = "FAIL"}
ExitCode(report) == IF FailuresIn(report) = {} THEN 0 ELSE 1
FirstFailure(report) == CHOOSE i \in FailuresIn(report) : \A j \in FailuresIn(report) : i <= j

-----------------------------------------------------------------------------
Hints == SelectSeq(<<"make dbt-build", "make deploy-sql-post", "make deploy-sql-pre">>,
                   LAMBDA c : \E o \in Missing : Expected[o] = c)

(* Mutant: of the commands for what is missing, one is printed.            *)
FirstHint(i) ==
    IF Checks[i].name = "deployed objects" THEN SubSeq(Hints, 1, 1) ELSE <<Checks[i].name>>

(* What the operator is told to do when check i fails: the commands for    *)
(* what is missing, sorted, or what mends the subject of the check.        *)
Fix(i) == IF Checks[i].name = "deployed objects" THEN Hints ELSE <<Checks[i].name>>

RunDoctor ==
    /\ setup = "asks"
    /\ LET report == Report IN
       IF ExitCode(report) = 0 THEN setup' = "ready" /\ UNCHANGED todo
       ELSE setup' = "repairs" /\ todo' = Fix(FirstFailure(report))
    /\ UNCHANGED deployVars

(* The operator runs the commands one after the other, whether they work   *)
(* or not.                                                                 *)
Command(c) ==
    /\ setup = "repairs" /\ deployment[Operator].pc = "idle"
    /\ todo # <<>> /\ Head(todo) = c
    /\ todo' = Tail(todo) /\ UNCHANGED setup

Repair(i) ==
    /\ Command(Checks[i].name)
    /\ broken' = broken \ Checks[i].own
    /\ UNCHANGED <<platformVars, runVars>>

MakeDbtBuild ==
    /\ Command("make dbt-build")
    /\ IF "raw_tables" \in objects THEN DbtBuild(DbtTarget) ELSE UNCHANGED deployVars

MakeDeploySql ==
    \/ /\ Command("make deploy-sql-pre")
       /\ StartDeploy(Operator, DbtTarget, "pre-dbt", "everything", FALSE)
    \/ /\ Command("make deploy-sql-post")
       /\ StartDeploy(Operator, DbtTarget, "post-dbt", "everything", FALSE)

(* A deployer that refused has said what to mend in the scripts.           *)
AskAgain ==
    /\ setup = "repairs" /\ todo = <<>> /\ deployment[Operator].pc = "idle"
    /\ setup' = "asks"
    /\ broken' = IF deployment[Operator].exit = 1 THEN broken \cap SetupFaults ELSE broken
    /\ UNCHANGED <<platformVars, runVars, todo>>

WorkOnSetup == RunDoctor \/ MakeDbtBuild \/ MakeDeploySql \/ AskAgain
                 \/ \E i \in DOMAIN Checks : Repair(i)

-----------------------------------------------------------------------------
(* A failure that the doctor reports has a cause of its own: what rests on *)
(* it is skipped, "instead of a second, misleading error" (doctor.py:83).  *)
(* The check of the deployed objects may fail for want of a warehouse.     *)
FailuresAreGenuine ==
    setup = "asks" => \A i \in FailuresIn(Report) :
        \/ broken \cap Checks[i].own # {}
        \/ Checks[i].name = "deployed objects"
             /\ ("raw_tables" \notin objects \/ "no usage" \in broken)

(* "Work top to bottom" (doctor.py:735) leads out: whoever does what the   *)
(* first failure names and asks again has a set-up that passes.            *)
SetupSucceeds == <>(setup = "ready")
=============================================================================
