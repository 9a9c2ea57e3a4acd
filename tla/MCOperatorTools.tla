--------------------------- MODULE MCOperatorTools ---------------------------
(* The tools of an operator: the splitter on a script being written, or    *)
(* the doctor and the deployer on a platform.                              *)
EXTENDS SetupDoctor, StatementSplitter, FiniteSets

CONSTANTS MaxDeploys        \* bound: runs of the deployer begun after the set-up

(* A character without meaning, and bodies that hold what opens or closes  *)
(* other elements.                                                         *)
MCCharacter == Sign \cup {"w"}

MCBodies ==
    [word |-> {<<"w">>, <<"star">>, <<"newline">>},
     line |-> {<<"w">>, <<"semicolon", "quote">>, <<"slash", "star">>},
     block |-> {<<"semicolon", "newline">>, <<"quote", "dollar", "dollar">>, <<"slash", "star", "star">>,
                <<"dash", "dash">>},
     string |-> {<<>>, <<"quote", "quote", "semicolon">>, <<"dash", "dash">>, <<"slash", "star">>},
     identifier |-> {<<"quote", "semicolon">>},
     dollar |-> {<<"w", "semicolon", "newline">>, <<"quote">>, <<"dash", "dash">>, <<"dollar", "w">>},
     semicolon |-> {<<"semicolon">>}]

vars == <<deployVars, doctorVars, script>>

Init ==
    /\ DeployInit /\ todo = <<>> /\ script = <<>>
    /\ \/ setup = "asks" /\ broken \in {b \in SUBSET (SetupFaults \cup ScriptFaults) :
                                            Cardinality(b) <= MaxFaults}
       \/ setup = "ready" /\ broken \in {{}, {"empty_alert_email"}}

ApplyScripts(d) ==
    ApplyStatement(d) \/ StatementFails(d) \/ FinishDeploy(d) \/ AbortDeploy(d)

(* While a set-up is examined its operator has the platform to itself.     *)
SetUp ==
    /\ setup # "ready" /\ UNCHANGED script
    /\ WorkOnSetup \/ (ApplyScripts(Operator) /\ UNCHANGED doctorVars)

Operate ==
    /\ setup = "ready" /\ script = <<>> /\ UNCHANGED <<doctorVars, script>>
    /\ \/ \E d \in Deployer, env \in Target, go_on \in BOOLEAN,
             p \in DOMAIN PHASES \cup {"all"}, only \in {"everything", "20_streams_tasks"} :
            deploys < MaxDeploys /\ StartDeploy(d, env, p, only, go_on)
       \/ \E d \in Deployer : ApplyScripts(d)
       \/ \E f \in File : PutFile(f)
       \/ LoadFiles \/ DrainStream
       \/ \E env \in Target : DbtBuild(env)

WriteScript ==
    /\ setup = "ready" /\ objects = {} /\ deploys = 0 /\ broken = {}
    /\ UNCHANGED <<deployVars, doctorVars>>
    /\ \E e \in Elements : WriteElement(e)

Next == SetUp \/ Operate \/ WriteScript

Spec == Init /\ [][Next]_vars /\ WF_vars(SetUp)
=============================================================================
