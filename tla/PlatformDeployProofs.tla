------------------------ MODULE PlatformDeployProofs ------------------------
(***************************************************************************)
(* Redeploying while files are loaded and drained: what holds for every    *)
(* number of deployers, files and environments.  What a deployment that    *)
(* ends well says of the platform, and what the doctor says of a set-up.   *)
(***************************************************************************)
EXTENDS MCOperatorTools, TLAPS

(* A file that is not loaded has no rows to hand over, and before there is *)
(* a stream nothing was handed over.                                       *)
StreamInv ==
    /\ file \in [File -> {"none", "staged", "dropped", "loaded"}]
    /\ captures \in [File -> Nat]
    /\ delta \subseteq {f \in File : file[f] = "loaded"}
    /\ \A f \in File : file[f] # "loaded" => captures[f] = 0
    /\ "stream" \notin objects => \A f \in File : captures[f] = 0
    /\ CapturedOnce

LEMMA ScriptsKeepRows ==
    ASSUME StreamInv, NEW d, NEW s, Execute(d, s)
    PROVE  StreamInv'
<1>1. file' \in [File -> {"none", "staged", "dropped", "loaded"}]
      /\ \A f \in File : file'[f] = "loaded" <=> file[f] = "loaded"
  BY DEF StreamInv, Execute
<1>2. captures' = captures /\ objects' = objects \cup {s.object}
  BY DEF Execute
<1>3. CASE s.object = "stream" /\ "stream" \notin objects
  <2>1. delta' = {f \in File : file[f] = "loaded"}
    BY <1>3 DEF Execute
  <2>. QED
    BY <1>1, <1>2, <1>3, <2>1 DEF StreamInv, CapturedOnce
<1>4. CASE ~(s.object = "stream" /\ "stream" \notin objects)
  <2>1. delta' = delta
    BY <1>4 DEF Execute
  <2>. QED
    BY <1>1, <1>2, <1>4, <2>1 DEF StreamInv, CapturedOnce
<1>. QED
  BY <1>3, <1>4

LEMMA OtherStepsKeepRows ==
    ASSUME StreamInv, UNCHANGED <<file, delta, captures>>,
           objects' = objects \/ \E env \in Target : objects' = objects \cup {Marts(env)}
    PROVE  StreamInv'
<1>1. "stream" \in objects' <=> "stream" \in objects
  BY DEF Marts
<1>. QED
  BY <1>1 DEF StreamInv, CapturedOnce

LEMMA PlatformKeepsRows ==
    ASSUME StreamInv, (\E f \in File : PutFile(f)) \/ LoadFiles \/ DrainStream
    PROVE  StreamInv'
<1>1. ASSUME NEW f \in File, PutFile(f)
      PROVE  StreamInv'
  BY <1>1 DEF PutFile, StreamInv, CapturedOnce
<1>2. CASE LoadFiles
  BY <1>2 DEF LoadFiles, StreamInv, CapturedOnce, runVars
<1>3. CASE DrainStream
  BY <1>3 DEF DrainStream, StreamInv, CapturedOnce, runVars
<1>. QED
  BY <1>1, <1>2, <1>3

(* A redeployment neither loses rows nor captures them again: a stream is  *)
(* made once and then kept, and when it is made it shows what its table    *)
(* holds, of which nothing was handed over.                                *)
THEOREM RedeployingKeepsCapture == Spec => []CapturedOnce
<1>1. Init => StreamInv
  BY DEF Init, DeployInit, StreamInv, CapturedOnce
<1>2. StreamInv /\ [Next]_vars => StreamInv'
  <2>. SUFFICES ASSUME StreamInv, [Next]_vars
                PROVE  StreamInv'
    OBVIOUS
  <2>1. ASSUME NEW d, ApplyScripts(d)
        PROVE  StreamInv'
    <3>1. CASE ApplyStatement(d)
      BY <3>1, ScriptsKeepRows DEF ApplyStatement
    <3>2. CASE StatementFails(d) \/ FinishDeploy(d) \/ AbortDeploy(d)
      BY <3>2, OtherStepsKeepRows DEF StatementFails, FinishDeploy, AbortDeploy, platformVars
    <3>. QED
      BY <2>1, <3>1, <3>2 DEF ApplyScripts
  <2>2. ASSUME NEW env \in Target, DbtBuild(env)
        PROVE  StreamInv'
    BY <2>2, OtherStepsKeepRows DEF DbtBuild
  <2>3. ASSUME UNCHANGED platformVars
        PROVE  StreamInv'
    BY <2>3, OtherStepsKeepRows DEF platformVars
  <2>4. CASE SetUp
    <3>1. CASE WorkOnSetup
      <4>1. CASE MakeDbtBuild
        BY <2>2, <2>3, <4>1, DoctorAssumption DEF MakeDbtBuild, deployVars
      <4>2. CASE RunDoctor \/ MakeDeploySql \/ AskAgain \/ \E i \in DOMAIN Checks : Repair(i)
        BY <2>3, <4>2 DEF RunDoctor, MakeDeploySql, StartDeploy, AskAgain, Repair, deployVars
      <4>. QED
        BY <3>1, <4>1, <4>2 DEF WorkOnSetup
    <3>. QED
      BY <2>1, <2>4, <3>1 DEF SetUp
  <2>5. CASE Operate
    <3>1. CASE \E d \in Deployer, env \in Target, go_on \in BOOLEAN,
                  p \in DOMAIN PHASES \cup {"all"}, only \in {"everything", "20_streams_tasks"} :
                 StartDeploy(d, env, p, only, go_on)
      BY <2>3, <3>1 DEF StartDeploy
    <3>2. CASE (\E f \in File : PutFile(f)) \/ LoadFiles \/ DrainStream
      BY <3>2, PlatformKeepsRows
    <3>. QED
      BY <2>1, <2>2, <2>5, <3>1, <3>2 DEF Operate
  <2>6. CASE WriteScript \/ UNCHANGED vars
    BY <2>3, <2>6 DEF WriteScript, vars, deployVars
  <2>. QED
    BY <2>4, <2>5, <2>6 DEF Next
<1>3. StreamInv => CapturedOnce
  BY DEF StreamInv
<1>. QED
  BY <1>1, <1>2, <1>3, PTL DEF Spec

-----------------------------------------------------------------------------
(* WHAT A DEPLOYER SAYS                                                    *)

Object == {"stage", "raw_tables", "sp_load", "stream", "sp_drain", "tasks", "marts",
           "prefixed_marts", "sla_view", "alert_procedures", "alerts"}

Statement == [op : {"create if not exists", "create or replace", "resume"},
              object : Object, needs : SUBSET Object]

(* What a run of the script is, whatever it still has to do.               *)
Run == [pc : {"idle", "applying"}, plan : Seq(Statement), whole : SUBSET DOMAIN PHASES,
        go_on : BOOLEAN, failed : BOOLEAN, exit : Nat]

Makes(plan, o) == \E i \in DOMAIN plan : plan[i].object = o
Resumes(plan, o) == \E i \in DOMAIN plan : plan[i].op = "resume" /\ plan[i].object = o

(* Whoever replaces a task or an alert, which leaves it suspended, resumes *)
(* it later in the same plan.                                              *)
Suspends(s) == s.op = "create or replace" /\ s.object \in Scheduled

ReplacedIsResumed(plan) ==
    \A i \in DOMAIN plan :
        Suspends(plan[i]) =>
            \E j \in DOMAIN plan :
                i < j /\ plan[j].op = "resume" /\ plan[j].object = plan[i].object

ObjectsOf(p) ==
    UNION {{s.object : s \in ToSet(Scripts[env][d])} : d \in ToSet(PHASES[p]), env \in Target}

DeployType ==
    /\ deployment \in [Deployer -> Run]
    /\ suspendedBy \in [Scheduled -> Deployer \cup {NoOne}]
    /\ vouched \subseteq DOMAIN PHASES

(* A run that has not failed has made, or still has to make, every object  *)
(* of the phases it will vouch for.                                        *)
WillMake ==
    \A d \in Deployer :
        deployment[d].pc = "applying" /\ ~deployment[d].failed =>
            \A p \in deployment[d].whole :
                \A o \in ObjectsOf(p) : o \in objects \/ Makes(deployment[d].plan, o)

(* A run that is to suspend something is to resume it afterwards.          *)
WillResume ==
    \A d \in Deployer : deployment[d].pc = "applying" => ReplacedIsResumed(deployment[d].plan)

(* What a run suspended and nobody resumed since, it still has to resume,  *)
(* unless it has failed.                                                   *)
SuspenderWorks ==
    \A o \in Scheduled : suspendedBy[o] # NoOne /\ o \notin running =>
        /\ deployment[suspendedBy[o]].pc = "applying"
        /\ deployment[suspendedBy[o]].failed \/ Resumes(deployment[suspendedBy[o]].plan, o)

DeployInv ==
    /\ DeployType /\ WillMake /\ WillResume /\ SuspenderWorks
    /\ \A p \in vouched : ObjectsOf(p) \subseteq objects

(* The head of a plan is carried out and the rest remains.                 *)
LEMMA HeadAndTail ==
    ASSUME NEW plan \in Seq(Statement), plan # <<>>
    PROVE  /\ Head(plan) \in Statement /\ Tail(plan) \in Seq(Statement)
           /\ \A o : Makes(plan, o) => Head(plan).object = o \/ Makes(Tail(plan), o)
           /\ \A o : Resumes(plan, o) =>
                 (Head(plan).op = "resume" /\ Head(plan).object = o) \/ Resumes(Tail(plan), o)
           /\ ReplacedIsResumed(plan) =>
                 /\ ReplacedIsResumed(Tail(plan))
                 /\ Suspends(Head(plan)) =>
                      Resumes(Tail(plan), Head(plan).object)
<1>. HIDE DEF Statement
<1>1. /\ Head(plan) \in Statement /\ Tail(plan) \in Seq(Statement)
      /\ Len(plan) \in Nat \ {0} /\ DOMAIN plan = 1..Len(plan)
      /\ DOMAIN Tail(plan) = 1..(Len(plan) - 1)
      /\ Head(plan) = plan[1]
      /\ \A i \in 1..(Len(plan) - 1) : Tail(plan)[i] = plan[i + 1]
  OBVIOUS
<1>2. ASSUME NEW i \in DOMAIN plan
      PROVE  i = 1 \/ (i - 1 \in DOMAIN Tail(plan) /\ Tail(plan)[i - 1] = plan[i])
  BY <1>1
<1>3. ASSUME NEW o, Makes(plan, o)
      PROVE  Head(plan).object = o \/ Makes(Tail(plan), o)
  BY <1>1, <1>2, <1>3 DEF Makes
<1>4. ASSUME NEW o, Resumes(plan, o)
      PROVE  (Head(plan).op = "resume" /\ Head(plan).object = o) \/ Resumes(Tail(plan), o)
  BY <1>1, <1>2, <1>4 DEF Resumes
<1>. DEFINE t == Tail(plan)
            n == Len(plan)
<1>5. /\ n \in Nat \ {0} /\ DOMAIN plan = 1..n /\ DOMAIN t = 1..(n - 1)
      /\ \A i \in 1..(n - 1) : t[i] = plan[i + 1]
  BY <1>1
<1>. HIDE DEF t, n
<1>6. ASSUME NEW j \in DOMAIN plan, j > 1
      PROVE  j - 1 \in DOMAIN t /\ t[j - 1] = plan[j]
  BY <1>5, <1>6
<1>7. ASSUME ReplacedIsResumed(plan)
      PROVE  ReplacedIsResumed(t)
  <2>. SUFFICES ASSUME NEW i \in DOMAIN t, Suspends(t[i])
                PROVE  \E j \in DOMAIN t :
                          i < j /\ t[j].op = "resume" /\ t[j].object = t[i].object
    BY DEF ReplacedIsResumed
  <2>1. i \in Nat /\ i >= 1 /\ i + 1 \in DOMAIN plan /\ t[i] = plan[i + 1]
    BY <1>5
  <2>2. PICK j \in DOMAIN plan :
            i + 1 < j /\ plan[j].op = "resume" /\ plan[j].object = plan[i + 1].object
    BY <1>7, <2>1 DEF ReplacedIsResumed
  <2>3. j > 1 /\ i < j - 1
    BY <1>5, <2>1, <2>2
  <2>. QED
    BY <1>6, <2>1, <2>2, <2>3
<1>8. ASSUME ReplacedIsResumed(plan), Suspends(Head(plan))
      PROVE  Resumes(t, Head(plan).object)
  <2>1. 1 \in DOMAIN plan /\ Head(plan) = plan[1]
    BY <1>1, <1>5
  <2>2. PICK j \in DOMAIN plan :
            1 < j /\ plan[j].op = "resume" /\ plan[j].object = plan[1].object
    BY <1>8, <2>1 DEF ReplacedIsResumed
  <2>3. j > 1
    BY <1>5, <2>2
  <2>. QED
    BY <1>6, <2>1, <2>2, <2>3 DEF Resumes
<1>. QED
  BY <1>1, <1>3, <1>4, <1>7, <1>8 DEF t

(* Two plans one after the other.                                          *)
LEMMA PlansJoin ==
    ASSUME NEW a \in Seq(Statement), NEW b \in Seq(Statement),
           ReplacedIsResumed(a), ReplacedIsResumed(b)
    PROVE  /\ a \o b \in Seq(Statement) /\ ReplacedIsResumed(a \o b)
           /\ \A o : Makes(a, o) \/ Makes(b, o) => Makes(a \o b, o)
<1>. HIDE DEF Statement
<1>. DEFINE c == a \o b
<1>1. /\ c \in Seq(Statement) /\ DOMAIN c = 1..(Len(a) + Len(b))
      /\ DOMAIN a = 1..Len(a) /\ DOMAIN b = 1..Len(b) /\ Len(a) \in Nat /\ Len(b) \in Nat
      /\ \A i \in DOMAIN a : c[i] = a[i]
      /\ \A i \in DOMAIN b : c[Len(a) + i] = b[i]
  OBVIOUS
<1>. HIDE DEF c
<1>2. \A i \in DOMAIN a : i \in DOMAIN c
  BY <1>1
<1>3. \A i \in DOMAIN b : Len(a) + i \in DOMAIN c
  BY <1>1
<1>4. ASSUME NEW o, Makes(a, o) \/ Makes(b, o)
      PROVE  Makes(c, o)
  BY <1>1, <1>2, <1>3, <1>4 DEF Makes
<1>5. ReplacedIsResumed(c)
  <2>. SUFFICES ASSUME NEW i \in DOMAIN c, Suspends(c[i])
                PROVE  \E j \in DOMAIN c :
                          i < j /\ c[j].op = "resume" /\ c[j].object = c[i].object
    BY DEF ReplacedIsResumed
  <2>1. CASE i \in DOMAIN a
    <3>1. PICK j \in DOMAIN a : i < j /\ a[j].op = "resume" /\ a[j].object = a[i].object
      BY <1>1, <2>1 DEF ReplacedIsResumed
    <3>. QED
      BY <1>1, <1>2, <2>1, <3>1
  <2>2. CASE i \notin DOMAIN a
    <3>. DEFINE k == i - Len(a)
    <3>0. i \in Nat /\ Len(a) < i /\ i <= Len(a) + Len(b)
      BY <1>1, <2>2
    <3>1. k \in DOMAIN b /\ c[i] = b[k] /\ i = Len(a) + k
      <4>1. k \in 1..Len(b) /\ i = Len(a) + k
        BY <1>1, <3>0
      <4>. HIDE DEF k
      <4>. QED
        BY <1>1, <4>1
    <3>. HIDE DEF k
    <3>2. PICK j \in DOMAIN b : k < j /\ b[j].op = "resume" /\ b[j].object = b[k].object
      BY <3>1 DEF ReplacedIsResumed
    <3>3. Len(a) + j \in DOMAIN c /\ c[Len(a) + j] = b[j]
      BY <1>1, <1>3
    <3>4. i < Len(a) + j
      BY <1>1, <3>1, <3>2
    <3>. QED
      BY <3>1, <3>2, <3>3, <3>4
  <2>. QED
    BY <2>1, <2>2
<1>. QED
  BY <1>1, <1>4, <1>5 DEF c

(* Two lists of directories one after the other.                           *)
LEMMA Joined ==
    ASSUME NEW S, NEW a \in Seq(S), NEW b \in Seq(S)
    PROVE  /\ a \o b \in Seq(S) /\ Len(a \o b) = Len(a) + Len(b)
           /\ ToSet(a) \subseteq ToSet(a \o b) /\ ToSet(b) \subseteq ToSet(a \o b)
<1>. DEFINE c == a \o b
<1>1. /\ c \in Seq(S) /\ Len(c) = Len(a) + Len(b) /\ DOMAIN c = 1..(Len(a) + Len(b))
      /\ DOMAIN a = 1..Len(a) /\ DOMAIN b = 1..Len(b) /\ Len(a) \in Nat /\ Len(b) \in Nat
      /\ \A i \in DOMAIN a : c[i] = a[i]
      /\ \A i \in DOMAIN b : c[Len(a) + i] = b[i]
  OBVIOUS
<1>. HIDE DEF c
<1>2. \A i \in DOMAIN a : i \in DOMAIN c
  BY <1>1
<1>3. \A i \in DOMAIN b : Len(a) + i \in DOMAIN c
  BY <1>1
<1>. QED
  BY <1>1, <1>2, <1>3 DEF ToSet, c

(* Up to four sequences laid end to end.                                   *)
LEMMA Flattened ==
    ASSUME NEW seqs, NEW n \in 1..4, Len(seqs) = n
    PROVE  /\ n = 1 => FlattenSeq(seqs) = seqs[1]
           /\ n = 2 => FlattenSeq(seqs) = seqs[1] \o seqs[2]
           /\ n = 3 => FlattenSeq(seqs) = (seqs[1] \o seqs[2]) \o seqs[3]
           /\ n = 4 => FlattenSeq(seqs) = ((seqs[1] \o seqs[2]) \o seqs[3]) \o seqs[4]
<1>. DEFINE Is(f) == f = [i \in 1..Len(seqs) |-> IF i = 1 THEN seqs[i] ELSE f[i - 1] \o seqs[i]]
            flatten == CHOOSE f : Is(f)
            g == [i \in 1..Len(seqs) |->
                    IF i = 1 THEN seqs[1] ELSE IF i = 2 THEN seqs[1] \o seqs[2]
                    ELSE IF i = 3 THEN (seqs[1] \o seqs[2]) \o seqs[3]
                    ELSE ((seqs[1] \o seqs[2]) \o seqs[3]) \o seqs[4]]
<1>1. Is(g)
  <2>1. ASSUME NEW i \in 1..Len(seqs)
        PROVE  g[i] = IF i = 1 THEN seqs[i] ELSE g[i - 1] \o seqs[i]
    <3>1. i = 1 \/ i = 2 \/ i = 3 \/ i = 4
      OBVIOUS
    <3>. QED
      BY <3>1
  <2>. QED
    BY <2>1
<1>. HIDE DEF Is
<1>2. Is(flatten)
  BY <1>1
<1>3. FlattenSeq(seqs) = flatten[n]
  BY DEF FlattenSeq, Is
<1>. HIDE DEF flatten
<1>4. \A i \in 1..n : flatten[i] = IF i = 1 THEN seqs[i] ELSE flatten[i - 1] \o seqs[i]
  BY <1>2 DEF Is
<1>5. \A i \in 1..n : i # 1 => flatten[i] = flatten[i - 1] \o seqs[i]
  BY <1>4
<1>6. 1 \in 1..n => flatten[1] = seqs[1]
  BY <1>4
<1>7. 2 \in 1..n => flatten[2] = flatten[1] \o seqs[2]
  <2>1. 2 # 1 /\ 2 - 1 = 1
    OBVIOUS
  <2>. QED
    BY <1>5, <2>1
<1>8. 3 \in 1..n => flatten[3] = flatten[2] \o seqs[3]
  <2>1. 3 # 1 /\ 3 - 1 = 2
    OBVIOUS
  <2>. QED
    BY <1>5, <2>1
<1>9. 4 \in 1..n => flatten[4] = flatten[3] \o seqs[4]
  <2>1. 4 # 1 /\ 4 - 1 = 3
    OBVIOUS
  <2>. QED
    BY <1>5, <2>1
<1>10. 1 \in 1..n /\ (n >= 2 => 2 \in 1..n) /\ (n >= 3 => 3 \in 1..n) /\ (n >= 4 => 4 \in 1..n)
  OBVIOUS
<1>. HIDE DEF Is
<1>11. CASE n = 1
  BY <1>3, <1>6, <1>11
<1>12. CASE n = 2
  <2>0. 1 \in 1..n /\ 2 \in 1..n
    BY <1>10, <1>12
  <2>1. FlattenSeq(seqs) = seqs[1] \o seqs[2]
    BY <1>3, <1>6, <1>7, <1>12, <2>0
  <2>2. n # 1 /\ n # 3 /\ n # 4
    BY <1>12
  <2>. QED
    BY <2>1, <2>2
<1>13. CASE n = 3
  <2>0. 1 \in 1..n /\ 2 \in 1..n /\ 3 \in 1..n
    BY <1>10, <1>13
  <2>1. FlattenSeq(seqs) = (seqs[1] \o seqs[2]) \o seqs[3]
    BY <1>3, <1>6, <1>7, <1>8, <1>13, <2>0
  <2>2. n # 1 /\ n # 2 /\ n # 4
    BY <1>13
  <2>. QED
    BY <2>1, <2>2
<1>14. CASE n = 4
  <2>0. 1 \in 1..n /\ 2 \in 1..n /\ 3 \in 1..n /\ 4 \in 1..n
    BY <1>10, <1>14
  <2>1. FlattenSeq(seqs) = ((seqs[1] \o seqs[2]) \o seqs[3]) \o seqs[4]
    BY <1>3, <1>6, <1>7, <1>8, <1>9, <1>14, <2>0
  <2>2. n # 1 /\ n # 2 /\ n # 3
    BY <1>14
  <2>. QED
    BY <2>1, <2>2
<1>. QED
  BY <1>11, <1>12, <1>13, <1>14

LEMMA FlattenedOne ==
    ASSUME NEW seqs, Len(seqs) = 1
    PROVE  FlattenSeq(seqs) = seqs[1]
<1>1. 1 \in 1..4
  OBVIOUS
<1>. QED
  BY <1>1, Flattened, Zenon

LEMMA FlattenedTwo ==
    ASSUME NEW seqs, Len(seqs) = 2
    PROVE  FlattenSeq(seqs) = seqs[1] \o seqs[2]
<1>1. 2 \in 1..4
  OBVIOUS
<1>. QED
  BY <1>1, Flattened, Zenon

(* The statements of a script by what they do.                             *)
LEMMA StatementsAre ==
    ASSUME NEW o \in Object, NEW n \in SUBSET Object
    PROVE  /\ Create(o, n) \in Statement /\ Replace(o, n) \in Statement /\ Resume(o) \in Statement
           /\ Create(o, n).object = o /\ Replace(o, n).object = o /\ Resume(o).object = o
           /\ Resume(o).op = "resume"
           /\ ~Suspends(Create(o, n)) /\ ~Suspends(Resume(o))
           /\ Suspends(Replace(o, n)) <=> o \in Scheduled
BY DEF Create, Replace, Resume, Statement, Suspends

LEMMA ScriptsAre ==
    ASSUME NEW env \in Target
    PROVE  /\ Scripts[env]["10_ingestion"] =
                <<Replace("stage", {}), Create("raw_tables", {}), Replace("sp_load", {})>>
           /\ Scripts[env]["20_streams_tasks"] =
                <<Create("stream", {"raw_tables"}), Replace("sp_drain", {}),
                  Replace("tasks", {"stream"}), Resume("tasks")>>
           /\ Scripts[env]["30_monitoring"] = <<Replace("sla_view", {"raw_tables", Marts(env)})>>
           /\ Scripts[env]["40_alerts"] =
                <<Replace("alert_procedures", {}),
                  Replace("alerts", {"sla_view", "alert_procedures", Marts(env)}),
                  Resume("alerts")>>
BY DEF Scripts, Directories

(* Every script resumes what it suspends, and makes the same objects for   *)
(* whatever environment it is rendered.                                    *)
LEMMA ScriptsResume ==
    ASSUME NEW env \in Target, NEW d \in Directories
    PROVE  /\ Scripts[env][d] \in Seq(Statement) /\ ReplacedIsResumed(Scripts[env][d])
           /\ \A e \in Target : \A o : Makes(Scripts[e][d], o) => Makes(Scripts[env][d], o)
<1>. HIDE DEF Statement
<1>1. d \in {"10_ingestion", "20_streams_tasks", "30_monitoring", "40_alerts"}
  BY DEF Directories
<1>2. Marts(env) \in Object
  BY DEF Marts, Object
<1>3. CASE d = "10_ingestion"
  <2>. DEFINE a == Replace("stage", {})
              b == Create("raw_tables", {})
              c == Replace("sp_load", {})
  <2>1. /\ a \in Statement /\ b \in Statement /\ c \in Statement
        /\ ~Suspends(a) /\ ~Suspends(b) /\ ~Suspends(c)
    BY StatementsAre DEF Scheduled, Object
  <2>2. \A e \in Target : Scripts[e][d] = <<a, b, c>>
    BY <1>3, ScriptsAre
  <2>. HIDE DEF a, b, c
  <2>3. <<a, b, c>> \in Seq(Statement)
    BY <2>1
  <2>4. \A i \in DOMAIN <<a, b, c>> : ~Suspends(<<a, b, c>>[i])
    BY <2>1
  <2>5. ReplacedIsResumed(<<a, b, c>>)
    BY <2>4 DEF ReplacedIsResumed
  <2>. QED
    BY <2>2, <2>3, <2>5
<1>4. CASE d = "20_streams_tasks"
  <2>. DEFINE a == Create("stream", {"raw_tables"})
              b == Replace("sp_drain", {})
              c == Replace("tasks", {"stream"})
              r == Resume("tasks")
  <2>1. /\ a \in Statement /\ b \in Statement /\ c \in Statement /\ r \in Statement
        /\ ~Suspends(a) /\ ~Suspends(b) /\ ~Suspends(r)
        /\ c.object = "tasks" /\ r.object = "tasks" /\ r.op = "resume"
    BY StatementsAre DEF Scheduled, Object
  <2>2. \A e \in Target : Scripts[e][d] = <<a, b, c, r>>
    BY <1>4, ScriptsAre
  <2>. HIDE DEF a, b, c, r
  <2>3. <<a, b, c, r>> \in Seq(Statement)
    BY <2>1
  <2>4. \A i \in DOMAIN <<a, b, c, r>> :
            Suspends(<<a, b, c, r>>[i]) => i < 4 /\ <<a, b, c, r>>[i].object = r.object
    BY <2>1
  <2>5. ReplacedIsResumed(<<a, b, c, r>>)
    <3>1. 4 \in DOMAIN <<a, b, c, r>> /\ <<a, b, c, r>>[4] = r
      OBVIOUS
    <3>. QED
      BY <2>1, <2>4, <3>1 DEF ReplacedIsResumed
  <2>. QED
    BY <2>2, <2>3, <2>5
<1>5. CASE d = "30_monitoring"
  <2>. DEFINE a(e) == Replace("sla_view", {"raw_tables", Marts(e)})
  <2>1. \A e \in Target : a(e) \in Statement /\ ~Suspends(a(e)) /\ a(e).object = "sla_view"
    <3>1. ASSUME NEW e \in Target
          PROVE  {"raw_tables", Marts(e)} \in SUBSET Object
      BY DEF Marts, Object
    <3>. QED
      BY <3>1, StatementsAre DEF Scheduled, Object
  <2>2. \A e \in Target : Scripts[e][d] = <<a(e)>>
    BY <1>5, ScriptsAre
  <2>. HIDE DEF a
  <2>3. ASSUME NEW e \in Target
        PROVE  <<a(e)>> \in Seq(Statement) /\ ReplacedIsResumed(<<a(e)>>)
    <3>1. \A i \in DOMAIN <<a(e)>> : ~Suspends(<<a(e)>>[i])
      BY <2>1
    <3>. QED
      BY <2>1, <3>1 DEF ReplacedIsResumed
  <2>4. ASSUME NEW e \in Target, NEW o, Makes(<<a(e)>>, o)
        PROVE  Makes(<<a(env)>>, o)
    BY <2>1, <2>4 DEF Makes
  <2>. QED
    BY <2>2, <2>3, <2>4
<1>6. CASE d = "40_alerts"
  <2>. DEFINE a == Replace("alert_procedures", {})
              b(e) == Replace("alerts", {"sla_view", "alert_procedures", Marts(e)})
              r == Resume("alerts")
  <2>1. /\ a \in Statement /\ r \in Statement /\ ~Suspends(a) /\ ~Suspends(r)
        /\ r.object = "alerts" /\ r.op = "resume"
    BY StatementsAre DEF Scheduled, Object
  <2>2. \A e \in Target : b(e) \in Statement /\ b(e).object = "alerts"
    <3>1. ASSUME NEW e \in Target
          PROVE  {"sla_view", "alert_procedures", Marts(e)} \in SUBSET Object
      BY DEF Marts, Object
    <3>. QED
      BY <3>1, StatementsAre DEF Object
  <2>3. \A e \in Target : Scripts[e][d] = <<a, b(e), r>>
    BY <1>6, ScriptsAre
  <2>. HIDE DEF a, b, r
  <2>4. ASSUME NEW e \in Target
        PROVE  <<a, b(e), r>> \in Seq(Statement) /\ ReplacedIsResumed(<<a, b(e), r>>)
    <3>1. \A i \in DOMAIN <<a, b(e), r>> :
              Suspends(<<a, b(e), r>>[i]) => i < 3 /\ <<a, b(e), r>>[i].object = r.object
      BY <2>1, <2>2
    <3>2. 3 \in DOMAIN <<a, b(e), r>> /\ <<a, b(e), r>>[3] = r
      OBVIOUS
    <3>3. ReplacedIsResumed(<<a, b(e), r>>)
      BY <2>1, <3>1, <3>2 DEF ReplacedIsResumed
    <3>. QED
      BY <2>1, <2>2, <3>3
  <2>5. ASSUME NEW e \in Target, NEW o, Makes(<<a, b(e), r>>, o)
        PROVE  Makes(<<a, b(env), r>>, o)
    <3>1. PICK i \in 1..3 : <<a, b(e), r>>[i].object = o
      BY <2>5 DEF Makes
    <3>2. <<a, b(env), r>>[i].object = o
      BY <2>2, <3>1
    <3>. QED
      BY <3>2 DEF Makes
  <2>. QED
    BY <2>3, <2>4, <2>5
<1>. QED
  BY <1>1, <1>3, <1>4, <1>5, <1>6

LEMMA PhasesAre ==
    /\ DOMAIN PHASES = {"pre-dbt", "post-dbt"} /\ "all" \notin DOMAIN PHASES
    /\ \A p \in DOMAIN PHASES : PHASES[p] \in Seq(Directories) /\ Len(PHASES[p]) = 2
<1>1. /\ PHASES["pre-dbt"] = <<"10_ingestion", "20_streams_tasks">>
      /\ PHASES["post-dbt"] = <<"30_monitoring", "40_alerts">>
      /\ DOMAIN PHASES = {"pre-dbt", "post-dbt"}
  BY DEF PHASES
<1>2. \A a, b \in Directories : <<a, b>> \in Seq(Directories) /\ Len(<<a, b>>) = 2
  OBVIOUS
<1>3. Directories = {"10_ingestion", "20_streams_tasks", "30_monitoring", "40_alerts"}
  BY DEF Directories
<1>. QED
  BY <1>1, <1>2, <1>3

(* What discover finds: one directory of --only, or all of the phase.      *)
LEMMA Discovered ==
    ASSUME NEW phase \in DOMAIN PHASES \cup {"all"}, NEW only, Discover(phase, only) # <<>>
    PROVE  /\ Discover(phase, only) \in Seq(Directories) /\ Len(Discover(phase, only)) \in 1..4
           /\ only = "everything" =>
                \A p \in DOMAIN PHASES : phase \in {p, "all"} =>
                    ToSet(PHASES[p]) \subseteq ToSet(Discover(phase, only))
<1>. DEFINE wanted == IF phase = "all" THEN DEPLOYABLE_PHASES ELSE <<phase>>
            seqs == [i \in DOMAIN wanted |-> PHASES[wanted[i]]]
            all == FlattenSeq(seqs)
<1>1. /\ all \in Seq(Directories) /\ Len(all) \in {2, 4}
      /\ \A p \in DOMAIN PHASES : phase \in {p, "all"} => ToSet(PHASES[p]) \subseteq ToSet(all)
  <2>1. CASE phase # "all"
    <3>1. wanted = <<phase>> /\ phase \in DOMAIN PHASES
      BY <2>1
    <3>2. Len(seqs) = 1 /\ seqs[1] = PHASES[phase]
      BY <3>1
    <3>. HIDE DEF seqs
    <3>3. all = PHASES[phase]
      <4>1. FlattenSeq(seqs) = seqs[1]
        BY <3>2, FlattenedOne
      <4>. QED
        BY <3>2, <4>1
    <3>. HIDE DEF all
    <3>. QED
      BY <2>1, <3>1, <3>3, PhasesAre
  <2>2. CASE phase = "all"
    <3>. DEFINE a == PHASES["pre-dbt"]
                b == PHASES["post-dbt"]
    <3>1. wanted = <<"pre-dbt", "post-dbt">>
      BY <2>2 DEF DEPLOYABLE_PHASES
    <3>2. Len(seqs) = 2 /\ seqs[1] = a /\ seqs[2] = b
      BY <3>1
    <3>. HIDE DEF seqs
    <3>3. all = a \o b
      <4>1. FlattenSeq(seqs) = seqs[1] \o seqs[2]
        BY <3>2, FlattenedTwo
      <4>. QED
        BY <3>2, <4>1
    <3>4. \A p \in DOMAIN PHASES : PHASES[p] = a \/ PHASES[p] = b
      BY PhasesAre
    <3>5. a \in Seq(Directories) /\ b \in Seq(Directories) /\ Len(a) = 2 /\ Len(b) = 2
      BY PhasesAre
    <3>. HIDE DEF all, a, b
    <3>6. /\ all \in Seq(Directories) /\ Len(all) = 4
          /\ ToSet(a) \subseteq ToSet(all) /\ ToSet(b) \subseteq ToSet(all)
      <4>1. /\ all \in Seq(Directories) /\ Len(all) = Len(a) + Len(b)
            /\ ToSet(a) \subseteq ToSet(all) /\ ToSet(b) \subseteq ToSet(all)
        BY <3>3, <3>5, Joined
      <4>2. Len(a) + Len(b) = 4
        BY <3>5
      <4>. QED
        BY <4>1, <4>2
    <3>. QED
      BY <3>4, <3>6
  <2>. QED
    BY <2>1, <2>2
<1>2. Discover(phase, only) =
        CASE only = "everything" -> all
          [] only # "everything" /\ only \in ToSet(all) -> <<only>>
          [] OTHER -> <<>>
  BY DEF Discover
<1>. HIDE DEF all
<1>3. CASE only = "everything"
  BY <1>1, <1>2, <1>3
<1>4. CASE only # "everything"
  <2>1. Discover(phase, only) = <<only>> /\ only \in ToSet(all)
    BY <1>2, <1>4
  <2>2. only \in Directories
    BY <1>1, <2>1 DEF ToSet
  <2>. QED
    BY <1>4, <2>1, <2>2
<1>. QED
  BY <1>3, <1>4

(* The plan of a run resumes what it suspends, and makes what any of its   *)
(* directories makes.                                                      *)
LEMMA PlanOf ==
    ASSUME NEW env \in Target, NEW ds \in Seq(Directories), Len(ds) \in 1..4
    PROVE  LET plan == FlattenSeq([i \in DOMAIN ds |-> Scripts[env][ds[i]]]) IN
           /\ plan \in Seq(Statement) /\ ReplacedIsResumed(plan)
           /\ \A d \in ToSet(ds), e \in Target : \A o : Makes(Scripts[e][d], o) => Makes(plan, o)
<1>. DEFINE seqs == [i \in DOMAIN ds |-> Scripts[env][ds[i]]]
            n == Len(ds)
            plan == FlattenSeq(seqs)
            Good(s) == s \in Seq(Statement) /\ ReplacedIsResumed(s)
<1>1. /\ n \in 1..4 /\ DOMAIN seqs = 1..n /\ Len(seqs) = n
      /\ \A i \in 1..n : Good(seqs[i])
      /\ \A i \in 1..n, e \in Target : \A o : Makes(Scripts[e][ds[i]], o) => Makes(seqs[i], o)
  <2>1. n \in 1..4 /\ DOMAIN seqs = 1..n /\ Len(seqs) = n
    OBVIOUS
  <2>2. ASSUME NEW i \in 1..n
        PROVE  seqs[i] = Scripts[env][ds[i]] /\ ds[i] \in Directories
    OBVIOUS
  <2>. HIDE DEF seqs, n
  <2>. QED
    BY <2>1, <2>2, ScriptsResume
<1>. DEFINE p2 == seqs[1] \o seqs[2]
            p3 == p2 \o seqs[3]
            p4 == p3 \o seqs[4]
<1>2. /\ n = 1 => plan = seqs[1]
      /\ n = 2 => plan = p2
      /\ n = 3 => plan = p3
      /\ n = 4 => plan = p4
  BY <1>1, Flattened
<1>3. \A d \in ToSet(ds) : \E i \in 1..n : d = ds[i]
  BY DEF ToSet
<1>4. \A a, b : Good(a) /\ Good(b) =>
          Good(a \o b) /\ \A o : Makes(a, o) \/ Makes(b, o) => Makes(a \o b, o)
  BY PlansJoin
<1>. HIDE DEF plan, seqs, n, Good
<1>5. n >= 2 => Good(p2) /\ \A o : Makes(seqs[1], o) \/ Makes(seqs[2], o) => Makes(p2, o)
  <2>1. n >= 2 => 1 \in 1..n /\ 2 \in 1..n
    BY <1>1
  <2>. QED
    BY <1>1, <1>4, <2>1
<1>. HIDE DEF p2
<1>6. n >= 3 => Good(p3) /\ \A o : Makes(p2, o) \/ Makes(seqs[3], o) => Makes(p3, o)
  <2>1. n >= 3 => n >= 2 /\ 3 \in 1..n
    BY <1>1
  <2>. QED
    BY <1>1, <1>4, <1>5, <2>1
<1>. HIDE DEF p3
<1>7. n >= 4 => Good(p4) /\ \A o : Makes(p3, o) \/ Makes(seqs[4], o) => Makes(p4, o)
  <2>1. n >= 4 => n >= 3 /\ 4 \in 1..n
    BY <1>1
  <2>. QED
    BY <1>1, <1>4, <1>6, <2>1
<1>. HIDE DEF p4
<1>8. Good(plan) /\ \A i \in 1..n : \A o : Makes(seqs[i], o) => Makes(plan, o)
  <2>1. n = 1 \/ n = 2 \/ n = 3 \/ n = 4
    BY <1>1
  <2>2. CASE n = 1
    <3>1. plan = seqs[1] /\ 1..n = {1}
      BY <1>2, <2>2
    <3>. QED
      BY <1>1, <3>1
  <2>3. CASE n = 2
    <3>1. plan = p2 /\ 1..n = {1, 2} /\ n >= 2
      BY <1>2, <2>3
    <3>. QED
      BY <1>5, <3>1
  <2>4. CASE n = 3
    <3>1. plan = p3 /\ 1..n = {1, 2, 3} /\ n >= 2 /\ n >= 3
      BY <1>2, <2>4
    <3>. QED
      BY <1>5, <1>6, <3>1
  <2>5. CASE n = 4
    <3>1. plan = p4 /\ 1..n = {1, 2, 3, 4} /\ n >= 2 /\ n >= 3 /\ n >= 4
      BY <1>2, <2>5
    <3>. QED
      BY <1>5, <1>6, <1>7, <3>1
  <2>. QED
    BY <2>1, <2>2, <2>3, <2>4, <2>5
<1>. QED
  BY <1>1, <1>3, <1>8 DEF plan, seqs, Good

LEMMA MadeInDirectories ==
    ASSUME NEW p \in DOMAIN PHASES, NEW o \in ObjectsOf(p)
    PROVE  \E d \in ToSet(PHASES[p]), e \in Target : Makes(Scripts[e][d], o)
BY DEF ObjectsOf, Makes, ToSet

LEMMA DeployStarts ==
    ASSUME NEW d \in Deployer, NEW env \in Target, NEW phase \in DOMAIN PHASES \cup {"all"},
           NEW only, NEW go_on \in BOOLEAN, DeployInv, StartDeploy(d, env, phase, only, go_on)
    PROVE  DeployInv'
<1>. DEFINE ds == Discover(phase, only)
            plan == FlattenSeq([i \in DOMAIN ds |-> Scripts[env][ds[i]]])
            whole == IF only = "everything" THEN {p \in DOMAIN PHASES : phase \in {p, "all"}} ELSE {}
            started == [NewRun EXCEPT !.pc = "applying", !.go_on = go_on, !.plan = plan,
                                      !.whole = whole]
            refused == [NewRun EXCEPT !.exit = 1]
<1>1. /\ deployment[d].pc = "idle" /\ UNCHANGED <<objects, running, vouched, suspendedBy>>
      /\ deployment' = [deployment EXCEPT ![d] = IF Refused(ds) THEN refused ELSE started]
  BY DEF StartDeploy, platformVars
<1>2. ~Refused(ds) =>
        /\ plan \in Seq(Statement) /\ ReplacedIsResumed(plan)
        /\ whole \subseteq DOMAIN PHASES
        /\ \A p \in whole : \A o \in ObjectsOf(p) : Makes(plan, o)
  <2>. SUFFICES ASSUME ~Refused(ds)
                PROVE  /\ plan \in Seq(Statement) /\ ReplacedIsResumed(plan)
                       /\ \A p \in whole : \A o \in ObjectsOf(p) : Makes(plan, o)
    OBVIOUS
  <2>1. ds # <<>>
    BY DEF Refused
  <2>2. /\ ds \in Seq(Directories) /\ Len(ds) \in 1..4
        /\ \A p \in whole : p \in DOMAIN PHASES /\ ToSet(PHASES[p]) \subseteq ToSet(ds)
    BY <2>1, Discovered
  <2>. HIDE DEF ds, whole
  <2>3. /\ plan \in Seq(Statement) /\ ReplacedIsResumed(plan)
        /\ \A x \in ToSet(ds), e \in Target : \A o : Makes(Scripts[e][x], o) => Makes(plan, o)
    BY <2>2, PlanOf
  <2>. HIDE DEF plan
  <2>4. ASSUME NEW p \in whole, NEW o \in ObjectsOf(p)
        PROVE  Makes(plan, o)
    BY <2>2, <2>3, MadeInDirectories
  <2>. QED
    BY <2>3, <2>4
<1>. HIDE DEF ds, plan, whole
<1>3. /\ NewRun.pc = "idle" /\ refused \in Run /\ refused.pc = "idle"
      /\ ~Refused(ds) => /\ started \in Run /\ started.pc = "applying"
                         /\ started.plan = plan /\ started.whole = whole
  <2>1. <<>> \in Seq(Statement)
    OBVIOUS
  <2>. HIDE DEF Statement
  <2>. QED
    BY <1>2, <2>1 DEF NewRun, Run
<1>. HIDE DEF started, refused
<1>4. /\ deployment \in [Deployer -> Run]
      /\ deployment' \in [Deployer -> Run]
      /\ \A e \in Deployer \ {d} : deployment'[e] = deployment[e]
      /\ Refused(ds) => deployment'[d] = refused
      /\ ~Refused(ds) => deployment'[d] = started
  BY <1>1, <1>3 DEF DeployInv, DeployType
<1>5. DeployType'
  BY <1>1, <1>4 DEF DeployInv, DeployType
<1>6. WillMake'
  BY <1>1, <1>2, <1>3, <1>4 DEF DeployInv, WillMake
<1>7. WillResume'
  BY <1>1, <1>2, <1>3, <1>4 DEF DeployInv, WillResume
<1>8. SuspenderWorks'
  <2>1. ASSUME NEW o \in Scheduled, suspendedBy[o] # NoOne, o \notin running
        PROVE  suspendedBy[o] \in Deployer \ {d}
    BY <1>1, <2>1 DEF DeployInv, DeployType, SuspenderWorks
  <2>. QED
    BY <1>1, <1>4, <2>1 DEF DeployInv, SuspenderWorks
<1>. QED
  BY <1>1, <1>5, <1>6, <1>7, <1>8 DEF DeployInv

(* What a statement does to what is scheduled.                             *)
LEMMA Executed ==
    ASSUME NEW d \in Deployer, NEW s \in Statement, DeployType, Execute(d, s)
    PROVE  /\ objects' = objects \cup {s.object}
           /\ s.op = "resume" => s.object \in running'
           /\ \A o \in Scheduled : o # s.object => (o \in running' <=> o \in running)
           /\ ~Suspends(s) => /\ suspendedBy' = suspendedBy
                              /\ \A o \in Scheduled : o \in running => o \in running'
           /\ Suspends(s) => suspendedBy' = [suspendedBy EXCEPT ![s.object] = d]
BY DEF Execute, Suspends

LEMMA StatementApplied ==
    ASSUME NEW d \in Deployer, DeployInv, ApplyStatement(d)
    PROVE  DeployInv'
<1>. DEFINE r == deployment[d]
            s == Head(r.plan)
            t == Tail(r.plan)
<1>1. /\ r \in Run /\ r.pc = "applying" /\ r.plan \in Seq(Statement) /\ r.plan # <<>>
      /\ Execute(d, s) /\ UNCHANGED vouched
      /\ deployment' = [deployment EXCEPT ![d].plan = t]
  BY DEF DeployInv, DeployType, ApplyStatement, Run
<1>2. /\ s \in Statement /\ t \in Seq(Statement)
      /\ \A o : Makes(r.plan, o) => s.object = o \/ Makes(t, o)
      /\ \A o : Resumes(r.plan, o) => (s.op = "resume" /\ s.object = o) \/ Resumes(t, o)
      /\ ReplacedIsResumed(r.plan) =>
            ReplacedIsResumed(t) /\ (Suspends(s) => Resumes(t, s.object))
  BY <1>1, HeadAndTail
<1>3. /\ objects' = objects \cup {s.object}
      /\ s.op = "resume" => s.object \in running'
      /\ \A o \in Scheduled : o # s.object => (o \in running' <=> o \in running)
      /\ ~Suspends(s) => /\ suspendedBy' = suspendedBy
                         /\ \A o \in Scheduled : o \in running => o \in running'
      /\ Suspends(s) => suspendedBy' = [suspendedBy EXCEPT ![s.object] = d] /\ s.object \in Scheduled
  BY <1>1, <1>2, Executed DEF DeployInv, Suspends
<1>4. /\ deployment' \in [Deployer -> Run]
      /\ \A e \in Deployer \ {d} : deployment'[e] = deployment[e]
      /\ deployment'[d].pc = "applying" /\ deployment'[d].plan = t
      /\ deployment'[d].whole = r.whole /\ deployment'[d].failed = r.failed
  <2>. HIDE DEF Statement, t
  <2>1. [r EXCEPT !.plan = t] \in Run
    BY <1>1, <1>2 DEF Run
  <2>2. deployment' = [deployment EXCEPT ![d] = [r EXCEPT !.plan = t]]
    BY <1>1
  <2>3. deployment \in [Deployer -> Run]
    BY DEF DeployInv, DeployType
  <2>. QED
    BY <1>1, <2>1, <2>2, <2>3 DEF Run
<1>. HIDE DEF s, t, Statement
<1>5. DeployType'
  <2>1. suspendedBy' \in [Scheduled -> Deployer \cup {NoOne}]
    BY <1>3 DEF DeployInv, DeployType
  <2>. QED
    BY <1>1, <1>4, <2>1 DEF DeployInv, DeployType
<1>6. WillMake'
  <2>. SUFFICES ASSUME NEW e \in Deployer, deployment'[e].pc = "applying", ~deployment'[e].failed,
                       NEW p \in deployment'[e].whole, NEW o \in ObjectsOf(p), o \notin objects'
                PROVE  Makes(deployment'[e].plan, o)
    BY DEF WillMake
  <2>1. CASE e = d
    BY <1>1, <1>2, <1>3, <1>4, <2>1 DEF DeployInv, WillMake
  <2>2. CASE e # d
    BY <1>3, <1>4, <2>2 DEF DeployInv, WillMake
  <2>. QED
    BY <2>1, <2>2
<1>7. WillResume'
  BY <1>1, <1>2, <1>4 DEF DeployInv, WillResume
<1>8. SuspenderWorks'
  <2>. SUFFICES ASSUME NEW o \in Scheduled, suspendedBy'[o] # NoOne, o \notin running'
                PROVE  /\ deployment'[suspendedBy'[o]].pc = "applying"
                       /\ \/ deployment'[suspendedBy'[o]].failed
                          \/ Resumes(deployment'[suspendedBy'[o]].plan, o)
    BY DEF SuspenderWorks
  <2>1. CASE Suspends(s) /\ o = s.object
    <3>1. suspendedBy'[o] = d
      BY <1>3, <2>1 DEF DeployInv, DeployType
    <3>2. Resumes(t, o)
      BY <1>1, <1>2, <2>1 DEF DeployInv, WillResume
    <3>. QED
      BY <1>4, <3>1, <3>2
  <2>2. CASE ~(Suspends(s) /\ o = s.object)
    <3>1. suspendedBy'[o] = suspendedBy[o] /\ o \notin running
      BY <1>3, <2>2 DEF DeployInv, DeployType
    <3>2. /\ suspendedBy[o] \in Deployer /\ deployment[suspendedBy[o]].pc = "applying"
          /\ deployment[suspendedBy[o]].failed \/ Resumes(deployment[suspendedBy[o]].plan, o)
      BY <3>1 DEF DeployInv, DeployType, SuspenderWorks
    <3>3. CASE suspendedBy[o] = d
      <4>1. ~(s.op = "resume" /\ s.object = o)
        BY <1>3
      <4>. QED
        BY <1>2, <1>4, <3>1, <3>2, <3>3, <4>1
    <3>4. CASE suspendedBy[o] # d
      BY <1>4, <3>1, <3>2, <3>4
    <3>. QED
      BY <3>3, <3>4
  <2>. QED
    BY <2>1, <2>2
<1>. QED
  BY <1>1, <1>3, <1>5, <1>6, <1>7, <1>8 DEF DeployInv

(* A run ends: well, if it has done all it had to do, or not.              *)
LEMMA RunEnds ==
    ASSUME NEW d \in Deployer, NEW code \in Nat, DeployInv, deployment[d].pc = "applying",
           code = 0 => ~deployment[d].failed /\ deployment[d].plan = <<>>,
           Exit(d, code), UNCHANGED platformVars
    PROVE  DeployInv'
<1>. DEFINE r == deployment[d]
            over == [NewRun EXCEPT !.exit = code]
<1>1. /\ UNCHANGED <<objects, running>>
      /\ deployment' = [deployment EXCEPT ![d] = over]
      /\ vouched' = IF code = 0 THEN vouched \cup r.whole ELSE vouched
      /\ suspendedBy' = [o \in Scheduled |->
                           IF suspendedBy[o] = d /\ code # 0 THEN NoOne ELSE suspendedBy[o]]
  BY DEF Exit, platformVars
<1>2. over \in Run /\ over.pc = "idle"
  <2>1. <<>> \in Seq(Statement)
    OBVIOUS
  <2>. HIDE DEF Statement
  <2>. QED
    BY <2>1 DEF NewRun, Run
<1>. HIDE DEF over
<1>3. /\ deployment \in [Deployer -> Run] /\ r \in Run
      /\ deployment' \in [Deployer -> Run]
      /\ deployment'[d] = over
      /\ \A e \in Deployer \ {d} : deployment'[e] = deployment[e]
  BY <1>1, <1>2 DEF DeployInv, DeployType
<1>4. r.whole \subseteq DOMAIN PHASES
  BY <1>3 DEF Run
<1>5. DeployType'
  BY <1>1, <1>3, <1>4 DEF DeployInv, DeployType
<1>6. WillMake' /\ WillResume'
  BY <1>1, <1>2, <1>3 DEF DeployInv, WillMake, WillResume
<1>7. ASSUME code = 0
      PROVE  /\ \A p \in r.whole : ObjectsOf(p) \subseteq objects
             /\ \A o : ~Resumes(r.plan, o)
  BY <1>7 DEF DeployInv, WillMake, Makes, Resumes
<1>8. SuspenderWorks'
  <2>. SUFFICES ASSUME NEW o \in Scheduled, suspendedBy'[o] # NoOne, o \notin running
                PROVE  /\ deployment'[suspendedBy'[o]].pc = "applying"
                       /\ \/ deployment'[suspendedBy'[o]].failed
                          \/ Resumes(deployment'[suspendedBy'[o]].plan, o)
    BY <1>1 DEF SuspenderWorks
  <2>1. suspendedBy'[o] = suspendedBy[o] /\ ~(suspendedBy[o] = d /\ code # 0)
    BY <1>1
  <2>2. /\ suspendedBy[o] \in Deployer /\ deployment[suspendedBy[o]].pc = "applying"
        /\ deployment[suspendedBy[o]].failed \/ Resumes(deployment[suspendedBy[o]].plan, o)
    BY <2>1 DEF DeployInv, DeployType, SuspenderWorks
  <2>3. suspendedBy[o] # d
    BY <1>7, <2>1, <2>2
  <2>. QED
    BY <1>3, <2>1, <2>2, <2>3
<1>. QED
  BY <1>1, <1>5, <1>6, <1>7, <1>8 DEF DeployInv

LEMMA StatementFailed ==
    ASSUME NEW d \in Deployer, DeployInv, StatementFails(d)
    PROVE  DeployInv'
<1>. DEFINE r == deployment[d]
            t == Tail(r.plan)
            after == [r EXCEPT !.plan = t, !.failed = TRUE]
<1>1. /\ r \in Run /\ r.pc = "applying" /\ r.plan \in Seq(Statement) /\ r.plan # <<>>
      /\ UNCHANGED platformVars
  BY DEF DeployInv, DeployType, StatementFails, Run
<1>2. CASE ~r.go_on
  <2>1. Exit(d, 1)
    BY <1>2 DEF StatementFails
  <2>. QED
    BY <1>1, <2>1, RunEnds
<1>3. CASE r.go_on
  <2>1. /\ UNCHANGED <<objects, running, vouched, suspendedBy>>
        /\ deployment' = [deployment EXCEPT ![d] = after]
    <3>1. deployment' = [deployment EXCEPT ![d].plan = Tail(@), ![d].failed = TRUE]
      BY <1>3 DEF StatementFails
    <3>2. deployment \in [Deployer -> Run]
      BY DEF DeployInv, DeployType
    <3>3. deployment' = [deployment EXCEPT ![d] = after]
      BY <3>1, <3>2 DEF Run
    <3>. QED
      BY <1>1, <1>3, <3>3 DEF StatementFails, platformVars
  <2>2. t \in Seq(Statement) /\ (ReplacedIsResumed(r.plan) => ReplacedIsResumed(t))
    BY <1>1, HeadAndTail
  <2>3. /\ after \in Run /\ after.pc = "applying" /\ after.plan = t /\ after.failed = TRUE
    <3>. HIDE DEF Statement, t
    <3>. QED
      BY <1>1, <2>2 DEF Run
  <2>. HIDE DEF after, t, Statement
  <2>4. /\ deployment' \in [Deployer -> Run] /\ deployment'[d] = after
        /\ \A e \in Deployer \ {d} : deployment'[e] = deployment[e]
    BY <2>1, <2>3 DEF DeployInv, DeployType
  <2>5. DeployType' /\ WillMake' /\ WillResume'
    BY <1>1, <2>1, <2>2, <2>3, <2>4 DEF DeployInv, DeployType, WillMake, WillResume
  <2>6. SuspenderWorks'
    <3>1. ASSUME NEW o \in Scheduled, suspendedBy[o] # NoOne, o \notin running
          PROVE  suspendedBy[o] \in Deployer
      BY <3>1 DEF DeployInv, DeployType
    <3>. QED
      BY <2>1, <2>3, <2>4, <3>1 DEF DeployInv, SuspenderWorks
  <2>. QED
    BY <2>1, <2>5, <2>6 DEF DeployInv
<1>. QED
  BY <1>2, <1>3

LEMMA ScriptStep ==
    ASSUME NEW d \in Deployer, DeployInv, ApplyScripts(d)
    PROVE  DeployInv'
<1>1. CASE FinishDeploy(d)
  <2>1. /\ deployment[d].pc = "applying" /\ deployment[d].plan = <<>> /\ UNCHANGED platformVars
        /\ Exit(d, IF deployment[d].failed THEN 1 ELSE 0)
    BY <1>1 DEF FinishDeploy
  <2>2. deployment[d].failed \in BOOLEAN
    BY DEF DeployInv, DeployType, Run
  <2>3. CASE deployment[d].failed
    BY <2>1, <2>3, RunEnds
  <2>4. CASE ~deployment[d].failed
    BY <2>1, <2>4, RunEnds
  <2>. QED
    BY <2>3, <2>4
<1>2. CASE AbortDeploy(d)
  BY <1>2, RunEnds DEF AbortDeploy
<1>. QED
  BY <1>1, <1>2, StatementApplied, StatementFailed DEF ApplyScripts

LEMMA OtherStepsKeepDeploy ==
    ASSUME DeployInv, UNCHANGED <<running, deployment, vouched, suspendedBy>>,
           objects \subseteq objects'
    PROVE  DeployInv'
BY DEF DeployInv, DeployType, WillMake, WillResume, SuspenderWorks

LEMMA DeployStep ==
    ASSUME DeployInv, [Next]_vars
    PROVE  DeployInv'
<1>1. ASSUME NEW env \in Target, DbtBuild(env)
      PROVE  DeployInv'
  BY <1>1, OtherStepsKeepDeploy DEF DbtBuild, runVars
<1>2. ASSUME NEW p \in DOMAIN PHASES, StartDeploy(Operator, DbtTarget, p, "everything", FALSE)
      PROVE  DeployInv'
  BY <1>2, DeployStarts, DoctorAssumption
<1>3. ASSUME UNCHANGED <<platformVars, runVars>>
      PROVE  DeployInv'
  BY <1>3, OtherStepsKeepDeploy DEF platformVars, runVars
<1>4. CASE SetUp
  <2>1. CASE WorkOnSetup
    <3>1. CASE MakeDbtBuild
      BY <1>1, <1>3, <3>1, DoctorAssumption DEF MakeDbtBuild, deployVars
    <3>2. CASE MakeDeploySql
      BY <1>2, <3>2, PhasesAre DEF MakeDeploySql
    <3>3. CASE RunDoctor
      BY <1>3, <3>3 DEF RunDoctor, deployVars
    <3>4. CASE AskAgain
      BY <1>3, <3>4 DEF AskAgain
    <3>5. CASE \E i \in DOMAIN Checks : Repair(i)
      BY <1>3, <3>5 DEF Repair
    <3>. QED
      BY <2>1, <3>1, <3>2, <3>3, <3>4, <3>5 DEF WorkOnSetup
  <2>. QED
    BY <1>4, <2>1, ScriptStep, DoctorAssumption DEF SetUp
<1>5. CASE Operate
  <2>1. CASE \E d \in Deployer, env \in Target, go_on \in BOOLEAN,
                p \in DOMAIN PHASES \cup {"all"}, only \in {"everything", "20_streams_tasks"} :
               deploys < MaxDeploys /\ StartDeploy(d, env, p, only, go_on)
    BY <2>1, DeployStarts
  <2>2. CASE \E d \in Deployer : ApplyScripts(d)
    BY <2>2, ScriptStep
  <2>3. CASE (\E f \in File : PutFile(f)) \/ LoadFiles \/ DrainStream
    <3>1. UNCHANGED <<objects, running, runVars>>
      BY <2>3 DEF PutFile, LoadFiles, DrainStream
    <3>. QED
      BY <3>1, OtherStepsKeepDeploy DEF runVars
  <2>4. CASE \E env \in Target : DbtBuild(env)
    BY <1>1, <2>4
  <2>. QED
    BY <1>5, <2>1, <2>2, <2>3, <2>4 DEF Operate
<1>6. CASE WriteScript \/ UNCHANGED vars
  BY <1>3, <1>6 DEF WriteScript, vars, deployVars
<1>. QED
  BY <1>4, <1>5, <1>6 DEF Next

LEMMA DeployBegins == Init => DeployInv
<1>1. <<>> \in Seq(Statement)
  OBVIOUS
<1>2. NewRun \in Run /\ NewRun.pc = "idle"
  <2>. HIDE DEF Statement
  <2>. QED
    BY <1>1 DEF NewRun, Run
<1>. HIDE DEF NewRun, Run
<1>. QED
  BY <1>2 DEF Init, DeployInit, DeployInv, DeployType, WillMake, WillResume, SuspenderWorks

(* "deployed" is said of a phase only when every object of it exists, in   *)
(* whatever environment it was rendered: a run of the whole phase that has *)
(* not failed has each of them behind it or in what remains of its plan.   *)
THEOREM DeployedExists == Spec => []VouchedIsDeployed
<1>1. DeployInv /\ [Next]_vars => DeployInv'
  BY DeployStep
<1>2. DeployInv => VouchedIsDeployed
  <2>1. ASSUME NEW p, NEW d \in ToSet(PHASES[p]), NEW env \in Target, NEW s \in ToSet(Scripts[env][d])
        PROVE  s.object \in ObjectsOf(p)
    <3>. DEFINE made(e, x) == {u.object : u \in ToSet(Scripts[e][x])}
    <3>1. s.object \in made(env, d)
      OBVIOUS
    <3>2. ObjectsOf(p) = UNION {made(e, x) : x \in ToSet(PHASES[p]), e \in Target}
      BY DEF ObjectsOf
    <3>. HIDE DEF made
    <3>. QED
      BY <3>1, <3>2
  <2>. QED
    BY <2>1 DEF DeployInv, VouchedIsDeployed
<1>. QED
  BY DeployBegins, <1>1, <1>2, PTL DEF Spec

(* A task or alert that stands suspended was left so by a run that is still*)
(* at work or said that it failed, however runs overlap: a run that goes on*)
(* to the end without an error has resumed what it suspended.              *)
THEOREM SuspendedIsKnown == Spec => []SuspensionIsReported
<1>1. DeployInv /\ [Next]_vars => DeployInv'
  BY DeployStep
<1>2. DeployInv => SuspensionIsReported
  BY DEF DeployInv, SuspenderWorks, SuspensionIsReported
<1>. QED
  BY DeployBegins, <1>1, <1>2, PTL DEF Spec

-----------------------------------------------------------------------------
(* WHAT THE DOCTOR SAYS                                                    *)

(* The names of the checks in their order.                                 *)
LEMMA NamesAre ==
    /\ Checks[1].name = "python version"
    /\ Checks[2].name = "filesystem"
    /\ Checks[3].name = "virtualenv"
    /\ Checks[4].name = "python packages"
    /\ Checks[5].name = "dbt"
    /\ Checks[6].name = "optional tools"
    /\ Checks[7].name = ".env"
    /\ Checks[8].name = "dbt profile"
    /\ Checks[9].name = "dbt packages"
    /\ Checks[10].name = "data directories"
    /\ Checks[11].name = "credentials"
    /\ Checks[12].name = "account DNS"
    /\ Checks[13].name = "connection"
    /\ Checks[14].name = "warehouses"
    /\ Checks[15].name = "deployed objects"
    /\ Checks[16].name = "pipeline health"
BY DEF Checks, Check

(* What a check that does not succeed says.                                *)
LEMMA StatusesAre ==
    /\ Checks[1].status = "FAIL"
    /\ Checks[2].status = "FAIL"
    /\ Checks[3].status = "WARN"
    /\ Checks[4].status = "FAIL"
    /\ Checks[5].status = "FAIL"
    /\ Checks[6].status = "WARN"
    /\ Checks[7].status = "FAIL"
    /\ Checks[8].status = "FAIL"
    /\ Checks[9].status = "FAIL"
    /\ Checks[10].status = "FAIL"
    /\ Checks[11].status = "FAIL"
    /\ Checks[12].status = "FAIL"
    /\ Checks[13].status = "FAIL"
    /\ Checks[14].status = "FAIL"
    /\ Checks[15].status = "FAIL"
    /\ Checks[16].status = "WARN"
BY DEF Checks, Check

(* There are sixteen checks, and the first nine rest on nothing.           *)
LEMMA SixteenChecks == DOMAIN Checks = 1..16
BY DEF Checks

LEMMA RestsAre ==
    /\ Checks[1].on = {}
    /\ Checks[2].on = {}
    /\ Checks[3].on = {}
    /\ Checks[4].on = {}
    /\ Checks[5].on = {}
    /\ Checks[6].on = {}
    /\ Checks[7].on = {}
    /\ Checks[8].on = {}
    /\ Checks[9].on = {}
    /\ Checks[10].on = {"python packages"}
    /\ Checks[11].on = {"python packages", ".env"}
    /\ Checks[12].on = {"python packages", ".env"}
    /\ Checks[13].on = Snowflake
    /\ Checks[14].on = Snowflake \cup {"connection"}
    /\ Checks[15].on = Snowflake \cup {"connection", "warehouses"}
    /\ Checks[16].on = {}
BY DEF Checks, Check

(* The numbers of the gates and of what they block.                        *)
LEMMA NumberOf ==
    ASSUME NEW i \in 1..16
    PROVE  /\ Checks[i].name = "python version" <=> i = 1
           /\ Checks[i].name = "filesystem" <=> i = 2
           /\ Checks[i].name = "python packages" <=> i = 4
           /\ Checks[i].name = ".env" <=> i = 7
           /\ Checks[i].name = "credentials" <=> i = 11
           /\ Checks[i].name = "account DNS" <=> i = 12
           /\ Checks[i].name = "connection" <=> i = 13
           /\ Checks[i].name = "warehouses" <=> i = 14
           /\ Checks[i].name = "deployed objects" <=> i = 15
           /\ Checks[i].name = "pipeline health" <=> i = 16
<1>1. \/ i = 1 \/ i = 2 \/ i = 3 \/ i = 4 \/ i = 5 \/ i = 6 \/ i = 7 \/ i = 8
      \/ i = 9 \/ i = 10 \/ i = 11 \/ i = 12 \/ i = 13 \/ i = 14 \/ i = 15 \/ i = 16
  OBVIOUS
<1>2. CASE i = 1
  BY <1>2, NamesAre
<1>3. CASE i = 2
  BY <1>3, NamesAre
<1>4. CASE i = 3
  BY <1>4, NamesAre
<1>5. CASE i = 4
  BY <1>5, NamesAre
<1>6. CASE i = 5
  BY <1>6, NamesAre
<1>7. CASE i = 6
  BY <1>7, NamesAre
<1>8. CASE i = 7
  BY <1>8, NamesAre
<1>9. CASE i = 8
  BY <1>9, NamesAre
<1>10. CASE i = 9
  BY <1>10, NamesAre
<1>11. CASE i = 10
  BY <1>11, NamesAre
<1>12. CASE i = 11
  BY <1>12, NamesAre
<1>13. CASE i = 12
  BY <1>13, NamesAre
<1>14. CASE i = 13
  BY <1>14, NamesAre
<1>15. CASE i = 14
  BY <1>15, NamesAre
<1>16. CASE i = 15
  BY <1>16, NamesAre
<1>17. CASE i = 16
  BY <1>17, NamesAre
<1>. QED
  BY <1>1, <1>2, <1>3, <1>4, <1>5, <1>6, <1>7, <1>8, <1>9, <1>10, <1>11,
     <1>12, <1>13, <1>14, <1>15, <1>16, <1>17

(* What a check rests on are gates before it.                              *)
LEMMA RestsOn ==
    ASSUME NEW i \in 1..16, NEW g \in 1..16, Checks[g].name \in Checks[i].on
    PROVE  /\ g \in {4, 7, 11, 12, 13, 14} /\ g < i /\ i >= 10
           /\ g = 7 => i >= 11
           /\ g = 14 => i = 15
<1>1. i \in {1, 2, 3, 4, 5, 6, 7, 8, 9, 10, 11, 12, 13, 14, 15, 16}
  OBVIOUS
<1>2. i \notin {1, 2, 3, 4, 5, 6, 7, 8, 9, 16}
  <2>1. i \in {1, 2, 3, 4, 5, 6, 7, 8, 9, 16} => Checks[i].on = {}
    BY RestsAre
  <2>. QED
    BY <2>1
<1>3. CASE i = 10
  <2>1. g = 4
    BY <1>3, RestsAre, NumberOf
  <2>. QED
    BY <1>3, <2>1
<1>4. CASE i = 11 \/ i = 12
  <2>1. g \in {4, 7}
    BY <1>4, RestsAre, NumberOf
  <2>. QED
    BY <1>4, <2>1
<1>5. CASE i = 13
  <2>1. Checks[g].name \in Snowflake
    BY <1>5, RestsAre
  <2>2. g \in {4, 7, 11, 12}
    BY <2>1, NumberOf DEF Snowflake
  <2>. QED
    BY <1>5, <2>2
<1>6. CASE i = 14
  <2>1. Checks[g].name \in Snowflake \cup {"connection"}
    BY <1>6, RestsAre
  <2>2. g \in {4, 7, 11, 12, 13}
    BY <2>1, NumberOf DEF Snowflake
  <2>. QED
    BY <1>6, <2>2
<1>7. CASE i = 15
  <2>1. Checks[g].name \in Snowflake \cup {"connection", "warehouses"}
    BY <1>7, RestsAre
  <2>2. g \in {4, 7, 11, 12, 13, 14}
    BY <2>1, NumberOf DEF Snowflake
  <2>. QED
    BY <1>7, <2>2
<1>. QED
  BY <1>1, <1>2, <1>3, <1>4, <1>5, <1>6, <1>7

(* A gate that fails blocks what rests on it; only the warehouses do not   *)
(* block the deployed objects.                                             *)
LEMMA RestsOnGates ==
    ASSUME NEW i \in 1..16, NEW g \in 1..16, Checks[g].name \in Checks[i].on
    PROVE  /\ g < i /\ Checks[g].status = "FAIL" /\ Checks[g].name # "pipeline health"
           /\ \/ \E k \in 1..i : <<Checks[g].name, Checks[k].name>> \in BlocksFrom
              \/ i = 15 /\ g = 14
<1>1. g \in {4, 7, 11, 12, 13, 14} /\ g < i /\ i >= 10
      /\ (g = 7 => i >= 11) /\ (g = 14 => i = 15)
  BY RestsOn
<1>5. Checks[g].status = "FAIL" /\ Checks[g].name # "pipeline health"
  <2>1. Checks[g].status = "FAIL"
    BY <1>1, StatusesAre
  <2>2. Checks[g].name # "pipeline health"
    BY <1>1, NumberOf
  <2>. QED
    BY <2>1, <2>2
<1>6. g # 14 => \E k \in 1..i : <<Checks[g].name, Checks[k].name>> \in BlocksFrom
  <2>1. CASE g = 4
    <3>1. 7 \in 1..i
      BY <1>1, <2>1
    <3>2. Checks[4].name = "python packages" /\ Checks[7].name = ".env"
      BY NamesAre
    <3>. QED
      BY <2>1, <3>1, <3>2 DEF BlocksFrom
  <2>2. CASE g = 7
    <3>1. 11 \in 1..i
      BY <1>1, <2>2
    <3>2. Checks[7].name = ".env" /\ Checks[11].name = "credentials"
      BY NamesAre
    <3>. QED
      BY <2>2, <3>1, <3>2 DEF BlocksFrom
  <2>3. CASE g = 11
    <3>1. 12 \in 1..i
      BY <1>1, <2>3
    <3>2. Checks[11].name = "credentials" /\ Checks[12].name = "account DNS"
      BY NamesAre
    <3>. QED
      BY <2>3, <3>1, <3>2 DEF BlocksFrom
  <2>4. CASE g = 12
    <3>1. 13 \in 1..i
      BY <1>1, <2>4
    <3>2. Checks[12].name = "account DNS" /\ Checks[13].name = "connection"
      BY NamesAre
    <3>. QED
      BY <2>4, <3>1, <3>2 DEF BlocksFrom
  <2>5. CASE g = 13
    <3>1. 14 \in 1..i
      BY <1>1, <2>5
    <3>2. Checks[13].name = "connection" /\ Checks[14].name = "warehouses"
      BY NamesAre
    <3>. QED
      BY <2>5, <3>1, <3>2 DEF BlocksFrom
  <2>. QED
    BY <1>1, <2>1, <2>2, <2>3, <2>4, <2>5
<1>. QED
  BY <1>1, <1>5, <1>6

(* A fault in what a check examines makes it fail, unless it only warns.   *)
LEMMA FaultFails ==
    ASSUME NEW i \in DOMAIN Checks, Checks[i].name # "pipeline health",
           broken \cap Checks[i].own # {}, Checks[i].status = "FAIL"
    PROVE  Examine(i) = "FAIL"
BY DEF Examine, Causes

LEMMA GateBlocks ==
    ASSUME NEW i \in 1..16, NEW g \in 1..i, NEW k \in 1..i,
           <<Checks[g].name, Checks[k].name>> \in BlocksFrom, Examine(g) = "FAIL"
    PROVE  IsBlocked(i)
BY DEF IsBlocked

(* Whatever is broken and whatever exists, a check fails on account of a   *)
(* fault that it is there to find.                                         *)
LEMMA FailuresGenuine == FailuresAreGenuine
<1>. SUFFICES ASSUME NEW i \in 1..16, Report[i] = "FAIL", broken \cap Checks[i].own = {}
              PROVE  Checks[i].name = "deployed objects"
                       /\ ("raw_tables" \notin objects \/ "no usage" \in broken)
  BY SixteenChecks DEF FailuresAreGenuine, FailuresIn, Report
<1>1. ~IsBlocked(i) /\ Examine(i) = "FAIL"
  BY SixteenChecks DEF Report
<1>2. Checks[i].name # "pipeline health"
  BY <1>1 DEF Examine, HealthStatus
<1>3. CASE broken \cap OwnOf(Checks[i].on) # {}
  <2>1. PICK g \in 1..16 : Checks[g].name \in Checks[i].on /\ broken \cap Checks[g].own # {}
    BY <1>3, SixteenChecks DEF OwnOf
  <2>2. Examine(g) = "FAIL"
    BY <2>1, RestsOnGates, FaultFails, SixteenChecks
  <2>3. i = 15 /\ g = 14
    <3>0. g < i
      BY <2>1, RestsOnGates
    <3>1. g \in 1..i
      BY <3>0
    <3>. QED
      BY <1>1, <2>1, <2>2, <3>1, RestsOnGates, GateBlocks
  <2>4. Checks[14].own = {"no usage"} /\ Checks[15].name = "deployed objects"
    BY DEF Checks, Check
  <2>. QED
    BY <2>1, <2>3, <2>4
<1>4. CASE broken \cap OwnOf(Checks[i].on) = {}
  <2>1. broken \cap Causes[i] = {}
    BY <1>4, SixteenChecks DEF Causes
  <2>2. Checks[i].name = "deployed objects" /\ ObjectsStatus = "FAIL"
    BY <1>1, <1>2, <2>1 DEF Examine
  <2>. QED
    BY <2>2 DEF ObjectsStatus, Missing
<1>. QED
  BY <1>3, <1>4

(* A check that fails has a fault of its own to show for it, whatever is   *)
(* broken: what merely rests on a broken subject is skipped.               *)
THEOREM DoctorFailuresGenuine == Spec => []FailuresAreGenuine
BY FailuresGenuine, PTL
=============================================================================
