---------------------------- MODULE ImportingProofs ----------------------------
(* Handlers that import call by call do what handlers that import in one    *)
(* step do, so that everything proved of those holds of these.              *)
EXTENDS ImportingJobs, AddressProofs

LoopTypes ==
    loop \in [Jobs -> [conflicts : 0..(MaxTries - 1),
                       request : KubeObject \cup {Absent}, fresh : BOOLEAN]]

InLoop(j) == loop[j] # NoLoop => \E k \in CoreDns : Importing(j, k)

LoopInv == LoopTypes /\ \A j \in Jobs : InLoop(j) /\ FreshCopy(j)

\* A job imports one object at a time.
LEMMA ImportsOne ==
    ASSUME NEW j \in Jobs, NEW k \in CoreDns, NEW l \in CoreDns,
           Importing(j, k), Importing(j, l)
    PROVE  k = l
<1>1. \A o \in CoreDns : Rank(job[j].op, Step("import", o)) = 60 + Position[o]
  BY DEF Rank, Step, Phase
<1>2. Position[k] <= Position[l] /\ Position[l] <= Position[k]
  <2>1. /\ Rank(job[j].op, Step("import", k)) <= Rank(job[j].op, Step("import", l))
        /\ Rank(job[j].op, Step("import", l)) <= Rank(job[j].op, Step("import", k))
    BY DEF Importing, IsNext
  <2>2. Position[k] \in Nat /\ Position[l] \in Nat
    BY DEF Position, CoreDns
  <2>3. QED
    BY <1>1, <2>1, <2>2
<1>3. QED
  BY <1>2 DEF Position, CoreDns

-----------------------------------------------------------------------------
(* Every step of the loop is a step of the handlers or none of theirs.     *)

\* The one step of the loop that writes relabels the object as it is now.
LEMMA UpdateImports ==
    ASSUME LoopInv, NEW j \in Jobs, NEW k \in CoreDns, UpdateApplied(j, k)
    PROVE  ImportCoreDns(j, k)
<1>1. Importing(j, k)
  BY DEF UpdateApplied, Write, Importing
<1>2. PICK l \in CoreDns : Importing(j, l) /\ loop[j].request = HelmPatch(cluster[l])
  BY DEF UpdateApplied, LoopInv, FreshCopy
<1>3. loop[j].request = HelmPatch(cluster[k])
  BY <1>1, <1>2, ImportsOne
<1>4. QED
  BY <1>3 DEF UpdateApplied, ImportCoreDns, Importable

\* So does finding nothing left to relabel.
LEMMA ImportedImports ==
    ASSUME NEW j \in Jobs, NEW k \in CoreDns, GetImported(j, k)
    PROVE  ImportCoreDns(j, k)
BY DEF GetImported, ImportCoreDns, Importable

\* What is not a step of the handlers leaves everything of theirs alone.
LEMMA LoopStepsAreHandlerSteps == LoopInv /\ [LoopNext]_loopVars => [Next]_vars
<1> SUFFICES ASSUME LoopInv, [LoopNext]_loopVars PROVE [Next]_vars
  OBVIOUS
<1>1. CASE OtherWriter
  BY <1>1 DEF OtherWriter, Next
<1>2. ASSUME NEW j \in Jobs, NEW k \in CoreDns,
             Get(j, k) \/ GetImported(j, k) \/ UpdateApplied(j, k)
               \/ UpdateConflict(j, k) \/ ImportFails(j, k)
      PROVE  UNCHANGED vars \/ JobNext(j)
  <2>1. CASE Get(j, k) \/ UpdateConflict(j, k)
    BY <2>1 DEF Get, UpdateConflict
  <2>2. CASE GetImported(j, k) \/ UpdateApplied(j, k)
    BY <2>2, ImportedImports, UpdateImports DEF JobNext, Call
  <2>3. CASE ImportFails(j, k)
    BY <2>3 DEF ImportFails, JobNext
  <2>4. QED
    BY <1>2, <2>1, <2>2, <2>3
<1>3. ASSUME NEW j \in Jobs, Start(j) \/ Progress(j) \/ Unavailable(j)
      PROVE  UNCHANGED vars \/ JobNext(j)
  <2>1. CASE LoopStep(j)
    BY <1>2, <2>1 DEF LoopStep
  <2>2. CASE OtherCall(j) \/ Return(j) \/ Start(j) \/ Unavailable(j)
    BY <2>2 DEF OtherCall, Return, Start, Unavailable, JobNext
  <2>3. QED
    BY <1>3, <2>1, <2>2 DEF Progress
<1>4. CASE UNCHANGED loopVars
  BY <1>4 DEF loopVars
<1>5. QED
  BY <1>1, <1>3, <1>4 DEF LoopNext, Next

-----------------------------------------------------------------------------
(* The loop keeps its invariant.                                           *)

\* A copy of a job that does not move stays what it was, or becomes stale.
StaysOrStale(i) == loop'[i] = [loop[i] EXCEPT !.fresh = AsFound(i)]

\* So the invariant holds of it still.
LEMMA StandingKeepsLoopInv ==
    ASSUME LoopInv, NEW i \in Jobs, job'[i] = job[i], StaysOrStale(i)
    PROVE  InLoop(i)' /\ FreshCopy(i)'
<1>1. loop[i] \in [conflicts : 0..(MaxTries - 1),
                   request : KubeObject \cup {Absent}, fresh : BOOLEAN]
  BY DEF LoopInv, LoopTypes
<1>2. \A k \in CoreDns : Importing(i, k)' <=> Importing(i, k)
  BY DEF Importing, IsNext
<1>3. loop[i] = NoLoop => loop'[i] = NoLoop
  <2> SUFFICES ASSUME loop[i] = NoLoop PROVE loop'[i] = NoLoop
    OBVIOUS
  <2>1. AsFound(i) = FALSE
    BY DEF AsFound, NoLoop
  <2>2. loop'[i] = [NoLoop EXCEPT !.fresh = FALSE]
    BY <2>1 DEF StaysOrStale
  <2>3. QED
    BY <2>2 DEF NoLoop
<1>4. InLoop(i)'
  BY <1>2, <1>3 DEF InLoop, LoopInv
<1>5. /\ loop'[i].request = loop[i].request
      /\ loop'[i].fresh =>
            loop[i].fresh /\ \A k \in CoreDns : Importing(i, k) => cluster'[k] = cluster[k]
  <2>1. loop'[i].request = loop[i].request /\ loop'[i].fresh = AsFound(i)
    BY <1>1 DEF StaysOrStale
  <2>2. QED
    BY <2>1, Zenon DEF AsFound
<1>6. FreshCopy(i)'
  <2> SUFFICES ASSUME loop'[i].fresh
               PROVE  \E k \in CoreDns : /\ Importing(i, k)' /\ cluster'[k] # Absent
                                        /\ loop'[i].request = HelmPatch(cluster'[k])
    BY DEF FreshCopy
  <2>1. PICK k \in CoreDns : /\ Importing(i, k) /\ cluster[k] # Absent
                            /\ loop[i].request = HelmPatch(cluster[k])
    BY <1>5 DEF FreshCopy, LoopInv
  <2>2. cluster'[k] = cluster[k]
    BY <1>5, <2>1
  <2>3. /\ Importing(i, k)' /\ cluster'[k] # Absent
        /\ loop'[i].request = HelmPatch(cluster'[k])
    BY <1>2, <1>5, <2>1, <2>2
  <2>4. QED
    BY <2>3
<1>7. QED
  BY <1>4, <1>6

\* Leaving the loop keeps the invariant, if only the job itself moved.
LEMMA LeaveKeepsLoopInv ==
    ASSUME LoopInv, NEW j \in Jobs, Leave(j), \A i \in Jobs \ {j} : job'[i] = job[i]
    PROVE  LoopInv'
<1>1. \A i \in Jobs : loop[i] \in [conflicts : 0..(MaxTries - 1),
                                   request : KubeObject \cup {Absent}, fresh : BOOLEAN]
  BY DEF LoopInv, LoopTypes
<1>2. NoLoop \in [conflicts : 0..(MaxTries - 1),
                  request : KubeObject \cup {Absent}, fresh : BOOLEAN]
  BY TriesAssumption DEF NoLoop
<1>3. LoopTypes'
  BY <1>1, <1>2 DEF Leave, AsFound, LoopTypes
<1>4. InLoop(j)' /\ FreshCopy(j)'
  BY DEF Leave, InLoop, FreshCopy, NoLoop
<1>5. ASSUME NEW i \in Jobs \ {j} PROVE InLoop(i)' /\ FreshCopy(i)'
  <2>1. StaysOrStale(i)
    BY DEF Leave, StaysOrStale
  <2>2. QED
    BY <2>1, StandingKeepsLoopInv
<1>6. QED
  BY <1>3, <1>4, <1>5 DEF LoopInv

\* The copies, the versions and the conflicts of the loops are as they should be.
THEOREM LoopInvariant == LoopSpec => []LoopInv
<1>1. LoopInit => LoopInv
  BY TriesAssumption DEF LoopInit, LoopInv, LoopTypes, InLoop, FreshCopy, NoLoop
<1>2. TypeOK /\ LoopInv /\ [LoopNext]_loopVars => LoopInv'
  <2> SUFFICES ASSUME TypeOK, LoopInv, [LoopNext]_loopVars PROVE LoopInv'
    OBVIOUS
  <2>1. CASE OtherWriter
    <3>1. \A i \in Jobs : StaysOrStale(i) /\ job'[i] = job[i]
      BY <2>1 DEF OtherWriter, Drift, StaysOrStale
    <3>2. LoopTypes'
      BY <2>1 DEF OtherWriter, AsFound, LoopInv, LoopTypes
    <3>3. QED
      BY <3>1, <3>2, StandingKeepsLoopInv DEF LoopInv
  <2>2. ASSUME NEW j \in Jobs, NEW k \in CoreDns, Get(j, k) PROVE LoopInv'
    <3>1. HelmPatch(cluster[k]) \in KubeObject
      BY <2>2, ClientTypes DEF Get, TypeOK, Clusters, Objects
    <3>2. LoopTypes'
      BY <2>2, <3>1 DEF Get, LoopInv, LoopTypes
    <3>3. \A i \in Jobs : InLoop(i)' /\ FreshCopy(i)'
      BY <2>2 DEF Get, LoopInv, LoopTypes, InLoop, FreshCopy, Importing, IsNext, vars
    <3>4. QED
      BY <3>2, <3>3 DEF LoopInv
  <2>3. ASSUME NEW j \in Jobs, NEW k \in CoreDns, UpdateConflict(j, k) PROVE LoopInv'
    <3>1. loop[j].conflicts + 1 \in 0..(MaxTries - 1)
      BY <2>3, TriesAssumption DEF UpdateConflict, MayRetry, LoopInv, LoopTypes
    <3>2. LoopTypes'
      BY <2>3, <3>1 DEF UpdateConflict, LoopInv, LoopTypes, NoLoop
    <3>3. \A i \in Jobs : InLoop(i)' /\ FreshCopy(i)'
      BY <2>3
      DEF UpdateConflict, LoopInv, LoopTypes, InLoop, FreshCopy, Importing, IsNext, vars, NoLoop
    <3>4. QED
      BY <3>2, <3>3 DEF LoopInv
  <2>4. ASSUME NEW j \in Jobs, Leave(j), JobNext(j) PROVE LoopInv'
    BY <2>4, OtherRunsStay, LeaveKeepsLoopInv
  <2>5. ASSUME NEW j \in Jobs, NEW k \in CoreDns,
               GetImported(j, k) \/ UpdateApplied(j, k) \/ ImportFails(j, k)
        PROVE  Leave(j) /\ JobNext(j)
    BY <2>5, ImportedImports, UpdateImports
    DEF GetImported, UpdateApplied, ImportFails, JobNext, Call
  <2>6. ASSUME NEW j \in Jobs, OtherCall(j) \/ Return(j) \/ Start(j) \/ Unavailable(j)
        PROVE  Leave(j) /\ JobNext(j)
    BY <2>6 DEF OtherCall, Return, Start, Unavailable, JobNext
  <2>7. CASE UNCHANGED loopVars
    BY <2>7
    DEF loopVars, vars, LoopInv, LoopTypes, InLoop, FreshCopy, Importing, IsNext
  <2>8. QED
    BY <2>1, <2>2, <2>3, <2>4, <2>5, <2>6, <2>7 DEF LoopNext, Progress, LoopStep
<1>3. TypeOK /\ [Next]_vars => TypeOK'
  BY TypeStep
<1>4. LoopInit => TypeOK
  BY TypeInit DEF LoopInit
<1>5. TypeOK /\ LoopInv /\ [LoopNext]_loopVars => TypeOK' /\ LoopInv'
  BY <1>2, <1>3, LoopStepsAreHandlerSteps
<1>6. QED
  BY <1>1, <1>4, <1>5, PTL DEF LoopSpec

\* Importing call by call implements importing in one step.
THEOREM LoopsImplementJobs == LoopSpec => ImplementsJobs
<1>1. LoopInit => Init
  BY DEF LoopInit
<1>2. QED
  BY <1>1, LoopInvariant, LoopStepsAreHandlerSteps, PTL DEF LoopSpec, ImplementsJobs

\* The type invariant of handlers that import call by call.
THEOREM LoopTypeCorrect == LoopSpec => []LoopTypeOK
<1>1. TypeOK /\ LoopInv => LoopTypeOK
  BY DEF LoopInv, LoopTypes, InLoop, LoopTypeOK
<1>2. LoopSpec => Spec
  BY LoopsImplementJobs, PTL DEF ImplementsJobs, Spec
<1>3. QED
  BY <1>1, <1>2, LoopInvariant, TypeCorrect, PTL

-----------------------------------------------------------------------------
(* What is proved of handlers that import in one step holds of these.      *)

\* Handlers that import call by call behave as JobResource specifies.
THEOREM LoopHandlersAsSpecified == LoopSpec => Spec
BY LoopsImplementJobs, PTL DEF ImplementsJobs, Spec

\* A job of any number that reports success has left nothing undone, also when
\* it had to import its objects against the writes of others.
THEOREM CleanSuccessWithLoops == LoopSpec => SuccessMeansCleaned
BY LoopHandlersAsSpecified, CleanSuccess, PTL

\* What it records is true and what it was told to.
THEOREM RecordsWithLoops ==
    LoopSpec => StateIsHonest /\ PlanIsKept /\ RefreshIsStable
BY LoopHandlersAsSpecified, HonestState, PlanKept, StableRefresh, PTL

\* Among jobs alone on a cluster every success leaves nothing undone.
THEOREM CleanTogetherWithLoops ==
    ASSUME Drifts = {} PROVE LoopSpec => JobsTogetherClean
<1>1. Spec => JobsTogetherClean
  BY CleanTogether
<1>2. QED
  BY <1>1, LoopHandlersAsSpecified, PTL

\* No job takes away what is not Amazon's while no objects are handed over.
THEOREM OnlyAmazonRemovedWithLoops ==
    ASSUME NoHandover PROVE LoopSpec => OnlyAmazonCoreDnsRemoved
<1>1. Spec => OnlyAmazonCoreDnsRemoved
  BY OnlyAmazonRemoved
<1>2. QED
  BY <1>1, LoopHandlersAsSpecified, PTL

\* The addresses recorded are those of Amazon's service, though it is taken away.
THEOREM AddressesWithLoops ==
    ASSUME KubernetesAnswers PROVE LoopSpec => AddressesOutliveService
<1>1. Spec => AddressesOutliveService
  BY AddressesOutlive
<1>2. QED
  BY <1>1, LoopHandlersAsSpecified, PTL

-----------------------------------------------------------------------------
(* Handlers come to an end.                                                *)

Shrinks(j) == job'[j].todo \subseteq job[j].todo /\ job'[j].todo # job[j].todo

\* Every call takes itself off the list, or ends the run.
LEMMA CallShrinks ==
    ASSUME TypeOK, NEW j \in Jobs, Call(j) PROVE job'[j].op = "none" \/ Shrinks(j)
<1>1. ASSUME NEW s, NEW skip, NEW ips, NEW exists, NEW marks,
             Sees(j, s, skip, ips, exists, marks)
      PROVE  Shrinks(j)
  BY <1>1 DEF Sees, IsNext, Shrinks
<1>2. ASSUME NEW s, NEW o, Writes(j, s, o) PROVE job'[j].op = "none" \/ Shrinks(j)
  BY <1>2 DEF Writes, IsNext, Shrinks, Idle
<1>3. QED
  BY <1>1, <1>2, CallEffects
  DEF ProbeEffect, WriteEffect, ExistsEffect, CheckEffect, IsAwsEffect, ImportedEffect

\* The part of the loop a job is in is a number.
LEMMA LoopLeftType ==
    ASSUME LoopTypes, NEW j \in Jobs
    PROVE  /\ MaxTries \in Nat \ {0} /\ loop[j].conflicts \in 0..(MaxTries - 1)
           /\ LoopLeft(j) \in 1..(2 * MaxTries)
BY TriesAssumption DEF LoopTypes, LoopLeft

\* What others do to a loop makes its copy stale and nothing else.
LEMMA OthersKeepLoopLeft ==
    ASSUME LoopTypes, NEW j \in Jobs, loop'[j] = loop[j] \/ StaysOrStale(j)
    PROVE  LoopLeft(j)' = LoopLeft(j)
<1>1. loop'[j].conflicts = loop[j].conflicts /\ loop'[j].request = loop[j].request
  BY DEF LoopTypes, StaysOrStale
<1>2. QED
  BY <1>1 DEF LoopLeft

\* A handler of any number of jobs goes on only by using up what it has ahead of it,
\* of which nobody gives it more.
THEOREM HandlersComeToAnEnd == LoopSpec => HandlersAdvance
<1>1. TypeOK /\ LoopInv /\ [LoopNext]_loopVars =>
        [\A j \in Jobs :
            job[j].op # "none" =>
               \/ job'[j].op = "none"
               \/ job'[j].todo \subseteq job[j].todo /\ job'[j].todo # job[j].todo
               \/ /\ job'[j] = job[j] /\ LoopLeft(j)' <= LoopLeft(j)
                  /\ Progress(j) => LoopLeft(j)' < LoopLeft(j)]_loopVars
  <2> SUFFICES ASSUME TypeOK, LoopInv, LoopNext, NEW j \in Jobs,
                      job[j].op # "none", job'[j].op # "none", ~Shrinks(j)
               PROVE  /\ job'[j] = job[j] /\ LoopLeft(j)' <= LoopLeft(j)
                      /\ Progress(j) => LoopLeft(j)' < LoopLeft(j)
    BY DEF Shrinks
  <2>1. /\ LoopTypes /\ LoopLeft(j) \in Nat /\ MaxTries \in Nat
        /\ loop[j].conflicts \in 0..(MaxTries - 1)
    BY LoopLeftType DEF LoopInv
  <2>2. ASSUME NEW k \in CoreDns, Get(j, k)
        PROVE  job'[j] = job[j] /\ LoopLeft(j)' < LoopLeft(j) /\ LoopLeft(j)' <= LoopLeft(j)
    <3>1. HelmPatch(cluster[k]) \in KubeObject
      BY <2>2, ClientTypes DEF Get, TypeOK, Clusters, Objects
    <3>2. /\ loop[j].request = Absent /\ loop'[j].request # Absent
          /\ loop'[j].conflicts = loop[j].conflicts
      <4>1. loop'[j] = [loop[j] EXCEPT !.request = HelmPatch(cluster[k]), !.fresh = TRUE]
        BY <2>1, <2>2 DEF Get, LoopTypes
      <4>2. QED
        BY <2>1, <2>2, <3>1, <4>1, AbsentAssumption DEF Get, LoopTypes
    <3>3. QED
      BY <2>1, <2>2, <3>2 DEF Get, vars, LoopLeft
  <2>3. ASSUME NEW k \in CoreDns, UpdateConflict(j, k)
        PROVE  job'[j] = job[j] /\ LoopLeft(j)' < LoopLeft(j) /\ LoopLeft(j)' <= LoopLeft(j)
    <3>1. /\ loop[j].request # Absent /\ loop'[j].request = Absent
          /\ loop'[j].conflicts = loop[j].conflicts + 1
      BY <2>1, <2>3 DEF UpdateConflict, LoopTypes, NoLoop
    <3>2. QED
      BY <2>1, <2>3, <3>1 DEF UpdateConflict, vars, LoopLeft
  <2>4. ASSUME NEW k \in CoreDns,
               GetImported(j, k) \/ UpdateApplied(j, k) \/ ImportFails(j, k)
        PROVE  FALSE
    <3>1. ~ApiError(j)
      BY DEF ApiError, Finish, Idle, TypeOK
    <3>2. Call(j)
      BY <2>4, <3>1, ImportedImports, UpdateImports DEF ImportFails, Call
    <3>3. QED
      BY <3>2, CallShrinks
  <2>5. ~OtherCall(j) /\ ~Return(j) /\ ~Unavailable(j) /\ ~Start(j)
    <3>1. ~OtherCall(j)
      BY CallShrinks DEF OtherCall
    <3>2. ~Return(j) /\ ~Unavailable(j)
      BY DEF Return, Unavailable, StoreState, ApiError, Finish, Idle, TypeOK
    <3>3. ~Start(j)
      BY DEF Start, BeginCreate, BeginUpdate, BeginRead, ImportState, Begin, Delete
    <3>4. QED
      BY <3>1, <3>2, <3>3
  <2>6. CASE Progress(j)
    BY <2>2, <2>3, <2>4, <2>5, <2>6 DEF Progress, LoopStep
  <2>7. CASE OtherWriter
    <3>1. job'[j] = job[j] /\ StaysOrStale(j)
      BY <2>7 DEF OtherWriter, Drift, StaysOrStale
    <3>2. QED
      BY <2>1, <2>5, <2>6, <3>1, OthersKeepLoopLeft
  <2>8. ASSUME NEW i \in Jobs \ {j}, Start(i) \/ Progress(i) \/ Unavailable(i)
        PROVE  /\ job'[j] = job[j] /\ LoopLeft(j)' <= LoopLeft(j)
               /\ Progress(j) => LoopLeft(j)' < LoopLeft(j)
    <3>1. loop'[j] = loop[j] \/ StaysOrStale(j)
      BY <2>8
      DEF Start, Progress, Unavailable, LoopStep, OtherCall, Return, Get, GetImported,
          UpdateApplied, UpdateConflict, ImportFails, Leave, StaysOrStale, LoopInv, LoopTypes
    <3>2. JobNext(i) \/ UNCHANGED vars
      BY <2>8, ImportedImports, UpdateImports
      DEF Start, Progress, Unavailable, LoopStep, OtherCall, Return, Get, GetImported,
          UpdateApplied, UpdateConflict, ImportFails, JobNext, Call
    <3>3. job'[j] = job[j]
      BY <3>2, OtherRunsStay DEF vars
    <3>4. QED
      BY <2>1, <2>6, <3>1, <3>3, OthersKeepLoopLeft
  <2>9. QED
    BY <2>5, <2>6, <2>7, <2>8 DEF LoopNext
<1>2. LoopSpec => []TypeOK
  BY LoopsImplementJobs, TypeCorrect, PTL DEF ImplementsJobs, Spec
<1>3. QED
  BY <1>1, <1>2, LoopInvariant, PTL DEF LoopSpec, HandlersAdvance
===============================================================================
