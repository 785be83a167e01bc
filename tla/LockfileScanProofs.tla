------------------------- MODULE LockfileScanProofs -------------------------
(***************************************************************************)
(* The safety properties of the lock file scan, for files of any length,   *)
(* any other calls beside them, and every answer of the tiers and the      *)
(* cache.  The scan calls the pipeline, so that the invariant of           *)
(* PipelineProofs holds under it; on top of that one stands which call of  *)
(* the file each entry comes from.                                         *)
(***************************************************************************)
EXTENDS LockfileScan, PipelineProofs

-----------------------------------------------------------------------------
(* The inductive invariant.                                                *)

ScanTypeOK ==
  /\ pass \in {"first", "second", "answered", "dropped"}
  /\ at \in 1..(NumRefs + 1)
  /\ entries \in [Refs -> Result \cup {NoResult}]

(* Both calls of a reference are about its package.                        *)
SamePackage == \A i \in Refs : pkg[First[i]] = pkg[Second[i]]

(* The passes that have been over reference i.                             *)
Filled(i) == pass \in {"second", "answered"} \/ i < at

(* An entry is what one of the two calls of its reference answered.        *)
Entered(i) ==
  \E c \in {First[i], Second[i]} : pc[c] = "done" /\ entries[i] = result[c]

(* The second pass begins when the first has its answers.                  *)
FirstDone(i) == Filled(i) => pc[First[i]] = "done"

LockInv ==
  /\ IInv /\ ScanTypeOK /\ SamePackage
  /\ \A i \in Refs : Filled(i) => Entered(i)
  /\ \A i \in Refs : FirstDone(i)

-----------------------------------------------------------------------------
(* The pipeline below the scan.                                            *)

(* A step of the scan is one of the pipeline, but for the deadline, which  *)
(* is the same for all of its calls.                                       *)
LEMMA LockStepIsPipelineStep ==
  ASSUME ScanTypeOK, [LockNext]_lockVars, ~Expire
  PROVE  [Next]_vars
<1>1. \A i \in Refs : First[i] \in Call /\ Second[i] \in Call
  BY CallsAssumption DEF Refs
<1>2. CASE FirstCall \/ SecondCall
  <2>1. at \in Refs
    BY <1>2, CallsAssumption DEF FirstCall, SecondCall, In, ScanTypeOK, Refs
  <2> QED BY <1>1, <1>2, <2>1 DEF FirstCall, SecondCall, Next
<1>3. CASE FirstResult \/ SecondPass \/ Skip \/ SecondResult \/ AnswerScan
  BY <1>3 DEF FirstResult, SecondPass, Skip, SecondResult, AnswerScan
<1>4. CASE OtherCall \/ PipelineStep \/ Surroundings \/ ServerRestart
  BY <1>4 DEF OtherCall, PipelineStep, Surroundings, ServerRestart, Next
<1> QED BY <1>2, <1>3, <1>4 DEF LockNext, lockVars

(* The expiry of the request is the deadline of each of its calls that is  *)
(* not over: it takes nothing from what is known of them.                  *)
LEMMA ExpireKeepsPipeline ==
  ASSUME IInv, Expire
  PROVE  IInv' /\ UNCHANGED <<storeVars, process, pc, pkg, tarball, findings,
                              claudeNeeded, result, source>>
<1>1. UNCHANGED <<storeVars, process, pc, pkg, tarball, findings, claudeNeeded,
                  result, source>>
  BY DEF Expire
<1>2. failed' \in [Call -> SUBSET FaultPoint]
  BY DEF Expire, IInv, TypeOK, FaultPoint
<1>3. TypeOK' /\ StoreInv' /\ mode' \in Modes
  BY <1>1, <1>2, StoreUnchanged DEF IInv, TypeOK, process
<1>4. ASSUME NEW c \in Call
      PROVE  /\ failed[c] \subseteq failed'[c]
             /\ failed'[c] \subseteq failed[c] \cup {"deadline"}
             /\ pc[c] = "done" => failed'[c] = failed[c]
  BY DEF Expire, IInv, TypeOK, Running
<1>5. ASSUME NEW c \in Call PROVE Local(c)'
  <2>1. Local(c)
    BY DEF IInv
  <2>2. Built(c)'
    BY <1>1, <1>4, <2>1 DEF Local, Built, Scanned
  <2>3. ASSUME NEW l \in inForce[c], Looked(c, l) PROVE Looked(c, l)'
    BY <1>1, <1>4, <2>3 DEF Looked, Said, TierFindings, ClaudeTriggered, AfterClaude,
      Scanned
  <2>4. Tiers(c)'
    BY <1>1, <1>4, <2>1, <2>3 DEF Local, Tiers, BeforeBadlist, AfterBadlist,
      AfterCVE, AfterHeuristic, AfterClaude, Scanned, process
  <2> QED BY <2>2, <2>4 DEF Local
<1>6. OnlyFinishedScansPersisted'
  <2>1. \A r \in saved : r.id \in Call
    BY DEF IInv, TypeOK, StoreTypeOK, Result, Call
  <2> QED BY <1>1, <1>4, <2>1 DEF IInv, OnlyFinishedScansPersisted, storeVars
<1>7. CachedAnswerIsAScan'
  BY <1>1 DEF IInv, CachedAnswerIsAScan
<1> QED BY <1>1, <1>3, <1>5, <1>6, <1>7 DEF IInv

(* Whatever step is taken, the pipeline's invariant stands, and an answered*)
(* call stays as it is.                                                    *)
LEMMA PipelineBelow ==
  ASSUME LockInv, [LockNext]_lockVars
  PROVE  /\ IInv' /\ pkg' = pkg /\ tarball' = tarball
         /\ \A c \in Call : pc[c] = "done" =>
              pc'[c] = "done" /\ result'[c] = result[c] /\ source'[c] = source[c]
<1>1. CASE Expire
  BY <1>1, ExpireKeepsPipeline DEF LockInv
<1>2. CASE ~Expire
  <2>1. [Next]_vars
    BY <1>2, LockStepIsPipelineStep DEF LockInv
  <2> QED BY <2>1, InvStep, CallsAreFixed, AnswerIsFinal DEF LockInv
<1> QED BY <1>1, <1>2

-----------------------------------------------------------------------------
(* The steps.                                                              *)

(* The variables of the scan keep their types.                             *)
LEMMA ScanTypeStep ==
  ASSUME LockInv, [LockNext]_lockVars
  PROVE  ScanTypeOK'
<1> USE CallsAssumption DEF LockInv, ScanTypeOK, Refs
<1>1. CASE FirstResult \/ SecondResult
  <2>1. at \in Refs /\ First[at] \in Call /\ Second[at] \in Call
    BY <1>1 DEF FirstResult, SecondResult, In
  <2>2. \A c \in {First[at], Second[at]} : pc[c] = "done" => result[c] \in Result
    BY <2>1 DEF IInv, Local, Built
  <2>3. entries' \in [Refs -> Result \cup {NoResult}]
    BY <1>1, <2>1, <2>2 DEF FirstResult, SecondResult
  <2>4. pass' = pass /\ at' \in 1..(NumRefs + 1)
    BY <1>1, <2>1 DEF FirstResult, SecondResult
  <2> QED BY <2>3, <2>4
<1>2. CASE Skip
  BY <1>2 DEF Skip, In
<1>3. CASE SecondPass \/ AnswerScan \/ ServerRestart
  BY <1>3 DEF SecondPass, AnswerScan, ServerRestart
<1>4. CASE FirstCall \/ SecondCall \/ Expire
  BY <1>4 DEF FirstCall, SecondCall, Expire, scanVars
<1>5. CASE OtherCall \/ PipelineStep \/ Surroundings \/ UNCHANGED lockVars
  BY <1>5 DEF OtherCall, PipelineStep, Surroundings, lockVars, scanVars
<1> QED BY <1>1, <1>2, <1>3, <1>4, <1>5 DEF LockNext

(* Every pass leaves an entry of that very reference behind, and the first *)
(* pass an answered call.                                                  *)
LEMMA EntryStep ==
  ASSUME LockInv, [LockNext]_lockVars, NEW i \in Refs
  PROVE  (Filled(i) => Entered(i))' /\ FirstDone(i)'
<1> USE CallsAssumption DEF LockInv, ScanTypeOK, Refs, FirstDone
<1>1. First[i] \in Call /\ Second[i] \in Call
  OBVIOUS
<1>2. \A c \in {First[i], Second[i]} : pc[c] = "done" =>
        pc'[c] = "done" /\ result'[c] = result[c]
  BY <1>1, PipelineBelow
<1>3. ASSUME Filled(i), entries'[i] = entries[i]
      PROVE  (Filled(i) => Entered(i))' /\ FirstDone(i)'
  BY <1>2, <1>3 DEF Entered
<1>4. CASE FirstResult
  <2>1. CASE i = at
    BY <1>2, <1>4, <2>1 DEF FirstResult, In, Entered, Filled
  <2>2. CASE i # at
    BY <1>2, <1>3, <1>4, <2>2 DEF FirstResult, In, Filled
  <2> QED BY <2>1, <2>2
<1>5. CASE SecondResult
  <2>1. Filled(i)
    BY <1>5 DEF SecondResult, In, Filled
  <2>2. CASE i = at
    BY <1>2, <1>5, <2>1, <2>2 DEF SecondResult, In, Entered, Filled
  <2>3. CASE i # at
    BY <1>3, <1>5, <2>1, <2>3 DEF SecondResult
  <2> QED BY <2>2, <2>3
<1>6. CASE Skip \/ SecondPass \/ AnswerScan
  <2>1. Filled(i) /\ entries' = entries
    BY <1>6 DEF Skip, SecondPass, AnswerScan, In, Filled
  <2> QED BY <1>3, <2>1
<1>7. CASE ServerRestart
  BY <1>3, <1>7 DEF ServerRestart, Filled
<1>8. CASE \/ FirstCall \/ SecondCall \/ Expire
           \/ OtherCall \/ PipelineStep \/ Surroundings \/ UNCHANGED lockVars
  BY <1>3, <1>8 DEF FirstCall, SecondCall, Expire, OtherCall, PipelineStep,
    Surroundings, lockVars, scanVars, Filled
<1> QED BY <1>4, <1>5, <1>6, <1>7, <1>8 DEF LockNext

(* The invariant holds of the initial states.                              *)
LEMMA LockInvInit == LockInit => LockInv
<1> SUFFICES ASSUME LockInit PROVE LockInv
  OBVIOUS
<1>1. IInv /\ SamePackage
  BY InvInit DEF LockInit, SamePackage
<1>2. ScanTypeOK
  BY CallsAssumption DEF LockInit, ScanTypeOK, Refs
<1>3. \A i \in Refs : ~Filled(i)
  BY CallsAssumption DEF LockInit, Filled, Refs
<1> QED BY <1>1, <1>2, <1>3 DEF LockInv, FirstDone

(* Every step keeps it.                                                    *)
LEMMA LockInvStep == LockInv /\ [LockNext]_lockVars => LockInv'
<1> SUFFICES ASSUME LockInv, [LockNext]_lockVars PROVE LockInv'
  OBVIOUS
<1>1. IInv' /\ SamePackage'
  BY PipelineBelow DEF LockInv, SamePackage
<1> QED BY <1>1, ScanTypeStep, EntryStep DEF LockInv

(* The inductive invariant holds throughout.                               *)
THEOREM LockInvariant == LockSpec => []LockInv
BY LockInvInit, LockInvStep, PTL DEF LockSpec

-----------------------------------------------------------------------------
(* The properties.                                                         *)

(* The scan behind an answer is one of the package asked for.              *)
LEMMA BehindAnswer ==
  ASSUME IInv, NEW c \in Call, pc[c] = "done"
  PROVE  /\ result[c].id \in Call
         /\ result[c].pkg = pkg[c] /\ pkg[result[c].id] = pkg[c]
         /\ pc[result[c].id] = "done" /\ result[result[c].id] = result[c]
         /\ source[result[c].id] \in {"scan", "exception"}
<1>1. source[c] \in {"cache", "scan", "exception"} /\ result[c].id \in Call
  BY DEF IInv, TypeOK, Local, Built, Source, Result, Call
<1>2. ASSUME NEW d \in Call, pc[d] = "done", source[d] \in {"scan", "exception"}
      PROVE  result[d].id = d /\ result[d].pkg = pkg[d]
  BY <1>2 DEF IInv, Local, Built, Scanned
<1>3. CASE source[c] \in {"scan", "exception"}
  BY <1>1, <1>2, <1>3
<1>4. CASE source[c] = "cache"
  BY <1>1, <1>2, <1>4 DEF IInv, CachedAnswerIsAScan
<1> QED BY <1>1, <1>3, <1>4

(* The answer speaks of the packages of the file, each at its place.       *)
THEOREM AnswerMatchesFile == LockSpec => []EntriesMatchRefs
<1>1. ASSUME LockInv, NEW i \in Refs, Filled(i)
      PROVE  LET d == entries[i].id
             IN  entries[i].pkg = pkg[First[i]] /\ pkg[d] = pkg[First[i]]
                 /\ source[d] \in {"scan", "exception"}
  <2>1. PICK c \in {First[i], Second[i]} : pc[c] = "done" /\ entries[i] = result[c]
    BY <1>1 DEF LockInv, Entered
  <2>2. c \in Call /\ pkg[c] = pkg[First[i]]
    BY <1>1, CallsAssumption DEF LockInv, SamePackage, Refs
  <2> QED BY <1>1, <2>1, <2>2, BehindAnswer DEF LockInv
<1>2. LockInv => EntriesMatchRefs
  BY <1>1 DEF EntriesMatchRefs, Filled
<1> QED BY <1>2, LockInvariant, PTL

(* What a scan found and what a later one of the same package, under the   *)
(* same list, with a tarball and without a failing tier, does not: nothing.*)
LEMMA FullScanFindsAll ==
  ASSUME IInv, NEW l \in Lists,
         NEW e \in Call, pc[e] = "done", source[e] = "scan",
         NEW d \in Call, pc[d] = "done", source[d] = "scan",
         pkg[d] = pkg[e], tarball[d],
         failed[d] \cap {"cve", "heuristic", "claude"} = {},
         inForce[e] \subseteq {l}, inForce[d] \subseteq {l}
  PROVE  result[e].findings \subseteq result[d].findings
<1>1. ASSUME NEW c \in Call, pc[c] = "done", source[c] = "scan", inForce[c] \subseteq {l}
      PROVE  Looked(c, l) /\ Tiers(c) /\ AfterHeuristic(c) /\ AfterCVE(c)
             /\ AfterClaude(c) /\ result[c].findings = findings[c]
  <2>1. Tiers(c) /\ AfterBadlist(c) /\ AfterHeuristic(c) /\ AfterCVE(c)
        /\ AfterClaude(c) /\ result[c].findings = findings[c]
    BY <1>1 DEF IInv, Local, Built, AfterBadlist, AfterCVE, AfterHeuristic,
      AfterClaude, Scanned
  <2> QED BY <1>1, <2>1 DEF Tiers
<1>2. findings[e] \subseteq TierFindings(pkg[e], l)
  BY <1>1 DEF Looked, Said
<1>3. /\ BadlistFindings[l][pkg[d]] \subseteq findings[d]
      /\ CVEFindings[pkg[d]] \subseteq findings[d]
      /\ HeuristicFindings[pkg[d]] \subseteq findings[d]
  BY <1>1 DEF Looked, Tiers
<1>4. \/ ClaudeFindings[pkg[d]] \subseteq findings[d]
      \/ ~ClaudeEnabled \/ pkg[d] \in NoContent \/ ~ClaudeTriggered(pkg[d], l, {})
  BY <1>1 DEF Looked, ClaudeTriggered
<1>5. TierFindings(pkg[d], l) \subseteq findings[d]
  BY <1>3, <1>4 DEF TierFindings
<1> QED BY <1>1, <1>2, <1>5

(* A verdict of a finished scan allows nothing grave.                      *)
LEMMA AllowedIsNotGrave ==
  ASSUME IInv, NEW d \in Call, pc[d] = "done", source[d] = "scan",
         result[d].verdict = "allow"
  PROVE  ~HasCriticalOrBlock(result[d].findings)
BY DEF IInv, Local, Built, Scanned, ComputeVerdict

(* A grave flag of the first pass is gone from the answer only because of  *)
(* an exception, a failed tier, a missing tarball or a new known-bad list. *)
THEOREM FlagsSurvive == LockSpec => []FlagSurvivesRescan
<1>1. ASSUME LockInv, NEW i \in Refs, pass = "answered",
             HasCriticalOrBlock(result[First[i]].findings),
             entries[i].verdict = "allow"
      PROVE  LET d == entries[i].id
             IN  \/ source[d] = "exception" \/ ~tarball[d]
                 \/ failed[d] \cap {"cve", "heuristic", "claude"} # {}
                 \/ \E l, m \in inForce[result[First[i]].id] \cup inForce[d] : l # m
  <2> DEFINE d == entries[i].id
             e == result[First[i]].id
  <2>1. First[i] \in Call /\ pc[First[i]] = "done"
    BY <1>1, CallsAssumption DEF LockInv, FirstDone, Filled, Refs
  <2>2. PICK c \in {First[i], Second[i]} : pc[c] = "done" /\ entries[i] = result[c]
    BY <1>1 DEF LockInv, Filled, Entered
  <2>3. c \in Call /\ pkg[c] = pkg[First[i]]
    BY <1>1, CallsAssumption DEF LockInv, SamePackage, Refs
  <2>4. /\ d \in Call /\ pc[d] = "done" /\ source[d] \in {"scan", "exception"}
        /\ result[d] = entries[i] /\ pkg[d] = pkg[First[i]]
    BY <1>1, <2>2, <2>3, BehindAnswer DEF LockInv
  <2>5. /\ e \in Call /\ pc[e] = "done" /\ source[e] \in {"scan", "exception"}
        /\ result[e] = result[First[i]] /\ pkg[e] = pkg[First[i]]
    BY <1>1, <2>1, BehindAnswer DEF LockInv
  <2>6. source[e] = "scan"
    BY <1>1, <2>5 DEF LockInv, IInv, Local, Built, HasCriticalOrBlock
  <2> HIDE DEF d, e
  <2> SUFFICES ASSUME source[d] # "exception", tarball[d],
                      failed[d] \cap {"cve", "heuristic", "claude"} = {},
                      \A l, m \in inForce[e] \cup inForce[d] : l = m
               PROVE  FALSE
    BY DEF d, e
  <2>7. PICK l \in Lists : inForce[e] \subseteq {l} /\ inForce[d] \subseteq {l}
    <3>1. PICK l \in inForce[e] : TRUE
      BY <1>1, <2>5, <2>6 DEF LockInv, IInv, Local, Tiers, AfterBadlist, AfterCVE,
        AfterHeuristic, AfterClaude, Scanned
    <3> QED BY <1>1, <2>5, <3>1 DEF LockInv, IInv, TypeOK
  <2>8. result[e].findings \subseteq result[d].findings
    BY <1>1, <2>4, <2>5, <2>6, <2>7, FullScanFindsAll DEF LockInv
  <2>9. HasCriticalOrBlock(result[d].findings)
    BY <1>1, <2>5, <2>8 DEF HasCriticalOrBlock
  <2> QED BY <1>1, <2>4, <2>9, AllowedIsNotGrave DEF LockInv
<1>2. LockInv => FlagSurvivesRescan
  BY <1>1 DEF FlagSurvivesRescan
<1> QED BY <1>2, LockInvariant, PTL

(* Under the one deadline of the request too, failures hide nothing.       *)
THEOREM LockGapsHaveCauses == LockSpec => []EveryGapHasACause
BY InvGivesCauses, LockInvariant, PTL DEF LockInv

(* Nor are the known-bad allowed under it.                                 *)
THEOREM LockKnownBadIsNotAllowed == LockSpec => []KnownBadNeverAllowed
BY InvGivesVerdicts, LockInvariant, PTL DEF LockInv
=============================================================================
