--------------------------- MODULE PipelineProofs ---------------------------
(***************************************************************************)
(* The safety properties of Pipeline, proved for any number of calls,      *)
(* packages, tiers' answers, faults and modes.                             *)
(***************************************************************************)
EXTENDS Pipeline, ScanStoreProofs

-----------------------------------------------------------------------------
(* Type correctness.                                                       *)

(* The result a call builds is a well-typed scan result.                   *)
LEMMA BuiltType ==
  ASSUME TypeOK, NEW c \in Call, NEW m
  PROVE  [id |-> c, pkg |-> pkg[c], verdict |-> ComputeVerdict(m, findings[c]),
          findings |-> findings[c], scannedAt |-> now] \in Result
<1>1. pkg[c] \in Packages /\ findings[c] \in SUBSET Findings /\ now \in Nat
  BY DEF TypeOK, StoreTypeOK
<1> QED BY <1>1, VerdictType DEF Result, Call

(* The answer of an exception is a well-typed scan result.                 *)
LEMMA ExceptionAnswerType ==
  ASSUME TypeOK, NEW c \in Call
  PROVE  [id |-> c, pkg |-> pkg[c], verdict |-> "allow", findings |-> {},
          scannedAt |-> now] \in Result
<1>1. pkg[c] \in Packages /\ now \in Nat
  BY DEF TypeOK, StoreTypeOK
<1> QED BY <1>1 DEF Result, Call, Verdict

(* A step that leaves the store alone leaves it well typed and invariant.  *)
LEMMA StoreUnchanged ==
  ASSUME UNCHANGED storeVars
  PROVE  /\ StoreTypeOK => StoreTypeOK'
         /\ StoreInv => StoreInv'
BY DEF storeVars, StoreInv, StoreTypeOK, HistoryKeepsNewest, CacheLifeFromScan,
  Aged, TTL

(* Init is well typed.                                                     *)
LEMMA TypeInit == Init => TypeOK
<1> SUFFICES ASSUME Init PROVE TypeOK
  OBVIOUS
<1>1. StoreTypeOK
  BY StoreInvInit DEF Init, StoreInv
<1> QED BY <1>1, ModesAssumption DEF Init, TypeOK, Call

(* Every step of a call keeps the variables well typed.                    *)
LEMMA TypeCallStep ==
  ASSUME TypeOK, NEW c \in Call, Begin(c) \/ Advance(c) \/ Deadline(c),
         pc[c] = "save" => result[c] \in Result
  PROVE  TypeOK'
<1> USE DEF TypeOK, GoTo, process
<1>1. CASE Begin(c)
  BY <1>1, StoreUnchanged DEF Begin, Running
<1>2. CASE CacheHit(c)
  <2>1. cache[pkg[c]].result \in Result
    BY <1>2 DEF CacheHit, IsCached, StoreTypeOK, CacheRow
  <2> QED BY <1>2, <2>1, StoreUnchanged DEF CacheHit, Answer, Source
<1>3. CASE CacheMiss(c)
  BY <1>3, StoreUnchanged DEF CacheMiss, Running
<1>4. CASE CacheFails(c)
  BY <1>4, StoreUnchanged DEF CacheFails, Fails, Running, FaultPoint
<1>5. CASE Excepted(c)
  BY <1>5, StoreUnchanged, ExceptionAnswerType DEF Excepted, Answer, Source
<1>6. CASE NotExcepted(c)
  BY <1>6, StoreUnchanged DEF NotExcepted, Running
<1>7. CASE ExceptionFails(c)
  BY <1>7, StoreUnchanged DEF ExceptionFails, Fails, Running, FaultPoint
<1>8. CASE Badlist(c)
  BY <1>8, StoreUnchanged, TiersAssumption
  DEF Badlist, Collect, Running, HasCriticalOrBlock
<1>9. CASE CVE(c)
  BY <1>9, StoreUnchanged, TiersAssumption DEF CVE, Collect, Running, HasHighCVSS
<1>10. CASE CVEFails(c)
  BY <1>10, StoreUnchanged DEF CVEFails, Fails, Running, FaultPoint
<1>11. CASE Heuristic(c)
  BY <1>11, StoreUnchanged, TiersAssumption DEF Heuristic, Collect, Running
<1>12. CASE HeuristicFails(c)
  BY <1>12, StoreUnchanged DEF HeuristicFails, Running, FaultPoint
<1>13. CASE NoHeuristic(c)
  BY <1>13, StoreUnchanged DEF NoHeuristic, Running
<1>14. CASE Claude(c)
  BY <1>14, StoreUnchanged, TiersAssumption DEF Claude, Running
<1>15. CASE ClaudeFails(c)
  BY <1>15, StoreUnchanged DEF ClaudeFails, Fails, Running, FaultPoint
<1>16. CASE NoClaude(c)
  BY <1>16, StoreUnchanged DEF NoClaude, Running
<1>17. CASE BuildResult(c)
  BY <1>17, StoreUnchanged, BuiltType DEF BuildResult, Running
<1>18. CASE Save(c)
  <2>1. result[c] \in Result
    BY <1>18 DEF Save
  <2>2. StoreTypeOK'
    BY <1>18, <2>1, SaveResultType DEF Save
  <2> QED BY <1>18, <2>1, <2>2 DEF Save, Answer, Source
<1>19. CASE SaveFails(c)
  BY <1>19, StoreUnchanged DEF SaveFails, Fails, Answer, Source, FaultPoint
<1>20. CASE Deadline(c)
  BY <1>20, StoreUnchanged DEF Deadline, FaultPoint
<1> QED BY <1>1, <1>2, <1>3, <1>4, <1>5, <1>6, <1>7, <1>8, <1>9, <1>10, <1>11,
  <1>12, <1>13, <1>14, <1>15, <1>16, <1>17, <1>18, <1>19, <1>20 DEF Advance

(* So does everything else.                                                *)
LEMMA TypeOtherStep ==
  ASSUME TypeOK, RefreshList \/ Restart \/ Environment \/ UNCHANGED vars
  PROVE  TypeOK'
<1>1. CASE Restart
  BY <1>1, StoreUnchanged, ModesAssumption DEF Restart, TypeOK
<1>2. CASE Environment
  <2>1. StoreTypeOK'
    BY <1>2, AdministerType, PruneHistoryType, TickType DEF Environment, TypeOK
  <2> QED BY <1>2, <2>1 DEF Environment, TypeOK, callVars, process
<1>3. CASE UNCHANGED vars
  BY <1>3, StoreUnchanged DEF vars, callVars, process, TypeOK
<1>4. CASE RefreshList
  BY <1>4, StoreUnchanged DEF RefreshList, callVars, TypeOK
<1> QED BY <1>1, <1>2, <1>3, <1>4

-----------------------------------------------------------------------------
(* The inductive invariant.                                                *)

(* The call built a result of its own.                                     *)
Scanned(c) == pc[c] = "save" \/ (pc[c] = "done" /\ source[c] = "scan")

(* What is known of the result of a call.                                  *)
Built(c) ==
  /\ pc[c] = "done" <=> source[c] # "none"
  /\ pc[c] = "done" => result[c] \in Result
  /\ pc[c] # "done" => "save" \notin failed[c]
  /\ source[c] = "exception" =>
       /\ result[c].id = c /\ result[c].pkg = pkg[c]
       /\ result[c].verdict = "allow" /\ result[c].findings = {}
  /\ Scanned(c) =>
       /\ result[c] \in Result
       /\ result[c].id = c /\ result[c].pkg = pkg[c]
       /\ result[c].findings = findings[c]
       /\ \E m \in Modes : result[c].verdict = ComputeVerdict(m, findings[c])

(* How far a scan has come.                                                *)
AfterClaude(c)    == pc[c] = "verdict" \/ Scanned(c)
AfterHeuristic(c) == pc[c] = "claude" \/ AfterClaude(c)
AfterCVE(c)       == pc[c] = "heuristic" \/ AfterHeuristic(c)
AfterBadlist(c)   == pc[c] = "cve" \/ AfterCVE(c)

(* It has not looked at tier 1 yet, and may look at the current list.      *)
BeforeBadlist(c) == pc[c] \in {"cache", "exception", "badlist"}

(* Everything the tiers can say of a package, when tier 1 looks at list l. *)
TierFindings(p, l) ==
  BadlistFindings[l][p] \cup CVEFindings[p] \cup HeuristicFindings[p]
    \cup {f \in ClaudeFindings[p] :
            ClaudeEnabled /\ p \notin NoContent /\ ClaudeTriggered(p, l, {})}

(* Nothing is there that no tier said, and nobody else asks for Claude.    *)
Said(c, l) ==
  /\ findings[c] \subseteq TierFindings(pkg[c], l)
  /\ claudeNeeded[c] => ClaudeTriggered(pkg[c], l, {})

(* What tier 1 left behind, when it looked at list l.                      *)
Looked(c, l) ==
  /\ Said(c, l)
  /\ BadlistFindings[l][pkg[c]] \subseteq findings[c]
  /\ HasCriticalOrBlock(BadlistFindings[l][pkg[c]]) => claudeNeeded[c]
  /\ AfterClaude(c) =>
       \/ ClaudeFindings[pkg[c]] \subseteq findings[c]
       \/ ~tarball[c] \/ ~ClaudeEnabled \/ pkg[c] \in NoContent
       \/ "claude" \in failed[c] \/ ~ClaudeTriggered(pkg[c], l, failed[c])

(* What each tier leaves behind: its findings, and its vote for Claude.    *)
Tiers(c) ==
  /\ BeforeBadlist(c) => list \in inForce[c]
  /\ BeforeBadlist(c) \/ pc[c] = "idle" => findings[c] = {} /\ ~claudeNeeded[c]
  /\ AfterBadlist(c) => \E l \in inForce[c] : Looked(c, l)
  /\ AfterCVE(c) /\ "cve" \notin failed[c] =>
       /\ CVEFindings[pkg[c]] \subseteq findings[c]
       /\ HasHighCVSS(CVEFindings[pkg[c]]) => claudeNeeded[c]
  /\ AfterHeuristic(c) /\ tarball[c] /\ "heuristic" \notin failed[c] =>
       /\ HeuristicFindings[pkg[c]] \subseteq findings[c]
       /\ HeuristicScore[pkg[c]] >= ClaudeTriggerScore => claudeNeeded[c]

Local(c) == Built(c) /\ Tiers(c)

IInv ==
  /\ TypeOK
  /\ StoreInv
  /\ mode \in Modes
  /\ \A c \in Call : Local(c)
  /\ OnlyFinishedScansPersisted
  /\ CachedAnswerIsAScan

-----------------------------------------------------------------------------
(* A step of one call does not touch another.                              *)
LEMMA Others ==
  ASSUME TypeOK, NEW c \in Call, Begin(c) \/ Advance(c) \/ Deadline(c),
         NEW d \in Call, d # c
  PROVE  /\ pc'[d] = pc[d] /\ pkg'[d] = pkg[d] /\ tarball'[d] = tarball[d]
         /\ findings'[d] = findings[d] /\ claudeNeeded'[d] = claudeNeeded[d]
         /\ failed'[d] = failed[d] /\ result'[d] = result[d]
         /\ source'[d] = source[d] /\ inForce'[d] = inForce[d] /\ list' = list
<1> USE DEF TypeOK, GoTo, process
<1>1. CASE Begin(c)
  BY <1>1 DEF Begin
<1>2. CASE CacheHit(c) \/ CacheMiss(c) \/ CacheFails(c)
  BY <1>2 DEF CacheHit, CacheMiss, CacheFails, Answer, Fails
<1>3. CASE Excepted(c) \/ NotExcepted(c) \/ ExceptionFails(c)
  BY <1>3 DEF Excepted, NotExcepted, ExceptionFails, Answer, Fails
<1>4. CASE Badlist(c) \/ CVE(c) \/ CVEFails(c)
  BY <1>4 DEF Badlist, CVE, CVEFails, Collect, Fails
<1>5. CASE Heuristic(c) \/ HeuristicFails(c) \/ NoHeuristic(c)
  BY <1>5 DEF Heuristic, HeuristicFails, NoHeuristic, Collect
<1>6. CASE Claude(c) \/ ClaudeFails(c) \/ NoClaude(c)
  BY <1>6 DEF Claude, ClaudeFails, NoClaude, Fails
<1>7. CASE BuildResult(c) \/ Save(c) \/ SaveFails(c)
  BY <1>7 DEF BuildResult, Save, SaveFails, Answer, Fails
<1>8. CASE Deadline(c)
  BY <1>8 DEF Deadline
<1> QED BY <1>1, <1>2, <1>3, <1>4, <1>5, <1>6, <1>7, <1>8 DEF Advance

(* A call keeps what is known of it when its own variables stay as they are*)
(* and lists are only added to those it may have looked at.                *)
LEMMA LocalFrame ==
  ASSUME NEW d, Local(d),
         pc'[d] = pc[d] /\ pkg'[d] = pkg[d] /\ tarball'[d] = tarball[d],
         findings'[d] = findings[d] /\ claudeNeeded'[d] = claudeNeeded[d],
         failed'[d] = failed[d] /\ result'[d] = result[d],
         source'[d] = source[d], inForce[d] \subseteq inForce'[d],
         BeforeBadlist(d) => list' \in inForce'[d]
  PROVE  Local(d)'
<1>1. Built(d)'
  BY DEF Local, Built, Scanned, ComputeVerdict, HasCriticalOrBlock, Result
<1> USE DEF Local, Tiers, Scanned, AfterClaude, AfterHeuristic, AfterCVE,
            AfterBadlist, BeforeBadlist
<1>2. AfterBadlist(d)' => \E l \in inForce'[d] : Looked(d, l)'
  <2> SUFFICES ASSUME AfterBadlist(d)'
               PROVE  \E l \in inForce'[d] : Looked(d, l)'
    OBVIOUS
  <2>1. PICK l \in inForce[d] : Looked(d, l)
    OBVIOUS
  <2>2. Looked(d, l)'
    BY <2>1 DEF Looked, Said, TierFindings, ClaudeTriggered, HasCriticalOrBlock,
      HasHighCVSS
  <2> QED BY <2>2
<1>3. Tiers(d)'
  BY <1>2 DEF HasHighCVSS
<1> QED BY <1>1, <1>3

(* The last step of a call that runs keeps what tier 1 left behind.        *)
LEMMA LookedStep ==
  ASSUME TypeOK, NEW c \in Call, Local(c), Advance(c) \/ Deadline(c), ~Badlist(c),
         NEW l, Looked(c, l), AfterBadlist(c)
  PROVE  Looked(c, l)'
<1> USE DEF TypeOK, GoTo, Local, Built, Tiers, Scanned, AfterClaude,
            AfterHeuristic, AfterCVE, AfterBadlist, ClaudeTriggered, Looked
<1>1. CASE CacheHit(c) \/ CacheMiss(c) \/ CacheFails(c)
  BY <1>1 DEF CacheHit, CacheMiss, CacheFails, Said
<1>2. CASE Excepted(c) \/ NotExcepted(c) \/ ExceptionFails(c)
  BY <1>2 DEF Excepted, NotExcepted, ExceptionFails, Said
<1>3. CASE CVE(c)
  <2>1. Said(c, l)'
    BY <1>3 DEF CVE, Collect, Said, TierFindings
  <2> QED BY <1>3, <2>1 DEF CVE, Collect
<1>4. CASE CVEFails(c)
  BY <1>4 DEF CVEFails, Fails, Said
<1>5. CASE Heuristic(c)
  <2>1. Said(c, l)'
    BY <1>5, TiersAssumption DEF Heuristic, Collect, Said, TierFindings
  <2> QED BY <1>5, <2>1 DEF Heuristic, Collect
<1>6. CASE HeuristicFails(c) \/ NoHeuristic(c)
  BY <1>6 DEF HeuristicFails, NoHeuristic, Said
<1>7. CASE Claude(c)
  <2>1. Said(c, l)'
    BY <1>7 DEF Claude, ClaudeDue, Said, TierFindings
  <2> QED BY <1>7, <2>1 DEF Claude
<1>8. CASE ClaudeFails(c)
  BY <1>8 DEF ClaudeFails, Fails, Said
<1>9. CASE NoClaude(c)
  BY <1>9 DEF NoClaude, ClaudeDue, Said
<1>10. CASE BuildResult(c)
  BY <1>10 DEF BuildResult, Said
<1>11. CASE Save(c)
  BY <1>11 DEF Save, Answer, Said
<1>12. CASE SaveFails(c)
  BY <1>12 DEF SaveFails, Fails, Answer, Said
<1>13. CASE Deadline(c)
  BY <1>13 DEF Deadline, Running, Said
<1> QED BY <1>1, <1>2, <1>3, <1>4, <1>5, <1>6, <1>7, <1>8, <1>9, <1>10, <1>11,
  <1>12, <1>13 DEF Advance

(* A step of a call keeps what is known of its lists.                      *)
LEMMA ListStep ==
  ASSUME TypeOK, NEW c \in Call, Local(c), Begin(c) \/ Advance(c) \/ Deadline(c)
  PROVE  /\ BeforeBadlist(c)' => list' \in inForce'[c]
         /\ AfterBadlist(c)' => \E l \in inForce'[c] : Looked(c, l)'
<1> USE DEF TypeOK, GoTo, process
<1>1. CASE Begin(c)
  BY <1>1 DEF Begin, BeforeBadlist, AfterBadlist, AfterCVE, AfterHeuristic,
    AfterClaude, Scanned
<1>2. CASE Badlist(c)
  <2>1. list \in inForce[c] /\ inForce' = inForce
    BY <1>2 DEF Badlist, Local, Tiers, BeforeBadlist
  <2>2. findings[c] = {} /\ ~claudeNeeded[c]
    BY <1>2 DEF Badlist, Local, Tiers, BeforeBadlist
  <2>3. Said(c, list)'
    BY <1>2, <2>1, <2>2 DEF Badlist, Collect, Said, TierFindings, ClaudeTriggered
  <2>4. Looked(c, list)'
    BY <1>2, <2>3 DEF Badlist, Collect, Looked, AfterClaude, Scanned
  <2> QED BY <1>2, <2>1, <2>4 DEF Badlist, BeforeBadlist
<1>3. CASE ~Begin(c) /\ ~Badlist(c)
  <2>1. list' = list /\ inForce' = inForce
    BY <1>3 DEF Advance, Deadline, CacheHit, CacheMiss, CacheFails, Excepted,
      NotExcepted, ExceptionFails, CVE, CVEFails, Heuristic, HeuristicFails,
      NoHeuristic, Claude, ClaudeFails, NoClaude, BuildResult, Save, SaveFails
  <2>2. BeforeBadlist(c)' => BeforeBadlist(c)
    BY <1>3 DEF BeforeBadlist, Running, Advance, Deadline, CacheHit, CacheMiss,
      CacheFails, Excepted, NotExcepted, ExceptionFails, CVE, CVEFails, Heuristic,
      HeuristicFails, NoHeuristic, Claude, ClaudeFails, NoClaude, BuildResult,
      Save, SaveFails
  <2>3. AfterBadlist(c)' => AfterBadlist(c)
    BY <1>3 DEF AfterBadlist, AfterCVE, AfterHeuristic, AfterClaude, Scanned,
      Running, Advance, Deadline, CacheHit, CacheMiss, CacheFails, Excepted,
      NotExcepted, ExceptionFails, CVE, CVEFails, Heuristic, HeuristicFails,
      NoHeuristic, Claude, ClaudeFails, NoClaude, BuildResult, Save, SaveFails,
      Answer
  <2>4. ASSUME AfterBadlist(c)' PROVE \E l \in inForce'[c] : Looked(c, l)'
    <3>1. PICK l \in inForce[c] : Looked(c, l)
      BY <2>3, <2>4 DEF Local, Tiers
    <3>2. Looked(c, l)'
      BY <1>3, <2>3, <2>4, <3>1, LookedStep
    <3> QED BY <2>1, <3>1, <3>2
  <2> QED BY <2>1, <2>2, <2>4 DEF Local, Tiers
<1> QED BY <1>1, <1>2, <1>3

(* A step of a call keeps what is known of it: one step per action.        *)
LEMMA LocalStep ==
  ASSUME TypeOK, mode \in Modes, NEW c \in Call, Local(c),
         Begin(c) \/ Advance(c) \/ Deadline(c)
  PROVE  Local(c)'
<1> USE ListStep DEF TypeOK, GoTo, Local, Built, Tiers, Scanned, AfterClaude,
                     AfterHeuristic, AfterCVE, BeforeBadlist
<1>1. CASE Begin(c)
  BY <1>1 DEF Begin
<1>2. CASE CacheHit(c)
  <2>1. cache[pkg[c]].result \in Result
    BY <1>2 DEF CacheHit, IsCached, StoreTypeOK, CacheRow
  <2> QED BY <1>2, <2>1 DEF CacheHit, Answer
<1>3. CASE CacheMiss(c) \/ CacheFails(c)
  BY <1>3 DEF CacheMiss, CacheFails, Fails
<1>4. CASE Excepted(c)
  BY <1>4, ExceptionAnswerType DEF Excepted, Answer
<1>5. CASE NotExcepted(c) \/ ExceptionFails(c)
  BY <1>5 DEF NotExcepted, ExceptionFails, Fails
<1>6. CASE Badlist(c)
  BY <1>6 DEF Badlist, Collect
<1>7. CASE CVE(c)
  BY <1>7 DEF CVE, Collect
<1>8. CASE CVEFails(c)
  BY <1>8 DEF CVEFails, Fails
<1>9. CASE Heuristic(c)
  BY <1>9 DEF Heuristic, Collect
<1>10. CASE HeuristicFails(c)
  BY <1>10 DEF HeuristicFails
<1>11. CASE NoHeuristic(c)
  BY <1>11 DEF NoHeuristic
<1>12. CASE Claude(c)
  BY <1>12 DEF Claude
<1>13. CASE ClaudeFails(c)
  BY <1>13 DEF ClaudeFails, Fails
<1>14. CASE NoClaude(c)
  BY <1>14 DEF NoClaude, ClaudeDue
<1>15. CASE BuildResult(c)
  BY <1>15, BuiltType DEF BuildResult
<1>16. CASE Save(c)
  BY <1>16 DEF Save, Answer
<1>17. CASE SaveFails(c)
  BY <1>17 DEF SaveFails, Fails, Answer
<1>18. CASE Deadline(c)
  BY <1>18 DEF Deadline, Running
<1> QED BY <1>1, <1>2, <1>3, <1>4, <1>5, <1>6, <1>7, <1>8, <1>9, <1>10, <1>11,
  <1>12, <1>13, <1>14, <1>15, <1>16, <1>17, <1>18 DEF Advance

(* An answered call takes no more steps.                                   *)
LEMMA DoneIsFinal ==
  ASSUME NEW c, pc[c] = "done"
  PROVE  ~(Begin(c) \/ Advance(c) \/ Deadline(c))
BY DEF Begin, Advance, Deadline, GoTo, Running, CacheHit, CacheMiss, CacheFails,
  Excepted, NotExcepted, ExceptionFails, Badlist, CVE, CVEFails, Heuristic,
  HeuristicFails, NoHeuristic, Claude, ClaudeFails, NoClaude, BuildResult, Save,
  SaveFails

(* A step of a call saves its own result or leaves the store alone.        *)
LEMMA CallWrites ==
  ASSUME NEW c \in Call, Begin(c) \/ Advance(c) \/ Deadline(c), ~Save(c)
  PROVE  UNCHANGED storeVars
BY DEF Begin, Advance, Deadline, CacheHit, CacheMiss, CacheFails,
  Excepted, NotExcepted, ExceptionFails, Badlist, CVE, CVEFails, Heuristic,
  HeuristicFails, NoHeuristic, Claude, ClaudeFails, NoClaude, BuildResult,
  SaveFails

(* No step of a call changes the mode.                                     *)
LEMMA CallKeepsMode ==
  ASSUME NEW c \in Call, Begin(c) \/ Advance(c) \/ Deadline(c)
  PROVE  mode' = mode
BY DEF process, Begin, Advance, Deadline, CacheHit, CacheMiss, CacheFails,
  Excepted, NotExcepted, ExceptionFails, Badlist, CVE, CVEFails, Heuristic,
  HeuristicFails, NoHeuristic, Claude, ClaudeFails, NoClaude, BuildResult, Save,
  SaveFails

(* The result being saved is new to the history.                           *)
LEMMA SavedIsNew ==
  ASSUME IInv, NEW c \in Call, Save(c)
  PROVE  /\ result[c] \in Result /\ result[c].id = c
         /\ result[c] \in HistoryWith(result[c])
         /\ \A r \in saved : r.id # c
<1>1. pc[c] = "save"
  BY DEF Save, GoTo
<1>2. result[c] \in Result /\ result[c].id = c
  BY <1>1 DEF IInv, Local, Built, Scanned
<1>3. \A r \in saved : r.id # c
  BY <1>1 DEF IInv, OnlyFinishedScansPersisted
<1> QED BY <1>2, <1>3 DEF HistoryWith, IInv, OnlyFinishedScansPersisted

(* A step of a call keeps the invariant of the store.                      *)
LEMMA StoreStep ==
  ASSUME IInv, NEW c \in Call, Begin(c) \/ Advance(c) \/ Deadline(c)
  PROVE  StoreInv'
<1>1. CASE Save(c)
  BY <1>1, SavedIsNew, SaveResultKeepsInv DEF Save, IInv
<1>2. CASE ~Save(c)
  BY <1>2, CallWrites, StoreUnchanged DEF IInv
<1> QED BY <1>1, <1>2

(* A step of a call persists nothing but a finished scan.                  *)
LEMMA PersistedStep ==
  ASSUME IInv, NEW c \in Call, Begin(c) \/ Advance(c) \/ Deadline(c)
  PROVE  OnlyFinishedScansPersisted'
<1>1. history' \subseteq saved'
  BY StoreStep DEF StoreInv
<1>2. ASSUME NEW r \in saved'
      PROVE  /\ pc'[r.id] = "done" /\ source'[r.id] = "scan" /\ result'[r.id] = r
             /\ failed'[r.id] \cap {"save", "deadline"} = {}
  <2>1. CASE r \in saved
    <3>1. /\ pc[r.id] = "done" /\ source[r.id] = "scan" /\ result[r.id] = r
          /\ failed[r.id] \cap {"save", "deadline"} = {}
      BY <2>1 DEF IInv, OnlyFinishedScansPersisted
    <3>2. r.id # c
      BY <3>1, DoneIsFinal
    <3>3. r.id \in Call
      BY <2>1 DEF IInv, TypeOK, StoreTypeOK, Result, Call
    <3> QED BY <3>1, <3>2, <3>3, Others DEF IInv
  <2>2. CASE r \notin saved
    <3>1. Save(c)
      BY <2>2, CallWrites DEF storeVars
    <3>2. r = result[c] /\ r.id = c
      BY <2>2, <3>1, SavedIsNew DEF Save, SaveResult
    <3>3. "save" \notin failed[c] /\ "deadline" \notin failed[c]
      BY <3>1 DEF Save, InTime, GoTo, IInv, Local, Built
    <3> QED BY <3>1, <3>2, <3>3 DEF Save, GoTo, Answer, IInv, TypeOK
  <2> QED BY <2>1, <2>2
<1> QED BY <1>1, <1>2 DEF OnlyFinishedScansPersisted

(* A step of a call leaves every cached answer a finished scan.            *)
LEMMA CachedStep ==
  ASSUME IInv, NEW c \in Call, Begin(c) \/ Advance(c) \/ Deadline(c)
  PROVE  CachedAnswerIsAScan'
<1> SUFFICES ASSUME NEW e \in Call, pc'[e] = "done", source'[e] = "cache"
             PROVE  LET d == result'[e].id
                    IN  /\ pkg'[d] = pkg'[e] /\ pc'[d] = "done"
                        /\ source'[d] = "scan" /\ result'[d] = result'[e]
  BY DEF CachedAnswerIsAScan
<1> DEFINE d == result'[e].id
<1>1. d \in Call /\ pkg[d] = pkg[e] /\ pkg'[e] = pkg[e]
        /\ pc[d] = "done" /\ source[d] = "scan" /\ result[d] = result'[e]
  <2>1. CASE e # c
    <3>1. /\ pc[e] = "done" /\ source[e] = "cache" /\ result'[e] = result[e]
          /\ pkg'[e] = pkg[e]
      BY <2>1, Others DEF IInv
    <3>2. d \in Call
      BY <3>1 DEF IInv, Local, Built, Result, Call
    <3> QED BY <3>1, <3>2 DEF IInv, CachedAnswerIsAScan
  <2>2. CASE e = c
    <3>1. pc[c] # "done" /\ source[c] = "none"
      BY DoneIsFinal DEF IInv, Local, Built, TypeOK
    <3>2. CacheHit(c)
      BY <3>1, <2>2 DEF Begin, Advance, Deadline, GoTo, Running, CacheMiss,
        CacheFails, Excepted, NotExcepted, ExceptionFails, Badlist, CVE, CVEFails,
        Heuristic, HeuristicFails, NoHeuristic, Claude, ClaudeFails, NoClaude,
        BuildResult, Save, SaveFails, Answer, IInv, TypeOK
    <3>3. /\ cache[pkg[c]] # NoRow /\ result'[c] = cache[pkg[c]].result
          /\ pkg'[c] = pkg[c] /\ pkg[c] \in Packages
      BY <3>2 DEF CacheHit, IsCached, Answer, IInv, TypeOK
    <3>4. result'[c] \in saved /\ result'[c].pkg = pkg[c]
      BY <3>3 DEF IInv, StoreInv, CacheLifeFromScan
    <3>5. d \in Call /\ pc[d] = "done" /\ source[d] = "scan" /\ result[d] = result'[c]
      BY <3>4, <2>2 DEF IInv, OnlyFinishedScansPersisted, TypeOK, StoreTypeOK,
        Result, Call
    <3>6. pkg[d] = result[d].pkg
      BY <3>5 DEF IInv, Local, Built, Scanned
    <3> QED BY <2>2, <3>3, <3>4, <3>5, <3>6
  <2> QED BY <2>1, <2>2
<1>2. d # c
  BY <1>1, DoneIsFinal
<1> QED BY <1>1, <1>2, Others DEF IInv

(* The invariant holds of the initial states and is kept by every step.    *)
LEMMA InvInit == Init => IInv
<1> SUFFICES ASSUME Init PROVE IInv
  OBVIOUS
<1>1. TypeOK /\ StoreInv /\ mode \in Modes
  BY TypeInit, StoreInvInit DEF Init
<1>2. ASSUME NEW c \in Call PROVE Local(c)
  BY DEF Init, Local, Built, Tiers, Scanned, AfterClaude, AfterHeuristic,
    AfterCVE, AfterBadlist, BeforeBadlist
<1>3. OnlyFinishedScansPersisted /\ CachedAnswerIsAScan
  BY DEF Init, StoreInit, OnlyFinishedScansPersisted, CachedAnswerIsAScan
<1> QED BY <1>1, <1>2, <1>3 DEF IInv

(* A step of a call keeps the inductive invariant.                         *)
LEMMA InvCallStep ==
  ASSUME IInv, NEW c \in Call, Begin(c) \/ Advance(c) \/ Deadline(c)
  PROVE  IInv'
<1>1. TypeOK'
  BY TypeCallStep DEF IInv, Local, Built, Scanned
<1>2. StoreInv' /\ mode' \in Modes
  BY StoreStep, CallKeepsMode DEF IInv
<1>3. ASSUME NEW d \in Call PROVE Local(d)'
  <2>1. CASE d = c
    BY <2>1, LocalStep DEF IInv
  <2>2. CASE d # c
    <3>1. list' \in inForce'[d] \/ ~BeforeBadlist(d)
      BY <2>2, Others DEF IInv, Local, Tiers
    <3> QED BY <2>2, <3>1, Others, LocalFrame DEF IInv
  <2> QED BY <2>1, <2>2
<1> QED BY <1>1, <1>2, <1>3, PersistedStep, CachedStep DEF IInv

(* So do a restart and the environment.                                    *)
LEMMA InvOtherStep ==
  ASSUME IInv, RefreshList \/ Restart \/ Environment \/ UNCHANGED vars
  PROVE  IInv'
<1>1. TypeOK'
  BY TypeOtherStep DEF IInv
<1>2. StoreInv' /\ mode' \in Modes /\ history' \subseteq saved' /\ saved' = saved
  <2>1. CASE RefreshList \/ Restart \/ UNCHANGED vars
    BY <2>1, StoreUnchanged
    DEF RefreshList, Restart, vars, process, IInv, StoreInv, storeVars
  <2>2. CASE Environment
    <3>1. StoreInv'
      BY <2>2, AdministerKeepsInv, PruneHistoryKeepsInv, TickKeepsInv
      DEF Environment, IInv
    <3>2. saved' = saved
      BY <2>2 DEF Environment, Administer, AddException, DeleteException,
        PruneHistory, Tick
    <3> QED BY <2>2, <3>1, <3>2 DEF Environment, process, IInv, StoreInv
  <2> QED BY <2>1, <2>2
<1>3. UNCHANGED <<pkg, tarball, findings, claudeNeeded, failed, result, source>>
  BY DEF RefreshList, Restart, Environment, vars, callVars
<1>4. ASSUME NEW c \in Call
      PROVE  /\ pc[c] = "done" <=> pc'[c] = "done"
             /\ pc'[c] # "killed" => pc'[c] = pc[c]
  BY DEF RefreshList, Restart, Environment, vars, callVars, Running
<1>5. ASSUME NEW c \in Call PROVE Local(c)'
  <2>1. CASE pc'[c] = pc[c]
    <3>1. inForce[c] \subseteq inForce'[c]
      BY DEF RefreshList, Restart, Environment, vars, process, IInv, TypeOK
    <3>2. BeforeBadlist(c) => list' \in inForce'[c]
      <4>1. CASE RefreshList
        BY <4>1 DEF RefreshList, BeforeBadlist, IInv, TypeOK
      <4>2. CASE Restart
        BY <2>1, <4>2 DEF Restart, BeforeBadlist, Running
      <4>3. CASE Environment \/ UNCHANGED vars
        BY <4>3 DEF Environment, vars, process, IInv, Local, Tiers
      <4> QED BY <4>1, <4>2, <4>3
    <3> QED BY <1>3, <2>1, <3>1, <3>2, LocalFrame DEF IInv
  <2>2. CASE pc'[c] = "killed"
    BY <1>3, <1>4, <2>2 DEF IInv, Local, Built, Tiers, Scanned, AfterClaude,
      AfterHeuristic, AfterCVE, AfterBadlist, BeforeBadlist
  <2> QED BY <1>4, <2>1, <2>2
<1>6. OnlyFinishedScansPersisted'
  <2>1. \A r \in saved : r.id \in Call
    BY DEF IInv, TypeOK, StoreTypeOK, Result, Call
  <2> QED BY <1>2, <1>3, <1>4, <2>1 DEF IInv, OnlyFinishedScansPersisted
<1>7. CachedAnswerIsAScan'
  <2>1. \A c \in Call : pc[c] = "done" => result[c].id \in Call
    BY DEF IInv, Local, Built, Result, Call
  <2> QED BY <1>3, <1>4, <2>1 DEF IInv, CachedAnswerIsAScan
<1> QED BY <1>1, <1>2, <1>5, <1>6, <1>7 DEF IInv

(* Every step keeps the inductive invariant.                               *)
LEMMA InvStep == IInv /\ [Next]_vars => IInv'
BY InvCallStep, InvOtherStep DEF Next

(* The inductive invariant holds throughout.                               *)
THEOREM Invariant == Spec => []IInv
BY InvInit, InvStep, PTL DEF Spec

-----------------------------------------------------------------------------
(* The properties.                                                         *)

(* The variables keep their types.                                         *)
THEOREM TypeCorrect == Spec => []TypeOK
BY Invariant, PTL DEF IInv

(* Only scans that ran to their end inside their deadline are persisted.   *)
THEOREM PersistedScansFinished == Spec => []OnlyFinishedScansPersisted
BY Invariant, PTL DEF IInv

(* A cached answer is a finished scan of the package asked for.            *)
THEOREM CachedAnswersAreScans == Spec => []CachedAnswerIsAScan
BY Invariant, PTL DEF IInv

(* The history of the pipeline's store holds the newest scans.             *)
THEOREM PipelineHistoryIsNewest == Spec => []HistoryKeepsNewest
BY Invariant, PTL DEF IInv, StoreInv

(* What the invariant says of the gaps.                                    *)
LEMMA InvGivesCauses == IInv => EveryGapHasACause
<1>1. ASSUME IInv, NEW c \in Call, pc[c] = "done", source[c] = "scan"
      PROVE  /\ Scanned(c) /\ AfterClaude(c) /\ AfterHeuristic(c)
             /\ AfterCVE(c) /\ AfterBadlist(c)
             /\ result[c].findings = findings[c] /\ Tiers(c)
  BY <1>1 DEF IInv, Local, Built, Scanned, AfterClaude, AfterHeuristic, AfterCVE,
    AfterBadlist
<1> QED BY <1>1 DEF EveryGapHasACause, Tiers, Looked, Said, TierFindings

(* A finding is missing from a scan only for a reason the call recorded.   *)
THEOREM GapsHaveCauses == Spec => []EveryGapHasACause
BY InvGivesCauses, Invariant, PTL

(* What the invariant says of the known-bad.                               *)
LEMMA InvGivesVerdicts == IInv => KnownBadNeverAllowed
<1>1. ASSUME NEW m, NEW fs, HasCriticalOrBlock(fs)
      PROVE  /\ ComputeVerdict(m, fs) # "allow"
             /\ m = "enforce" => ComputeVerdict(m, fs) = "block"
  BY <1>1 DEF ComputeVerdict
<1>2. ASSUME IInv, NEW c \in Call, pc[c] = "done", source[c] = "scan",
             \A l \in inForce[c] : HasCriticalOrBlock(BadlistFindings[l][pkg[c]])
      PROVE  /\ result[c].verdict # "allow"
             /\ Modes = {"enforce"} => result[c].verdict = "block"
  <2>1. PICK l \in inForce[c] : BadlistFindings[l][pkg[c]] \subseteq findings[c]
    BY <1>2 DEF IInv, Local, Tiers, Scanned, AfterClaude, AfterHeuristic,
      AfterCVE, AfterBadlist, Looked
  <2>2. HasCriticalOrBlock(findings[c])
    BY <1>2, <2>1 DEF HasCriticalOrBlock
  <2>3. PICK m \in Modes : result[c].verdict = ComputeVerdict(m, findings[c])
    BY <1>2 DEF IInv, Local, Built, Scanned
  <2> QED BY <1>1, <2>2, <2>3
<1>3. ASSUME IInv PROVE KnownBadNeverAllowed
  <2> SUFFICES ASSUME NEW c \in Call, pc[c] = "done", source[c] # "exception",
                      \A l \in inForce[result[c].id] :
                        HasCriticalOrBlock(BadlistFindings[l][pkg[c]])
               PROVE  /\ result[c].verdict # "allow"
                      /\ Modes = {"enforce"} => result[c].verdict = "block"
    BY DEF KnownBadNeverAllowed
  <2>1. CASE source[c] = "scan"
    <3>1. result[c].id = c
      BY <1>3, <2>1 DEF IInv, Local, Built, Scanned
    <3> QED BY <1>2, <1>3, <2>1, <3>1
  <2>2. CASE source[c] = "cache"
    <3> DEFINE d == result[c].id
    <3>1. d \in Call
      BY <1>3 DEF IInv, Local, Built, Result, Call
    <3>2. /\ pkg[d] = pkg[c] /\ pc[d] = "done" /\ source[d] = "scan"
          /\ result[d] = result[c]
      BY <1>3, <2>2 DEF IInv, CachedAnswerIsAScan
    <3> QED BY <1>2, <1>3, <3>1, <3>2
  <2> QED BY <1>3, <2>1, <2>2 DEF IInv, Local, Built, TypeOK, Source
<1> QED BY <1>3

(* Whatever fails, a known-bad package is not allowed without an exception *)
(* and is blocked where only enforce mode ever ran.                        *)
THEOREM KnownBadIsNotAllowed == Spec => []KnownBadNeverAllowed
BY InvGivesVerdicts, Invariant, PTL

(* No cached verdict is served past its lifetime.                          *)
THEOREM CachedAnswersAreFresh == Spec => CachedAnswerIsFresh
<1> DEFINE Fresh ==
      \A c \in Call : Answered(c) /\ source'[c] = "cache" =>
        now < result'[c].scannedAt + TTL(result'[c].verdict)
<1>1. ASSUME IInv, NEW c \in Call, CacheHit(c)
      PROVE  now < result'[c].scannedAt + TTL(result'[c].verdict)
  <2>1. /\ cache[pkg[c]] # NoRow /\ cache[pkg[c]].expiresAt > now
        /\ result'[c] = cache[pkg[c]].result /\ pkg[c] \in Packages
    BY <1>1 DEF CacheHit, IsCached, Answer, IInv, TypeOK
  <2>2. cache[pkg[c]].expiresAt = result'[c].scannedAt + TTL(result'[c].verdict)
    BY <1>1, <2>1 DEF IInv, StoreInv, CacheLifeFromScan
  <2>3. now \in Nat /\ cache[pkg[c]].expiresAt \in Nat
    BY <1>1, <2>1 DEF IInv, TypeOK, StoreTypeOK, CacheRow
  <2> QED BY <2>1, <2>2, <2>3
<1>2. ASSUME IInv, [Next]_vars PROVE [Fresh]_vars
  <2> SUFFICES ASSUME NEW c \in Call, Answered(c), source'[c] = "cache"
               PROVE  now < result'[c].scannedAt + TTL(result'[c].verdict)
    OBVIOUS
  <2>1. ~(RefreshList \/ Restart \/ Environment \/ UNCHANGED vars)
    BY DEF Answered, RefreshList, Restart, Environment, vars, callVars
  <2>2. PICK d \in Call : Begin(d) \/ Advance(d) \/ Deadline(d)
    BY <1>2, <2>1 DEF Next
  <2>3. c = d
    BY <1>2, <2>2, Others DEF Answered, IInv
  <2>4. CacheHit(c)
    BY <1>2, <2>2, <2>3 DEF Answered, Begin, Advance, Deadline, CacheMiss,
      CacheFails, Excepted, NotExcepted, ExceptionFails, Badlist, CVE, CVEFails,
      Heuristic, HeuristicFails, NoHeuristic, Claude, ClaudeFails, NoClaude,
      BuildResult, Save, SaveFails, Answer, IInv, TypeOK
  <2> QED BY <1>1, <1>2, <2>4
<1> QED BY <1>2, Invariant, PTL DEF CachedAnswerIsFresh, Spec

-----------------------------------------------------------------------------
(* What those who call the pipeline know of its answers.                   *)

(* No step changes what a call is about.                                   *)
LEMMA CallsAreFixed ==
  ASSUME [Next]_vars
  PROVE  pkg' = pkg /\ tarball' = tarball
<1>1. ASSUME NEW c \in Call, Begin(c) \/ Advance(c) \/ Deadline(c)
      PROVE  pkg' = pkg /\ tarball' = tarball
  BY <1>1 DEF Begin, Advance, Deadline, CacheHit, CacheMiss, CacheFails, Excepted,
    NotExcepted, ExceptionFails, Badlist, CVE, CVEFails, Heuristic, HeuristicFails,
    NoHeuristic, Claude, ClaudeFails, NoClaude, BuildResult, Save, SaveFails
<1> QED BY <1>1 DEF Next, RefreshList, Restart, Environment, vars, callVars

(* An answered call stays as it is.                                        *)
LEMMA AnswerIsFinal ==
  ASSUME IInv, [Next]_vars, NEW c \in Call, pc[c] = "done"
  PROVE  pc'[c] = "done" /\ result'[c] = result[c] /\ source'[c] = source[c]
<1>1. ASSUME NEW d \in Call, Begin(d) \/ Advance(d) \/ Deadline(d)
      PROVE  pc'[c] = "done" /\ result'[c] = result[c] /\ source'[c] = source[c]
  BY <1>1, DoneIsFinal, Others DEF IInv
<1> QED BY <1>1 DEF Next, RefreshList, Restart, Environment, vars, callVars, Running

(* A verdict that blocks has its reason among the findings, wherever the   *)
(* answer comes from.                                                      *)
LEMMA BlockHasAFinding ==
  ASSUME IInv, NEW c \in Call, pc[c] = "done",
         result[c].verdict = "block"
  PROVE  HasCriticalOrBlock(result[c].findings)
<1>1. ASSUME NEW d \in Call, pc[d] = "done", source[d] = "scan",
             result[d].verdict = "block"
      PROVE  HasCriticalOrBlock(result[d].findings)
  BY <1>1 DEF IInv, Local, Built, Scanned, ComputeVerdict
<1>2. source[c] \in {"cache", "scan"}
  BY DEF IInv, Local, Built, TypeOK, Source
<1>3. CASE source[c] = "cache"
  <2>1. result[c].id \in Call
    BY DEF IInv, Local, Built, Result, Call
  <2> QED BY <1>1, <1>3, <2>1 DEF IInv, CachedAnswerIsAScan
<1> QED BY <1>1, <1>2, <1>3

-----------------------------------------------------------------------------
(* Refinement: to its database, the pipeline is one more reporter.         *)

(* A scan carries a time of the past.                                      *)
Timely == \A c \in Call : Scanned(c) => result[c].scannedAt <= now

(* A call that has its own scan either just built it or had it before.     *)
LEMMA ScannedStep ==
  ASSUME TypeOK, NEW c \in Call, Begin(c) \/ Advance(c) \/ Deadline(c),
         Scanned(c)'
  PROVE  \/ result'[c].scannedAt = now
         \/ Scanned(c) /\ result'[c] = result[c]
<1> USE DEF TypeOK, GoTo, Scanned, Running
<1>1. CASE Begin(c) \/ CacheMiss(c) \/ CacheFails(c) \/ NotExcepted(c) \/ ExceptionFails(c)
  BY <1>1 DEF Begin, CacheMiss, CacheFails, NotExcepted, ExceptionFails
<1>2. CASE CacheHit(c) \/ Excepted(c)
  BY <1>2 DEF CacheHit, Excepted, Answer
<1>3. CASE Badlist(c) \/ CVE(c) \/ CVEFails(c)
  BY <1>3 DEF Badlist, CVE, CVEFails
<1>4. CASE Heuristic(c) \/ HeuristicFails(c) \/ NoHeuristic(c)
  BY <1>4 DEF Heuristic, HeuristicFails, NoHeuristic
<1>5. CASE Claude(c) \/ ClaudeFails(c) \/ NoClaude(c)
  BY <1>5 DEF Claude, ClaudeFails, NoClaude
<1>6. CASE BuildResult(c)
  BY <1>6 DEF BuildResult
<1>7. CASE Save(c) \/ SaveFails(c)
  BY <1>7 DEF Save, SaveFails, Answer
<1>8. CASE Deadline(c)
  BY <1>8 DEF Deadline
<1> QED BY <1>1, <1>2, <1>3, <1>4, <1>5, <1>6, <1>7, <1>8 DEF Advance

(* The clock stands still while a call steps.                              *)
LEMMA CallKeepsTime ==
  ASSUME NEW c \in Call, Begin(c) \/ Advance(c) \/ Deadline(c)
  PROVE  now' = now
<1>1. CASE Save(c)
  BY <1>1 DEF Save, SaveResult
<1>2. CASE ~Save(c)
  BY <1>2, CallWrites DEF storeVars
<1> QED BY <1>1, <1>2

(* No step dates a scan into the future.                                   *)
LEMMA TimelyStep == IInv /\ Timely /\ [Next]_vars => Timely'
<1> SUFFICES ASSUME IInv, Timely, [Next]_vars, NEW d \in Call, Scanned(d)'
             PROVE  result'[d].scannedAt <= now'
  BY DEF Timely
<1> USE DEF IInv, TypeOK, StoreTypeOK
<1>1. ASSUME NEW c \in Call, Begin(c) \/ Advance(c) \/ Deadline(c)
      PROVE  result'[d].scannedAt <= now'
  <2>1. now' = now
    BY <1>1, CallKeepsTime
  <2>2. CASE d = c
    BY <1>1, <2>1, <2>2, ScannedStep DEF Timely
  <2>3. CASE d # c
    BY <1>1, <2>1, <2>3, Others DEF Timely, Scanned
  <2> QED BY <2>2, <2>3
<1>2. ASSUME Scanned(d), result'[d] = result[d], now' >= now, now' \in Nat
      PROVE  result'[d].scannedAt <= now'
  <2>1. result[d].scannedAt \in Nat /\ result[d].scannedAt <= now
    BY <1>2 DEF Timely, Local, Built, Result
  <2> QED BY <1>2, <2>1
<1>3. CASE RefreshList \/ Restart
  BY <1>2, <1>3 DEF RefreshList, Restart, callVars, Scanned, Running, storeVars
<1>4. CASE Environment
  <2>1. now' >= now /\ now' \in Nat
    BY <1>4 DEF Environment, Administer, AddException, DeleteException,
      PruneHistory, Tick
  <2> QED BY <1>2, <1>4, <2>1 DEF Environment, callVars, Scanned
<1>5. CASE UNCHANGED vars
  BY <1>2, <1>5 DEF vars, callVars, storeVars, Scanned
<1> QED BY <1>1, <1>3, <1>4, <1>5 DEF Next

(* What a call saves, a reporting proxy could have reported.               *)
LEMMA SaveIsReport ==
  ASSUME IInv, Timely, NEW c \in Call, Save(c)
  PROVE  Report
<1> DEFINE r == result[c]
<1>1. r \in Result /\ \A s \in saved : s.id # r.id
  BY SavedIsNew
<1>2. Scanned(c)
  BY DEF Save, GoTo, Scanned
<1>3. /\ r.id = c /\ r.pkg = pkg[c] /\ r.findings = findings[c]
      /\ \E m \in Modes : r.verdict = ComputeVerdict(m, findings[c])
  BY <1>2 DEF IInv, Local, Built
<1>4. PICK m \in Mode : r.verdict = ComputeVerdict(m, r.findings)
  BY <1>3, ModesAssumption
<1>5. r.scannedAt \in 0..now
  <2>1. r.scannedAt <= now
    BY <1>2 DEF Timely
  <2>2. r.scannedAt \in Nat /\ now \in Nat
    BY <1>1 DEF Result, IInv, TypeOK, StoreTypeOK
  <2> QED BY <2>1, <2>2
<1>6. r = [id |-> r.id, pkg |-> r.pkg, verdict |-> ComputeVerdict(m, r.findings),
           findings |-> r.findings, scannedAt |-> r.scannedAt]
  BY <1>1, <1>4 DEF Result
<1>7. r.id \in ScanIds /\ r.pkg \in Packages /\ r.findings \in SUBSET Findings
  BY <1>1 DEF Result
<1>8. SaveResult(r)
  BY DEF Save
<1> QED BY <1>1, <1>4, <1>5, <1>6, <1>7, <1>8 DEF Report

(* The pipeline implements the store specification: its concurrent calls,  *)
(* failures and restarts do to the database nothing that StoreSpec does    *)
(* not allow.                                                              *)
THEOREM PipelineImplementsStore == Spec => ImplementsStore
<1>1. Init => StoreInit /\ Timely
  BY DEF Init, Timely, Scanned
<1>2. ASSUME IInv, Timely, [Next]_vars PROVE [StoreNext]_storeVars
  <2>1. ASSUME NEW c \in Call, Begin(c) \/ Advance(c) \/ Deadline(c)
        PROVE  [StoreNext]_storeVars
    <3>1. CASE Save(c)
      BY <1>2, <3>1, SaveIsReport DEF StoreNext
    <3>2. CASE ~Save(c)
      BY <2>1, <3>2, CallWrites
    <3> QED BY <3>1, <3>2
  <2>2. CASE RefreshList \/ Restart
    BY <2>2 DEF RefreshList, Restart
  <2>3. CASE Environment
    BY <2>3 DEF Environment, StoreNext
  <2>4. CASE UNCHANGED vars
    BY <2>4 DEF vars
  <2> QED BY <1>2, <2>1, <2>2, <2>3, <2>4 DEF Next
<1> QED BY <1>1, <1>2, TimelyStep, Invariant, PTL DEF Spec, StoreSpec, ImplementsStore
=============================================================================
