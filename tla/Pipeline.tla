------------------------------ MODULE Pipeline ------------------------------
(***************************************************************************)
(* Concurrent calls of Pipeline.Analyze (internal/pipeline/pipeline.go)    *)
(* over one ScanStore.  The HTTP handlers, the proxy connections and the   *)
(* background recording of name blocks all call Analyze from goroutines of *)
(* their own, with no lock and no single flight between them: the calls    *)
(* interleave at every store access and tier.                              *)
(*                                                                         *)
(* A call is named by the scan id it would draw (newScanID).  What a tier  *)
(* answers for a package is a constant; a tier or a store access may fail  *)
(* instead, at the points in Faults.  A process restart kills the calls in *)
(* flight and may change the mode, while the database stays.  The list of  *)
(* tier 1 is swapped under the calls whenever a refresh succeeds.          *)
(***************************************************************************)
EXTENDS ScanStore

CONSTANTS
  Lists,               \* known-bad lists: the embedded one, and what its URL serves
  BadlistFindings,     \* tier 1, per list and package
  CVEFindings,         \* tier 2
  HeuristicFindings,   \* tier 3
  ClaudeFindings,      \* tier 4
  HeuristicScore,      \* the score AnalyzeFull returns
  ClaudeTriggerScore,
  ClaudeEnabled,       \* the claude analyzer is not nil
  NoContent,           \* packages the Claude tier answers ErrNoContent for
  Modes,               \* modes the process is started in
  Faults,              \* points that may fail in this instance
  NoResult             \* a call without a result yet

ASSUME TiersAssumption ==
  /\ BadlistFindings \in [Lists -> [Packages -> SUBSET Findings]]
  /\ CVEFindings \in [Packages -> SUBSET Findings]
  /\ HeuristicFindings \in [Packages -> SUBSET Findings]
  /\ ClaudeFindings \in [Packages -> SUBSET Findings]
  /\ HeuristicScore \in [Packages -> Nat]
  /\ ClaudeTriggerScore \in Nat
  /\ ClaudeEnabled \in BOOLEAN
  /\ NoContent \subseteq Packages
ASSUME ModesAssumption == Modes \subseteq Mode
ASSUME NoResultAssumption == NoResult \notin Result

(* Every point whose failure Analyze logs and swallows, and the expiry of  *)
(* the caller's context.                                                   *)
FaultPoint ==
  {"cache", "exception", "cve", "heuristic", "claude", "save", "deadline"}
ASSUME FaultsAssumption == Faults \subseteq FaultPoint

VARIABLES
  mode,          \* cfg.Mode of the running process
  list,          \* liveAnalyzer.current
  inForce,       \* auxiliary: the lists in force from the begin of a call until
                 \* it looked at one
  pc,            \* where each call is
  pkg,           \* its pkg argument
  tarball,       \* len(tarball) > 0
  findings,      \* allFindings
  claudeNeeded,
  failed,        \* auxiliary: the failures it met
  result,        \* the *ScanResult it built or returned
  source         \* auxiliary: which return statement answered

callVars == <<pc, pkg, tarball, findings, claudeNeeded, failed, result, source>>
process == <<mode, list, inForce>>
vars == <<storeVars, process, callVars>>

Call == ScanIds
Running ==
  {"cache", "exception", "badlist", "cve", "heuristic", "claude", "verdict", "save"}
Source == {"cache", "exception", "scan"}

TypeOK ==
  /\ StoreTypeOK
  /\ mode \in Mode
  /\ list \in Lists
  /\ inForce \in [Call -> SUBSET Lists]
  /\ pc \in [Call -> Running \cup {"idle", "done", "killed"}]
  /\ pkg \in [Call -> Packages]
  /\ tarball \in [Call -> BOOLEAN]
  /\ findings \in [Call -> SUBSET Findings]
  /\ claudeNeeded \in [Call -> BOOLEAN]
  /\ failed \in [Call -> SUBSET FaultPoint]
  /\ result \in [Call -> Result \cup {NoResult}]
  /\ source \in [Call -> Source \cup {"none"}]

Init ==
  /\ StoreInit
  /\ mode \in Modes
  /\ list \in Lists
  /\ inForce = [c \in Call |-> {}]
  /\ pc = [c \in Call |-> "idle"]
  /\ pkg \in [Call -> Packages]
  /\ tarball \in {t \in [Call -> BOOLEAN] :
                    \A c \in Call : t[c] => pkg[c].version # NoVersion}
  /\ findings = [c \in Call |-> {}]
  /\ claudeNeeded = [c \in Call |-> FALSE]
  /\ failed = [c \in Call |-> {}]
  /\ result = [c \in Call |-> NoResult]
  /\ source = [c \in Call |-> "none"]

-----------------------------------------------------------------------------
(* Steps of a call.                                                        *)

GoTo(c, from, to) ==
  /\ pc[c] = from
  /\ pc' = [pc EXCEPT ![c] = to]

(* The caller's context has not expired: store and network calls use it.   *)
InTime(c) == "deadline" \notin failed[c]

Fails(c, point) ==
  /\ point \in Faults \/ ~InTime(c)
  /\ failed' = [failed EXCEPT ![c] = @ \cup {point}]

Answer(c, r, from) ==
  /\ result' = [result EXCEPT ![c] = r]
  /\ source' = [source EXCEPT ![c] = from]

Collect(c, fs, trigger) ==
  /\ findings' = [findings EXCEPT ![c] = @ \cup fs]
  /\ claudeNeeded' = [claudeNeeded EXCEPT ![c] = @ \/ trigger]

(* Analyze is called, with the arguments fixed in Init.                    *)
Begin(c) ==
  /\ GoTo(c, "idle", "cache")
  /\ inForce' = [inForce EXCEPT ![c] = {list}]
  /\ UNCHANGED <<storeVars, mode, list, pkg, tarball, findings, claudeNeeded,
                 failed, result, source>>

(* Mutant: a hit renews the row.                                           *)
CacheHit_Renews(c) ==
  /\ InTime(c) /\ IsCached(pkg[c])
  /\ GoTo(c, "cache", "done")
  /\ Answer(c, cache[pkg[c]].result, "cache")
  /\ cache' = [cache EXCEPT ![pkg[c]].expiresAt = now + TTL(cache[pkg[c]].result.verdict)]
  /\ UNCHANGED <<history, dismissals, exceptions, now, saved>>
  /\ UNCHANGED <<process, pkg, tarball, findings, claudeNeeded, failed>>

CacheHit(c) ==
  /\ InTime(c) /\ IsCached(pkg[c])
  /\ GoTo(c, "cache", "done")
  /\ Answer(c, cache[pkg[c]].result, "cache")
  /\ UNCHANGED <<storeVars, process, pkg, tarball, findings, claudeNeeded, failed>>

CacheMiss(c) ==
  /\ InTime(c) /\ ~IsCached(pkg[c])
  /\ GoTo(c, "cache", "exception")
  /\ UNCHANGED <<storeVars, process, pkg, tarball, findings, claudeNeeded, failed,
                 result, source>>

(* A lookup error counts as a miss.                                        *)
CacheFails(c) ==
  /\ Fails(c, "cache")
  /\ GoTo(c, "cache", "exception")
  /\ UNCHANGED <<storeVars, process, pkg, tarball, findings, claudeNeeded, result,
                 source>>

(* The answer is built on the spot and never saved.                        *)
Excepted(c) ==
  /\ InTime(c) /\ MatchingExceptions(pkg[c]) # {}
  /\ GoTo(c, "exception", "done")
  /\ Answer(c, [id |-> c, pkg |-> pkg[c], verdict |-> "allow", findings |-> {},
                scannedAt |-> now], "exception")
  /\ UNCHANGED <<storeVars, process, pkg, tarball, findings, claudeNeeded, failed>>

NotExcepted(c) ==
  /\ InTime(c) /\ MatchingExceptions(pkg[c]) = {}
  /\ GoTo(c, "exception", "badlist")
  /\ UNCHANGED <<storeVars, process, pkg, tarball, findings, claudeNeeded, failed,
                 result, source>>

(* A lookup error counts as no exception.                                  *)
ExceptionFails(c) ==
  /\ Fails(c, "exception")
  /\ GoTo(c, "exception", "badlist")
  /\ UNCHANGED <<storeVars, process, pkg, tarball, findings, claudeNeeded, result,
                 source>>

(* Mutant: one refresh behind, with two lists.                             *)
Badlist_OneBehind(c) ==
  /\ GoTo(c, "badlist", "cve")
  /\ LET fs == BadlistFindings[CHOOSE l \in Lists : l # list][pkg[c]]
     IN  Collect(c, fs, HasCriticalOrBlock(fs))
  /\ UNCHANGED <<storeVars, process, pkg, tarball, failed, result, source>>

(* Tier 1 is in memory, heeds no context and cannot fail.  The current list*)
(* is taken once, under the lock.                                          *)
Badlist(c) ==
  /\ GoTo(c, "badlist", "cve")
  /\ LET fs == BadlistFindings[list][pkg[c]]
     IN  Collect(c, fs, HasCriticalOrBlock(fs))
  /\ UNCHANGED <<storeVars, process, pkg, tarball, failed, result, source>>

(* Mutant: a call with a tarball relies on an earlier one without.         *)
CVE_FirstPass(c) ==
  /\ InTime(c)
  /\ GoTo(c, "cve", "heuristic")
  /\ Collect(c, IF tarball[c] THEN {} ELSE CVEFindings[pkg[c]],
             HasHighCVSS(CVEFindings[pkg[c]]))
  /\ UNCHANGED <<storeVars, process, pkg, tarball, failed, result, source>>

CVE(c) ==
  /\ InTime(c)
  /\ GoTo(c, "cve", "heuristic")
  /\ Collect(c, CVEFindings[pkg[c]], HasHighCVSS(CVEFindings[pkg[c]]))
  /\ UNCHANGED <<storeVars, process, pkg, tarball, failed, result, source>>

(* An error, or an answer that is not a list of vulnerabilities: the client*)
(* does not look at the status, and decodes any JSON object as an empty    *)
(* list.                                                                   *)
CVEFails(c) ==
  /\ Fails(c, "cve")
  /\ GoTo(c, "cve", "heuristic")
  /\ UNCHANGED <<storeVars, process, pkg, tarball, findings, claudeNeeded, result,
                 source>>

(* Mutant: the trigger score must be exceeded.                             *)
Heuristic_Above(c) ==
  /\ tarball[c]
  /\ GoTo(c, "heuristic", "claude")
  /\ Collect(c, HeuristicFindings[pkg[c]],
             HeuristicScore[pkg[c]] > ClaudeTriggerScore)
  /\ UNCHANGED <<storeVars, process, pkg, tarball, failed, result, source>>

(* Tier 3 works on the bytes in memory: an expired context does not stop   *)
(* it.                                                                     *)
Heuristic(c) ==
  /\ tarball[c]
  /\ GoTo(c, "heuristic", "claude")
  /\ Collect(c, HeuristicFindings[pkg[c]],
             HeuristicScore[pkg[c]] >= ClaudeTriggerScore)
  /\ UNCHANGED <<storeVars, process, pkg, tarball, failed, result, source>>

(* An error, or an archive that AnalyzeFull cannot unpack and returns      *)
(* nothing for.                                                            *)
HeuristicFails(c) ==
  /\ tarball[c] /\ "heuristic" \in Faults
  /\ GoTo(c, "heuristic", "claude")
  /\ failed' = [failed EXCEPT ![c] = @ \cup {"heuristic"}]
  /\ UNCHANGED <<storeVars, process, pkg, tarball, findings, claudeNeeded, result,
                 source>>

NoHeuristic(c) ==
  /\ ~tarball[c]
  /\ GoTo(c, "heuristic", "claude")
  /\ UNCHANGED <<storeVars, process, pkg, tarball, findings, claudeNeeded, failed,
                 result, source>>

ClaudeDue(c) == claudeNeeded[c] /\ ClaudeEnabled /\ tarball[c]

Claude(c) ==
  /\ ClaudeDue(c) /\ InTime(c) /\ pkg[c] \notin NoContent
  /\ GoTo(c, "claude", "verdict")
  /\ findings' = [findings EXCEPT ![c] = @ \cup ClaudeFindings[pkg[c]]]
  /\ UNCHANGED <<storeVars, process, pkg, tarball, claudeNeeded, failed, result,
                 source>>

ClaudeFails(c) ==
  /\ ClaudeDue(c) /\ pkg[c] \notin NoContent
  /\ Fails(c, "claude")
  /\ GoTo(c, "claude", "verdict")
  /\ UNCHANGED <<storeVars, process, pkg, tarball, findings, claudeNeeded, result,
                 source>>

(* Mutant: a call that needs Claude waits for it, tarball or not.          *)
NoClaude_Unneeded(c) ==
  /\ ~claudeNeeded[c]
  /\ GoTo(c, "claude", "verdict")
  /\ UNCHANGED <<storeVars, process, pkg, tarball, findings, claudeNeeded, failed,
                 result, source>>

(* Not needed, not configured, no tarball, or ErrNoContent.                *)
NoClaude(c) ==
  /\ ~ClaudeDue(c) \/ pkg[c] \in NoContent
  /\ GoTo(c, "claude", "verdict")
  /\ UNCHANGED <<storeVars, process, pkg, tarball, findings, claudeNeeded, failed,
                 result, source>>

BuildResult(c) ==
  /\ GoTo(c, "verdict", "save")
  /\ result' = [result EXCEPT ![c] =
       [id |-> c, pkg |-> pkg[c], verdict |-> ComputeVerdict(mode, findings[c]),
        findings |-> findings[c], scannedAt |-> now]]
  /\ UNCHANGED <<storeVars, process, pkg, tarball, findings, claudeNeeded, failed,
                 source>>

(* Mutant: saved with a context that does not expire.                      *)
Save_Detached(c) ==
  /\ GoTo(c, "save", "done")
  /\ SaveResult(result[c])
  /\ Answer(c, result[c], "scan")
  /\ UNCHANGED <<process, pkg, tarball, findings, claudeNeeded, failed>>

Save(c) ==
  /\ InTime(c)
  /\ GoTo(c, "save", "done")
  /\ SaveResult(result[c])
  /\ Answer(c, result[c], "scan")
  /\ UNCHANGED <<process, pkg, tarball, findings, claudeNeeded, failed>>

(* The answer is returned all the same.                                    *)
SaveFails(c) ==
  /\ Fails(c, "save")
  /\ GoTo(c, "save", "done")
  /\ Answer(c, result[c], "scan")
  /\ UNCHANGED <<storeVars, process, pkg, tarball, findings, claudeNeeded>>

Advance(c) ==
  \/ CacheHit(c) \/ CacheMiss(c) \/ CacheFails(c)
  \/ Excepted(c) \/ NotExcepted(c) \/ ExceptionFails(c)
  \/ Badlist(c)
  \/ CVE(c) \/ CVEFails(c)
  \/ Heuristic(c) \/ HeuristicFails(c) \/ NoHeuristic(c)
  \/ Claude(c) \/ ClaudeFails(c) \/ NoClaude(c)
  \/ BuildResult(c) \/ Save(c) \/ SaveFails(c)

(* The caller's context expires or is cancelled.                           *)
Deadline(c) ==
  /\ "deadline" \in Faults
  /\ pc[c] \in Running /\ InTime(c)
  /\ failed' = [failed EXCEPT ![c] = @ \cup {"deadline"}]
  /\ UNCHANGED <<storeVars, process, pc, pkg, tarball, findings, claudeNeeded,
                 result, source>>

-----------------------------------------------------------------------------
(* The rest of the process.                                                *)

(* A fetched list that parses replaces the current one; any failure keeps  *)
(* it, which is a stuttering step.  A call that has not yet looked at tier *)
(* 1 may look at either.                                                   *)
RefreshList ==
  /\ list' \in Lists
  /\ inForce' = [c \in Call |->
       IF pc[c] \in {"cache", "exception", "badlist"} THEN inForce[c] \cup {list'}
       ELSE inForce[c]]
  /\ UNCHANGED <<storeVars, mode, callVars>>

(* The process dies and comes back, perhaps configured differently, with   *)
(* the embedded list or one that it fetches before it serves.              *)
Restart ==
  /\ mode' \in Modes
  /\ list' \in Lists
  /\ pc' = [c \in Call |-> IF pc[c] \in Running THEN "killed" ELSE pc[c]]
  /\ UNCHANGED <<storeVars, inForce, pkg, tarball, findings, claudeNeeded, failed,
                 result, source>>

Environment ==
  /\ Administer \/ PruneHistory \/ Tick
  /\ UNCHANGED <<process, callVars>>

Next ==
  \/ \E c \in Call : Begin(c) \/ Advance(c) \/ Deadline(c)
  \/ RefreshList
  \/ Restart
  \/ Environment

Spec == Init /\ [][Next]_vars

-----------------------------------------------------------------------------
(* Properties.                                                             *)

(* What the trigger conditions say of a package under list l when the tiers*)
(* in "lost" have failed.                                                  *)
ClaudeTriggered(p, l, lost) ==
  \/ HasCriticalOrBlock(BadlistFindings[l][p])
  \/ "cve" \notin lost /\ HasHighCVSS(CVEFindings[p])
  \/ "heuristic" \notin lost /\ HeuristicScore[p] >= ClaudeTriggerScore

(* Failures never hide: what a tier would have found is in the result of a *)
(* scan unless that tier failed, there was no tarball for it, or (tier 4)  *)
(* nothing that survived asked for it; of tier 1, what some list says that *)
(* was in force meanwhile.  Nor does a result hold what no tier says of its*)
(* package.  Analyze carries on after every tier error, so a lost finding, *)
(* a dropped trigger or a wrong skip shows only here (pipeline.go, the four*)
(* tiers).                                                                 *)
EveryGapHasACause ==
  \A c \in Call : pc[c] = "done" /\ source[c] = "scan" =>
    LET p == pkg[c]  fs == result[c].findings
    IN  /\ CVEFindings[p] \subseteq fs \/ "cve" \in failed[c]
        /\ HeuristicFindings[p] \subseteq fs
             \/ ~tarball[c] \/ "heuristic" \in failed[c]
        /\ \E l \in inForce[c] :
             /\ BadlistFindings[l][p] \subseteq fs
             /\ fs \subseteq BadlistFindings[l][p] \cup CVEFindings[p]
                              \cup HeuristicFindings[p] \cup ClaudeFindings[p]
             /\ ClaudeFindings[p] \subseteq fs
                  \/ ~tarball[c] \/ ~ClaudeEnabled \/ p \in NoContent
                  \/ "claude" \in failed[c] \/ ~ClaudeTriggered(p, l, failed[c])

(* Only a scan that ran to its end inside its deadline reaches the cache   *)
(* or the history: not the answer of an exception, not the partial result  *)
(* of an expired call, not the work of a killed one (SaveResult is the     *)
(* last step and takes the caller's context).                              *)
OnlyFinishedScansPersisted ==
  /\ history \subseteq saved
  /\ \A r \in saved :
       /\ pc[r.id] = "done" /\ source[r.id] = "scan" /\ result[r.id] = r
       /\ failed[r.id] \cap {"save", "deadline"} = {}

(* To its database the pipeline is one more reporter: whatever the calls   *)
(* in flight do, the tables see the writes StoreSpec allows and no other   *)
(* (Analyze calls SaveResult once, with a result of its own, at the end).  *)
ImplementsStore == StoreSpec

(* A cached answer is some finished scan of the very package asked for.    *)
CachedAnswerIsAScan ==
  \A c \in Call : pc[c] = "done" /\ source[c] = "cache" =>
    LET d == result[c].id
    IN  /\ pkg[d] = pkg[c] /\ pc[d] = "done" /\ source[d] = "scan"
        /\ result[d] = result[c]

(* A package that every list condemned which the answering scan could look *)
(* at is never answered with allow, whatever fails, whatever is cached and *)
(* however the list is swapped under the calls, unless an exception was in *)
(* force; and in a deployment that only ever ran in enforce mode it is     *)
(* blocked.  Nothing an exception allowed may outlive it in the cache, no  *)
(* list outlives its replacement in a call that begins later               *)
(* (fetchAndSwap and Analyze).                                             *)
KnownBadNeverAllowed ==
  \A c \in Call :
    pc[c] = "done" /\ source[c] # "exception"
      /\ (\A l \in inForce[result[c].id] :
            HasCriticalOrBlock(BadlistFindings[l][pkg[c]])) =>
    /\ result[c].verdict # "allow"
    /\ Modes = {"enforce"} => result[c].verdict = "block"

Answered(c) == source[c] = "none" /\ source'[c] # "none"

(* A cached verdict is served only while it is younger than the lifetime   *)
(* of its kind, counted from the scan (GetCachedResult, expires_at > now). *)
CachedAnswerIsFresh ==
  [][\A c \in Call : Answered(c) /\ source'[c] = "cache" =>
       now < result'[c].scannedAt + TTL(result'[c].verdict)]_vars

-----------------------------------------------------------------------------
(* What the documentation says, each refuted by a run of its own.          *)

(* docs/faq.md: "Exceptions take effect immediately and are respected by   *)
(* all four analysis tiers."  Analyze looks in the cache before it looks   *)
(* for an exception.                                                       *)
ExceptionsTakeEffect ==
  [][\A c \in Call : Answered(c) /\ pc[c] = "cache"
       /\ MatchingExceptions(pkg[c]) # {} => result'[c].verdict = "allow"]_vars
=============================================================================
