---------------------------- MODULE LockfileScan ----------------------------
(***************************************************************************)
(* POST /api/v1/scan/lockfile (internal/api/handlers_scan.go,              *)
(* handleScanLockfile): one request that calls the pipeline for every      *)
(* package of a lock file, first without a tarball, then again with one    *)
(* for the packages that were flagged, under a single deadline, while      *)
(* other calls of the same pipeline go on.                                 *)
(*                                                                         *)
(* Package i of the file is analysed by the calls First[i] and Second[i].  *)
(***************************************************************************)
EXTENDS Pipeline, Sequences

CONSTANTS NumRefs, First, Second
ASSUME CallsAssumption ==
  /\ NumRefs \in Nat
  /\ First \in [1..NumRefs -> Call]
  /\ Second \in [1..NumRefs -> Call]
  /\ \A i, j \in 1..NumRefs :
       First[i] # Second[j] /\ (i # j => First[i] # First[j] /\ Second[i] # Second[j])

VARIABLES
  pass,       \* "first", "second", "answered", or "dropped" with the process
  at,         \* index of the loop of the pass, up to NumRefs + 1
  entries,    \* results, by index
  fetched     \* auxiliary: indices whose tarball was fetched

scanVars == <<pass, at, entries, fetched>>
lockVars == <<vars, scanVars>>

Refs == 1..NumRefs
ScanCalls == {First[i] : i \in Refs} \cup {Second[i] : i \in Refs}

LockInit ==
  /\ Init
  /\ \A i \in Refs :
       /\ pkg[First[i]] = pkg[Second[i]]
       /\ ~tarball[First[i]] /\ tarball[Second[i]]
  /\ pass = "first"
  /\ at = 1
  /\ entries = [i \in Refs |-> NoResult]
  /\ fetched = {}

-----------------------------------------------------------------------------
In(p) == pass = p /\ at <= NumRefs

Expired == \E c \in ScanCalls : ~InTime(c)

FirstCall ==
  /\ In("first") /\ Begin(First[at])
  /\ UNCHANGED scanVars

(* Analyze never returns an error: the entry is its result.                *)
FirstResult ==
  /\ In("first") /\ pc[First[at]] = "done"
  /\ entries' = [entries EXCEPT ![at] = result[First[at]]]
  /\ at' = at + 1
  /\ UNCHANGED <<vars, pass, fetched>>

SecondPass ==
  /\ pass = "first" /\ at > NumRefs
  /\ pass' = "second" /\ at' = 1
  /\ UNCHANGED <<vars, entries, fetched>>

(* Mutant: only an allowed package is passed over.                         *)
Skip_Allowed ==
  /\ In("second") /\ pc[Second[at]] = "idle" /\ entries[at].verdict = "allow"
  /\ at' = at + 1
  /\ UNCHANGED <<vars, pass, entries, fetched>>

(* An allowed package is done; so is one whose tarball cannot be fetched.  *)
Skip ==
  /\ In("second") /\ pc[Second[at]] = "idle"
  /\ at' = at + 1
  /\ UNCHANGED <<vars, pass, entries, fetched>>

(* FetchTarball uses the context of the request.                           *)
SecondCall ==
  /\ In("second") /\ entries[at].verdict # "allow" /\ ~Expired
  /\ Begin(Second[at])
  /\ fetched' = fetched \cup {at}
  /\ UNCHANGED <<pass, at, entries>>

(* Mutant: the result goes to the first entry.                             *)
SecondResult_First ==
  /\ In("second") /\ pc[Second[at]] = "done"
  /\ entries' = [entries EXCEPT ![1] = result[Second[at]]]
  /\ at' = at + 1
  /\ UNCHANGED <<vars, pass, fetched>>

SecondResult ==
  /\ In("second") /\ pc[Second[at]] = "done"
  /\ entries' = [entries EXCEPT ![at] = result[Second[at]]]
  /\ at' = at + 1
  /\ UNCHANGED <<vars, pass, fetched>>

AnswerScan ==
  /\ pass = "second" /\ at > NumRefs
  /\ pass' = "answered"
  /\ UNCHANGED <<vars, at, entries, fetched>>

(* The five minutes are over, or the client is gone: for the call at hand  *)
(* and for every later one.                                                *)
Expire ==
  /\ "deadline" \in Faults /\ pass \in {"first", "second"} /\ ~Expired
  /\ failed' = [c \in Call |-> IF c \in ScanCalls /\ pc[c] \in Running \cup {"idle"}
                               THEN failed[c] \cup {"deadline"} ELSE failed[c]]
  /\ UNCHANGED <<storeVars, process, pc, pkg, tarball, findings, claudeNeeded,
                 result, source, scanVars>>

(* A download or a lookup of somebody else's.                              *)
OtherCall ==
  /\ \E c \in Call \ ScanCalls : Begin(c) \/ Deadline(c)
  /\ UNCHANGED scanVars

PipelineStep ==
  /\ \E c \in Call : Advance(c)
  /\ UNCHANGED scanVars

Surroundings ==
  /\ Environment \/ RefreshList
  /\ UNCHANGED scanVars

ServerRestart ==
  /\ Restart
  /\ pass' = IF pass = "answered" THEN pass ELSE "dropped"
  /\ UNCHANGED <<at, entries, fetched>>

LockNext ==
  \/ FirstCall \/ FirstResult \/ SecondPass
  \/ Skip \/ SecondCall \/ SecondResult \/ AnswerScan \/ Expire
  \/ OtherCall \/ PipelineStep \/ Surroundings \/ ServerRestart

LockSpec == LockInit /\ [][LockNext]_lockVars

(* The handler's goroutine and those of its calls run on; the clients of   *)
(* the tiers and of the registry carry timeouts.                           *)
LockFairness ==
  /\ WF_lockVars(FirstCall \/ FirstResult \/ SecondPass \/ Skip \/ SecondCall
                   \/ SecondResult \/ AnswerScan)
  /\ \A c \in ScanCalls : WF_lockVars(Advance(c) /\ UNCHANGED scanVars)

-----------------------------------------------------------------------------
(* Properties.                                                             *)

(* The answer speaks of the packages of the file, each at its place, from  *)
(* scans of that very package, whichever of the two passes, the cache and  *)
(* the other calls they come from (handleScanLockfile).                    *)
EntriesMatchRefs ==
  \A i \in Refs : pass = "answered" \/ i < at \/ pass = "second" =>
    LET d == entries[i].id
    IN  entries[i].pkg = pkg[First[i]] /\ pkg[d] = pkg[First[i]]
        /\ source[d] \in {"scan", "exception"}

(* A package that the first pass flagged gravely is reported as allowed    *)
(* only by an exception, by a scan one of whose tiers failed, by one that  *)
(* had no tarball, or because the known-bad list was swapped: the second   *)
(* pass replaces the first result unconditionally, by a scan of its own or *)
(* by a row that anybody saved in between (handleScanLockfile, pass 2).    *)
FlagSurvivesRescan ==
  \A i \in Refs :
    /\ pass = "answered" /\ HasCriticalOrBlock(result[First[i]].findings)
    /\ entries[i].verdict = "allow"
    => LET d == entries[i].id
       IN  \/ source[d] = "exception" \/ ~tarball[d]
           \/ failed[d] \cap {"cve", "heuristic", "claude"} # {}
           \/ \E l, m \in inForce[result[First[i]].id] \cup inForce[d] : l # m

(* The request is answered unless the process dies, however its calls end  *)
(* and whatever deadline passes in whichever pass (handleScanLockfile).    *)
ScanIsAnswered == <>(pass \in {"answered", "dropped"})

(* handlers_scan.go: "for warn/block results fetch tarball and rescan      *)
(* (Tier 3+4)".  The first pass has just cached the result that the second *)
(* one asks for.                                                           *)
FlaggedAreRescanned ==
  pass = "answered" => \A i \in fetched :
    HeuristicFindings[pkg[Second[i]]] \subseteq entries[i].findings
=============================================================================
