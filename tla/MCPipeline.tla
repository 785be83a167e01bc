----------------------------- MODULE MCPipeline -----------------------------
(***************************************************************************)
(* Model values for Pipeline.  One name, asked for without a version (the  *)
(* recording of a name block) and at version v1.  The known-bad list       *)
(* matches the bare name, as Badlist.Analyze does when the version is      *)
(* empty; version v1 is off the list but has a CVE, suspicious code that   *)
(* the heuristics score above the trigger, and a payload Claude reports.   *)
(***************************************************************************)
EXTENDS Pipeline, TLC

CONSTANTS n1, v1, c1, c2, c3, l1, l2

bare == [name |-> n1, version |-> NoVersion]
atV1 == [name |-> n1, version |-> v1]

critical == [severity |-> "critical", highCVSS |-> FALSE]
highCVE  == [severity |-> "high", highCVSS |-> TRUE]
medium   == [severity |-> "medium", highCVSS |-> FALSE]

MCPackages == {bare, atV1}
MCOnlyV1 == {atV1}
MCFindings == {critical, highCVE, medium}
MCBadlist == [l \in Lists |-> [p \in Packages |->
                IF (p = bare) = (l = l1) THEN {critical} ELSE {}]]
MCCVE == [p \in Packages |-> IF p = atV1 THEN {highCVE} ELSE {}]
MCHeuristic == [p \in Packages |-> IF p = atV1 THEN {medium} ELSE {}]
MCClaude == [p \in Packages |-> IF p = atV1 THEN {critical} ELSE {}]
MCScore == [p \in Packages |-> IF p = atV1 THEN 30 ELSE 0]
MCNoFindings == [p \in Packages |-> {}]
MCSymmetry == Permutations(ScanIds)
=============================================================================
