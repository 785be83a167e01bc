--------------------------- MODULE MCLockfileScan ---------------------------
(***************************************************************************)
(* Model values for LockfileScan: a package with a CVE and suspicious code *)
(* and one with neither.  The file lists any of the two and then the       *)
(* flagged one; the other call looks the flagged one up.                   *)
(***************************************************************************)
EXTENDS LockfileScan

CONSTANTS n1, n2, v1, a1, a2, b1, b2, other, l1

bad   == [name |-> n1, version |-> v1]
clean == [name |-> n2, version |-> v1]

highCVE == [severity |-> "high", highCVSS |-> TRUE]
medium  == [severity |-> "medium", highCVSS |-> FALSE]

MCPackages == {bad, clean}
MCOnlyBad == {bad}
MCFindings == {highCVE, medium}
MCNoList == [l \in Lists |-> [p \in Packages |-> {}]]
MCNoFindings == [p \in Packages |-> {}]
MCCVE == [p \in Packages |-> IF p = bad THEN {highCVE} ELSE {}]
MCHeuristic == [p \in Packages |-> IF p = bad THEN {medium} ELSE {}]
MCScore == [p \in Packages |-> IF p = bad THEN 30 ELSE 0]
MCFirst == [i \in 1..NumRefs |-> IF i = 1 THEN a1 ELSE b1]
MCSecond == [i \in 1..NumRefs |-> IF i = 1 THEN a2 ELSE b2]

MCLockInit ==
  /\ LockInit
  /\ pkg[b1] = bad /\ pkg[other] = bad /\ ~tarball[other]

MCLockSpec == MCLockInit /\ [][LockNext]_lockVars /\ LockFairness
=============================================================================
