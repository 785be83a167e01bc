------------------------------ MODULE MCProxy ------------------------------
(***************************************************************************)
(* Model values for Proxy: one name, listed as known bad at version v1 and *)
(* so by its bare name too; the CVE database knows version v1 as well.     *)
(***************************************************************************)
EXTENDS Proxy, TLC

CONSTANTS n1, v1, v2, c1, c2, l1, l2

bare == [name |-> n1, version |-> NoVersion]
atV1 == [name |-> n1, version |-> v1]

critical == [severity |-> "critical", highCVSS |-> FALSE]
highCVE  == [severity |-> "high", highCVSS |-> TRUE]

MCPackages == {bare, atV1}
MCOnlyV1 == {atV1}
MCOnlyBare == {bare}
MCFindings == {critical, highCVE}
MCBadlist == [l \in Lists |-> [p \in Packages |-> IF l = l1 THEN {critical} ELSE {}]]
MCNoList == [l \in Lists |-> [p \in Packages |-> {}]]
MCNothing == [p \in Packages |-> {}]
MCCVE == [p \in Packages |-> {highCVE}]
MCScore == [p \in Packages |-> 0]

(* In the server: one download, while the API looks the version up.        *)
MCServerInit ==
  /\ ProxyInit
  /\ kind[c1] = "download"
  /\ kind[c2] = "lookup" /\ ~tarball[c2]

MCServerSpec == MCServerInit /\ [][ProxyNext]_allVars
=============================================================================
