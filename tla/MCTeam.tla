------------------------------- MODULE MCTeam -------------------------------
(* Model values for Team: one package, and a scan that warns or allows.    *)
EXTENDS Team, TLC

CONSTANTS n1, v1, s1, s2, s3

MCPackages == {[name |-> n1, version |-> v1]}
MCFindings == {[severity |-> "critical", highCVSS |-> FALSE]}
=============================================================================
