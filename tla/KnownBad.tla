------------------------------ MODULE KnownBad ------------------------------
(***************************************************************************)
(* Tier 1: the known-bad list and the typosquatting check                  *)
(* (internal/analyzer/badlist), for one ecosystem.                         *)
(*                                                                         *)
(* A name is a sequence of letters, since the check counts edits.          *)
(***************************************************************************)
EXTENDS Naturals, Sequences, FiniteSetsExt, Text, Verdicts

CONSTANTS
  MinTypoLength, \* names shorter than this are not checked, 5 in the code
  LongName       \* from this length on two edits count, 8 in the code

AnyVersion == "*"
EmptyVersion == ""

(* The table dp of the code; a match takes the diagonal unconditionally.   *)
EditDistance(a, b) ==
  LET dp[p \in (0..Len(a)) \X (0..Len(b))] ==
        LET i == p[1]  j == p[2]
        IN  IF i = 0 THEN j ELSE IF j = 0 THEN i
            ELSE IF a[i] = b[j] THEN dp[<<i - 1, j - 1>>]
            ELSE 1 + Min({dp[<<i - 1, j>>], dp[<<i, j - 1>>], dp[<<i - 1, j - 1>>]})
  IN  dp[<<Len(a), Len(b)>>]

(* The distance to the nearest popular name, 99 where there is none: for a *)
(* popular name itself, and for an empty list (an unknown ecosystem).      *)
TyposquatDistance(name, popular) ==
  IF name \in popular THEN 99
  ELSE Min({99} \cup {EditDistance(name, p) : p \in popular})

MaxTypoDistance(name) == IF Len(name) < LongName THEN 1 ELSE 2

MapSev(s) == IF s \in Severity THEN s ELSE "info"

(* Mutant: a name check sees only the entries for every version.           *)
Matches_WildcardOnly(entries, name, version) ==
  {e \in entries : /\ Lowered(e.name) = Lowered(name)
                   /\ e.version \in {AnyVersion, EmptyVersion, version}}

(* Entries under the lowered name; a name check matches all of them, a     *)
(* tarball check those for its version or for every version.               *)
Matches(entries, name, version) ==
  {e \in entries : /\ Lowered(e.name) = Lowered(name)
                   /\ \/ version = EmptyVersion
                      \/ e.version \in {AnyVersion, EmptyVersion, version}}

(* Analyze: the severities it finds; only without an entry is the name     *)
(* looked at as a typo.                                                    *)
KnownBadAnalyze(entries, popular, name, version) ==
  LET hits == {MapSev(e.severity) : e \in Matches(entries, name, version)}
  IN  IF /\ hits = {} /\ Len(name) >= MinTypoLength
         /\ TyposquatDistance(name, popular) <= MaxTypoDistance(name)
      THEN {"high"} ELSE hits
=============================================================================
