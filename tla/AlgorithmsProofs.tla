-------------------------- MODULE AlgorithmsProofs --------------------------
(***************************************************************************)
(* What the algorithms give for every input, not only for those within the *)
(* bounds: the loop of computeVerdict is the verdict that the other modules*)
(* compute with, for findings of any number and in any order; and what the *)
(* severities of OSV, the names of PyPI, package-lock.json and the retries *)
(* of the proxy come to.  Last, what one file more does to the score of an *)
(* archive, and that the table of editDistance counts edits.               *)
(***************************************************************************)
EXTENDS Algorithms, FiniteSetTheorems, SequenceTheorems, WellFoundedInduction, TLAPS
-----------------------------------------------------------------------------
(* The loop over the findings.                                             *)

(* The order of the numbers is well founded.                               *)
LEMMA NatOrder == IsWellFoundedOn({p \in Nat \X Nat : p[1] < p[2]}, Nat)
BY NatLessThanWellFounded DEF OpToRel

(* Induction over the numbers, as a fact about sets of numbers: every loop *)
(* below is followed with it.                                              *)
LEMMA NatInd ==
  ASSUME NEW S, 0 \in S, \A n \in Nat : n \in S => n + 1 \in S
  PROVE  Nat \subseteq S
<1> DEFINE R == {p \in Nat \X Nat : p[1] < p[2]}
<1> SUFFICES ASSUME Nat \ S # {} PROVE FALSE
  OBVIOUS
<1>1. Nat \ S \subseteq Nat
  OBVIOUS
<1>2. PICK x \in Nat \ S : \A y \in Nat \ S : ~ (<<y, x>> \in R)
  <2> HIDE DEF R
  <2>1. IsWellFoundedOn(R, Nat)
    BY NatOrder DEF R
  <2> QED BY <1>1, <2>1, WFMin
<1>3. x # 0 /\ x - 1 \in Nat
  OBVIOUS
<1>4. x - 1 \notin Nat \ S
  <2>1. <<x - 1, x>> \in Nat \X Nat /\ x - 1 < x
    BY <1>3
  <2>2. <<x - 1, x>> \in R
    BY <2>1
  <2> HIDE DEF R
  <2> QED BY <1>2, <2>2
<1> QED BY <1>2, <1>3, <1>4

(* The fold over a list takes its last index first.                        *)
LEMMA MaxOfInterval ==
  ASSUME NEW n \in Nat
  PROVE  Max(1..(n + 1)) = n + 1 /\ 1..(n + 1) \ {n + 1} = 1..n /\ 1..(n + 1) # {}
<1> DEFINE S == 1..(n + 1)
<1>1. n + 1 \in S /\ \A y \in S : n + 1 >= y
  OBVIOUS
<1>2. \A x \in S : (\A y \in S : x >= y) => x = n + 1
  OBVIOUS
<1> QED BY <1>1, <1>2 DEF Max

(* A greatest element of a set of numbers is its Max.                      *)
LEMMA MaxIs ==
  ASSUME NEW S \in SUBSET Nat, NEW m \in S, \A y \in S : m >= y
  PROVE  Max(S) = m
<1>1. \A x \in S : (\A y \in S : x >= y) => x = m
  OBVIOUS
<1> QED BY <1>1 DEF Max

(* A set of indices has a greatest one, so that the fold finds an index to *)
(* take.                                                                   *)
LEMMA MaxIsGreatest ==
  ASSUME NEW n \in Nat, NEW s \in SUBSET (1..n), s # {}
  PROVE  Max(s) \in s /\ \A y \in s : Max(s) >= y
<1> DEFINE S == {m \in Nat : \A q \in SUBSET (1..m) : q = {} \/ \E x \in q : \A y \in q : x >= y}
<1>1. 0 \in S
  OBVIOUS
<1>2. ASSUME NEW m \in Nat, m \in S PROVE m + 1 \in S
  <2> SUFFICES ASSUME NEW q \in SUBSET (1..(m + 1)), q # {}
               PROVE \E x \in q : \A y \in q : x >= y
    OBVIOUS
  <2>1. CASE m + 1 \in q
    <3>1. \A y \in q : m + 1 >= y
      OBVIOUS
    <3> QED BY <2>1, <3>1
  <2>2. CASE m + 1 \notin q
    <3>1. q \in SUBSET (1..m)
      BY <2>2
    <3> QED BY <1>2, <3>1
  <2> QED BY <2>1, <2>2
<1>3. Nat \subseteq S
  <2> HIDE DEF S
  <2> QED BY <1>1, <1>2, NatInd
<1>4. PICK m \in s : \A y \in s : m >= y
  BY <1>3
<1> QED BY <1>4, MaxIs

(* computeVerdict's loop as the recursive function over sets of indices    *)
(* that the fold stands for.                                               *)
LEMMA LoopUnfolded ==
  ASSUME NEW mode, NEW list
  PROVE  LoopVerdict(mode, list) =
    (CHOOSE f : f = [s \in SUBSET DOMAIN list |->
       IF s = {} THEN [verdict |-> "allow", returned |-> FALSE]
       ELSE Iteration(mode, f[s \ {Max(s)}], list[Max(s)])])[DOMAIN list].verdict
BY DEF LoopVerdict, FoldLeft, MapThenFoldSet

StateOf(mode, list, s) ==
  LET grave == \E i \in s : list[i] \in Grave
  IN  [verdict |-> IF grave THEN IF mode = "enforce" THEN "block" ELSE "warn"
                   ELSE IF \E i \in s : list[i] = "medium" THEN "warn" ELSE "allow",
       returned |-> mode = "enforce" /\ grave]

(* One iteration of computeVerdict's loop, in whatever state the findings  *)
(* before it left the verdict and the early return.                        *)
LEMMA IterationKeepsState ==
  ASSUME NEW mode \in Mode, NEW list, NEW s, NEW x \in s, list[x] \in Severity
  PROVE  StateOf(mode, list, s) = Iteration(mode, StateOf(mode, list, s \ {x}), list[x])
<1> DEFINE before == \E i \in s \ {x} : list[i] \in Grave
           mediumBefore == \E i \in s \ {x} : list[i] = "medium"
<1>1. /\ (\E i \in s : list[i] \in Grave) <=> before \/ list[x] \in Grave
      /\ (\E i \in s : list[i] = "medium") <=> mediumBefore \/ list[x] = "medium"
  OBVIOUS
<1> HIDE DEF before, mediumBefore
<1>2. StateOf(mode, list, s) =
        [verdict |-> IF before \/ list[x] \in Grave
                     THEN IF mode = "enforce" THEN "block" ELSE "warn"
                     ELSE IF mediumBefore \/ list[x] = "medium" THEN "warn" ELSE "allow",
         returned |-> mode = "enforce" /\ (before \/ list[x] \in Grave)]
  BY <1>1 DEF StateOf
<1>3. StateOf(mode, list, s \ {x}) =
        [verdict |-> IF before THEN IF mode = "enforce" THEN "block" ELSE "warn"
                     ELSE IF mediumBefore THEN "warn" ELSE "allow",
         returned |-> mode = "enforce" /\ before]
  BY DEF StateOf, before, mediumBefore
<1>4. "medium" \notin Grave
  BY DEF Grave
<1>5. CASE mode = "enforce" /\ before
  <2>1. StateOf(mode, list, s \ {x}) = [verdict |-> "block", returned |-> TRUE]
    BY <1>3, <1>5
  <2>2. StateOf(mode, list, s) = [verdict |-> "block", returned |-> TRUE]
    BY <1>2, <1>5
  <2>3. Iteration(mode, [verdict |-> "block", returned |-> TRUE], list[x])
          = [verdict |-> "block", returned |-> TRUE]
    BY DEF Iteration
  <2> QED BY <2>1, <2>2, <2>3
<1>6. CASE ~(mode = "enforce" /\ before)
  <2>1. PICK w : w = IF before THEN "warn" ELSE IF mediumBefore THEN "warn" ELSE "allow"
    OBVIOUS
  <2>2. w = "allow" <=> ~before /\ ~mediumBefore
    BY <2>1
  <2>3. StateOf(mode, list, s \ {x}) = [verdict |-> w, returned |-> FALSE]
    BY <1>3, <1>6, <2>1
  <2>4. CASE list[x] \in Grave /\ mode = "enforce"
    <3>1. StateOf(mode, list, s) = [verdict |-> "block", returned |-> TRUE]
      BY <1>2, <2>4
    <3>2. Iteration(mode, [verdict |-> w, returned |-> FALSE], list[x])
            = [verdict |-> "block", returned |-> TRUE]
      BY <1>4, <2>4 DEF Iteration, Grave
    <3> QED BY <2>3, <3>1, <3>2
  <2>5. CASE list[x] \in Grave /\ mode # "enforce"
    <3>1. StateOf(mode, list, s) = [verdict |-> "warn", returned |-> FALSE]
      BY <1>2, <2>5
    <3>2. Iteration(mode, [verdict |-> w, returned |-> FALSE], list[x])
            = [verdict |-> "warn", returned |-> FALSE]
      BY <1>4, <2>5 DEF Iteration
    <3> QED BY <2>3, <3>1, <3>2
  <2>6. CASE list[x] \notin Grave /\ list[x] = "medium"
    <3>1. StateOf(mode, list, s) = [verdict |-> "warn", returned |-> FALSE]
      BY <1>2, <1>6, <2>6
    <3>2. w = "warn" \/ w = "allow"
      BY <2>1
    <3>3. Iteration(mode, [verdict |-> w, returned |-> FALSE], list[x])
            = [verdict |-> "warn", returned |-> FALSE]
      BY <2>6, <3>2 DEF Iteration
    <3> QED BY <2>3, <3>1, <3>3
  <2>7. CASE list[x] \notin Grave /\ list[x] # "medium"
    <3>1. StateOf(mode, list, s) = [verdict |-> w, returned |-> FALSE]
      BY <1>2, <1>6, <2>1, <2>7
    <3>2. Iteration(mode, [verdict |-> w, returned |-> FALSE], list[x])
            = [verdict |-> w, returned |-> FALSE]
      BY <2>7 DEF Iteration
    <3> QED BY <2>3, <3>1, <3>2
  <2> QED BY <2>4, <2>5, <2>6, <2>7
<1> QED BY <1>5, <1>6

(* After the last iteration the state of the loop is the one that the      *)
(* whole list calls for.                                                   *)
LEMMA LoopComputesState ==
  ASSUME NEW mode \in Mode, NEW list \in Seq(Severity)
  PROVE  LoopVerdict(mode, list) = StateOf(mode, list, DOMAIN list).verdict
<1> DEFINE n == Len(list)
           Body(f, s) == IF s = {} THEN [verdict |-> "allow", returned |-> FALSE]
                         ELSE Iteration(mode, f[s \ {Max(s)}], list[Max(s)])
           run == CHOOSE f : f = [s \in SUBSET DOMAIN list |-> Body(f, s)]
           good == [s \in SUBSET DOMAIN list |-> StateOf(mode, list, s)]
<1>1. n \in Nat /\ DOMAIN list = 1..n /\ \A i \in 1..n : list[i] \in Severity
  OBVIOUS
<1>2. ASSUME NEW s \in SUBSET (1..n) PROVE StateOf(mode, list, s) = Body(good, s)
  <2>1. CASE s = {}
    BY <2>1 DEF StateOf
  <2>2. CASE s # {}
    <3>1. PICK x : x = Max(s)
      OBVIOUS
    <3>2. x \in s /\ s \ {x} \in SUBSET (1..n) /\ list[x] \in Severity
      BY <1>1, <2>2, <3>1, MaxIsGreatest
    <3>3. StateOf(mode, list, s) = Iteration(mode, StateOf(mode, list, s \ {x}), list[x])
      BY <3>2, IterationKeepsState
    <3> QED BY <1>1, <2>2, <3>1, <3>2, <3>3
  <2> QED BY <2>1, <2>2
<1>3. good = [s \in SUBSET DOMAIN list |-> Body(good, s)]
  BY <1>1, <1>2
<1>4. run = [s \in SUBSET DOMAIN list |-> Body(run, s)]
  <2> HIDE DEF good, Body
  <2> QED BY <1>3
<1> HIDE DEF run, good
<1> DEFINE S == {k \in Nat : k <= n => run[1..k] = StateOf(mode, list, 1..k)}
<1>5. 0 \in S
  <2>1. 1..0 = {} /\ {} \in SUBSET DOMAIN list
    OBVIOUS
  <2>2. run[{}] = [verdict |-> "allow", returned |-> FALSE]
    BY <1>4, <2>1
  <2> QED BY <2>1, <2>2 DEF StateOf
<1>6. ASSUME NEW k \in Nat, k \in S PROVE k + 1 \in S
  <2> SUFFICES ASSUME k + 1 <= n PROVE run[1..(k + 1)] = StateOf(mode, list, 1..(k + 1))
    OBVIOUS
  <2>1. /\ 1..(k + 1) \in SUBSET DOMAIN list /\ 1..(k + 1) # {}
        /\ Max(1..(k + 1)) = k + 1 /\ 1..(k + 1) \ {k + 1} = 1..k
    <3>1. n \in Nat /\ DOMAIN list = 1..n
      BY <1>1
    <3> HIDE DEF n
    <3>2. 1..(k + 1) \subseteq 1..n
      BY <3>1
    <3> QED BY <3>1, <3>2, MaxOfInterval
  <2>2. run[1..(k + 1)] = Iteration(mode, run[1..k], list[k + 1])
    BY <1>4, <2>1
  <2>3. run[1..k] = StateOf(mode, list, 1..k)
    BY <1>1, <1>6
  <2>4. StateOf(mode, list, 1..(k + 1)) = Iteration(mode, StateOf(mode, list, 1..k), list[k + 1])
    <3>1. k + 1 \in 1..(k + 1) /\ list[k + 1] \in Severity
      BY <1>1
    <3>2. PICK q, x : q = 1..(k + 1) /\ x = k + 1
      OBVIOUS
    <3>3. x \in q /\ list[x] \in Severity
      BY <3>1, <3>2
    <3>5. q \ {x} = 1..k
      BY <2>1, <3>2
    <3>4. StateOf(mode, list, q) = Iteration(mode, StateOf(mode, list, q \ {x}), list[x])
      <4>1. \A s : \A y \in s : list[y] \in Severity =>
               StateOf(mode, list, s) = Iteration(mode, StateOf(mode, list, s \ {y}), list[y])
        BY IterationKeepsState
      <4> QED BY <3>3, <4>1
    <3> QED BY <3>2, <3>4, <3>5
  <2> QED BY <2>2, <2>3, <2>4
<1>7. run[1..n] = StateOf(mode, list, 1..n)
  <2> HIDE DEF S
  <2>1. n \in S
    BY <1>1, <1>5, <1>6, NatInd
  <2> QED BY <1>1, <2>1 DEF S
<1>8. LoopVerdict(mode, list) = run[DOMAIN list].verdict
  BY LoopUnfolded DEF run
<1> QED BY <1>1, <1>7, <1>8

(* ComputeVerdict of findings that are told apart by their severity alone. *)
LEMMA VerdictOfSeverities ==
  ASSUME NEW mode, NEW S
  PROVE  ComputeVerdict(mode, {[severity |-> x, highCVSS |-> FALSE] : x \in S})
           = IF \E x \in S : x \in Grave
             THEN IF mode = "enforce" THEN "block" ELSE "warn"
             ELSE IF "medium" \in S THEN "warn" ELSE "allow"
<1> DEFINE found == {[severity |-> x, highCVSS |-> FALSE] : x \in S}
<1>1. ASSUME NEW T
      PROVE  (\E f \in found : f.severity \in T) <=> \E x \in S : x \in T
  <2>1. ASSUME NEW f \in found, f.severity \in T PROVE \E x \in S : x \in T
    <3>1. PICK x \in S : f = [severity |-> x, highCVSS |-> FALSE]
      OBVIOUS
    <3> QED BY <2>1, <3>1
  <2>2. ASSUME NEW x \in S, x \in T PROVE \E f \in found : f.severity \in T
    <3>1. [severity |-> x, highCVSS |-> FALSE] \in found
      OBVIOUS
    <3> QED BY <2>2, <3>1
  <2> QED BY <2>1, <2>2
<1> HIDE DEF found
<1>2. HasCriticalOrBlock(found) <=> \E x \in S : x \in Grave
  BY <1>1 DEF HasCriticalOrBlock
<1>3. (\E f \in found : f.severity = "medium") <=> "medium" \in S
  <2>1. (\E f \in found : f.severity \in {"medium"}) <=> \E x \in S : x \in {"medium"}
    BY <1>1
  <2> QED BY <2>1
<1>4. ComputeVerdict(mode, found)
        = IF \E x \in S : x \in Grave
          THEN IF mode = "enforce" THEN "block" ELSE "warn"
          ELSE IF "medium" \in S THEN "warn" ELSE "allow"
  BY <1>2, <1>3 DEF ComputeVerdict
<1> QED BY <1>4 DEF found

(* The loop of computeVerdict with its early return gives, for findings of *)
(* any number and in any order, the verdict that the other modules compute *)
(* from the set of findings.                                               *)
THEOREM LoopIsComputeVerdict ==
  ASSUME NEW mode \in Mode, NEW list \in Seq(Severity)
  PROVE  LoopVerdict(mode, list) =
           ComputeVerdict(mode, {[severity |-> s, highCVSS |-> FALSE] : s \in ToSet(list)})
<1>1. ToSet(list) = {list[i] : i \in DOMAIN list}
  BY DEF ToSet
<1>2. /\ (\E i \in DOMAIN list : list[i] \in Grave) <=> \E x \in ToSet(list) : x \in Grave
      /\ (\E i \in DOMAIN list : list[i] = "medium") <=> "medium" \in ToSet(list)
  BY <1>1
<1>3. LoopVerdict(mode, list)
        = IF \E x \in ToSet(list) : x \in Grave
          THEN IF mode = "enforce" THEN "block" ELSE "warn"
          ELSE IF "medium" \in ToSet(list) THEN "warn" ELSE "allow"
  BY <1>2, LoopComputesState DEF StateOf
<1> QED BY <1>3, VerdictOfSeverities

-----------------------------------------------------------------------------
(* RoundTrip of every request that a handler sends: when it is sent twice, *)
(* and by which way the answer came.                                       *)
LEMMA RetriesStep ==
  ASSUME NEW x \in [handler : {"tarball", "meta", "simple", "transparent"},
                    body : {"none", "small", "large"},
                    config : {"none", "broken", "proxy"},
                    proxied : {"error", "407", "ok"}, direct : {"error", "ok"}],
         NEW r, r = RoundTrip(Outgoing(x.handler, x.body), x.config, x.proxied, x.direct)
  PROVE  /\ r.sent = <<"proxied", "direct">> <=>
             /\ x.config = "proxy" /\ x.proxied = "error"
             /\ x.handler = "simple" \/ (x.handler = "transparent" /\ x.body # "none")
         /\ r.answer = "ok" =>
             Last(r.sent) = IF x.proxied = "ok" /\ x.config = "proxy"
                            THEN "proxied" ELSE "direct"
<1> DEFINE out == Outgoing(x.handler, x.body)
<1>1. out.replayable <=> x.handler = "simple" \/ (x.handler = "transparent" /\ x.body # "none")
  <2>1. CASE x.handler = "simple"
    <3>1. out = [body |-> "nil", replayable |-> TRUE]
      BY <2>1 DEF Outgoing
    <3> QED BY <2>1, <3>1
  <2>2. CASE x.handler = "transparent" /\ x.body # "none"
    <3>1. x.body \notin {"none", "nil"}
      BY <2>2
    <3>2. out = [body |-> IF x.body = "large" THEN "cut" ELSE x.body, replayable |-> TRUE]
      BY <2>2, <3>1 DEF Outgoing
    <3> QED BY <2>2, <3>2
  <2>3. CASE ~(x.handler = "simple") /\ ~(x.handler = "transparent" /\ x.body # "none")
    <3>1. x.body # "nil"
      OBVIOUS
    <3>2. out = [body |-> x.body, replayable |-> x.body = "nil"]
      BY <2>3 DEF Outgoing
    <3>3. out.replayable = (x.body = "nil")
      BY <3>2
    <3>4. (x.body = "nil") = FALSE
      BY <3>1
    <3> QED BY <2>3, <3>3, <3>4
  <2> QED BY <2>1, <2>2, <2>3
<1> HIDE DEF out
<1>2. r = RoundTrip(out, x.config, x.proxied, x.direct)
  BY DEF out
<1>3. /\ Last(<<"proxied", "direct">>) = "direct" /\ Last(<<"direct">>) = "direct"
      /\ Last(<<"proxied">>) = "proxied"
  BY DEF Last
<1>4. <<"proxied", "direct">> # <<"direct">> /\ <<"proxied", "direct">> # <<"proxied">>
  OBVIOUS
<1>5. CASE x.config # "proxy"
  BY <1>1, <1>2, <1>3, <1>4, <1>5 DEF RoundTrip
<1>6. CASE x.config = "proxy" /\ x.proxied = "error" /\ out.replayable
  BY <1>1, <1>2, <1>3, <1>4, <1>6 DEF RoundTrip
<1>7. CASE x.config = "proxy" /\ ~(x.proxied = "error" /\ out.replayable)
  BY <1>1, <1>2, <1>3, <1>4, <1>7 DEF RoundTrip
<1> QED BY <1>5, <1>6, <1>7

(* A record without a severity word is none of those with one.             *)
LEMMA NoWordIsNone ==
  /\ NoWord \notin {"CRITICAL", "HIGH", "MODERATE", "MEDIUM", "LOW"}
  /\ CvssFromSeverity(NoWord) = 0
BY DEF NoWord, CvssFromSeverity

(* Without a word, a score is grave from 70 tenths on (mapSeverity).       *)
LEMMA BandsAgree ==
  ASSUME NEW c \in Nat
  PROVE  MapSeverity(NoWord, c) \in Grave <=> c >= 70
<1>1. MapSeverity(NoWord, c) =
        IF c >= 90 THEN "critical" ELSE IF c >= 70 THEN "high"
        ELSE IF c >= 40 THEN "medium" ELSE IF c > 0 THEN "low" ELSE "info"
  BY NoWordIsNone DEF MapSeverity
<1> QED BY <1>1 DEF Grave

(* A word is grave if and only if the score that stands in for it reaches  *)
(* 70 tenths (mapSeverity and cvssFromSeverity).                           *)
LEMMA WordsAgree ==
  ASSUME NEW db \in DatabaseSeverity, db # NoWord, NEW c
  PROVE  MapSeverity(db, c) \in Grave <=> CvssFromSeverity(db) >= 70
<1>1. CASE db = "CRITICAL"
  <2>1. MapSeverity(db, c) = "critical"
    BY <1>1 DEF MapSeverity
  <2>2. CvssFromSeverity(db) = 95
    BY <1>1 DEF CvssFromSeverity
  <2> QED BY <2>1, <2>2 DEF Grave
<1>2. CASE db = "HIGH"
  <2>1. MapSeverity(db, c) = "high"
    BY <1>2 DEF MapSeverity
  <2>2. CvssFromSeverity(db) = 80
    BY <1>2 DEF CvssFromSeverity
  <2> QED BY <2>1, <2>2 DEF Grave
<1>3. CASE db \in {"MODERATE", "MEDIUM"}
  <2>1. MapSeverity(db, c) = "medium"
    BY <1>3 DEF MapSeverity
  <2>2. CvssFromSeverity(db) = 50
    BY <1>3 DEF CvssFromSeverity
  <2> QED BY <2>1, <2>2 DEF Grave
<1>4. CASE db = "LOW"
  <2>1. MapSeverity(db, c) = "low"
    BY <1>4 DEF MapSeverity
  <2>2. CvssFromSeverity(db) = 20
    BY <1>4 DEF CvssFromSeverity
  <2> QED BY <2>1, <2>2 DEF Grave
<1> QED BY <1>1, <1>2, <1>3, <1>4 DEF DatabaseSeverity

(* The finding of a record that has only a score or only a word.           *)
LEMMA SeverityStep ==
  ASSUME BlockCVSSThreshold = 70, NEW v, v.db \in DatabaseSeverity, ParseCVSS(v) \in Nat, 
         ParseCVSS(v) = 0 \/ v.db = NoWord,
         NEW f \in OSVAnalyze({v})
  PROVE  f.highCVSS <=> f.severity \in Grave
<1>1. f = [severity |-> MapSeverity(v.db, Cvss(v)), highCVSS |-> Cvss(v) >= 70]
  BY DEF OSVAnalyze
<1>2. CASE v.db = NoWord
  <2>1. Cvss(v) = ParseCVSS(v)
    BY <1>2, NoWordIsNone DEF Cvss
  <2>2. MapSeverity(v.db, Cvss(v)) \in Grave <=> Cvss(v) >= 70
    BY <1>2, <2>1, BandsAgree
  <2> QED BY <1>1, <2>2
<1>3. CASE v.db # NoWord
  <2>1. Cvss(v) = CvssFromSeverity(v.db)
    BY <1>3 DEF Cvss
  <2>2. MapSeverity(v.db, Cvss(v)) \in Grave <=> Cvss(v) >= 70
    BY <1>3, <2>1, WordsAgree
  <2> QED BY <1>1, <2>2
<1> QED BY <1>2, <1>3

-----------------------------------------------------------------------------
(* The findings of a finite set, in some order, are those of the set.      *)
LEMMA SetAsSequence ==
  ASSUME NEW S, IsFiniteSet(S)
  PROVE  SetToSeq(S) \in Seq(S) /\ ToSet(SetToSeq(S)) = S
<1> DEFINE n == Cardinality(S)
<1>1. n \in Nat
  BY FS_CardinalityType
<1>2. \E f \in [1..n -> S] : IsInjective(f)
  <2>1. PICK f : f \in Bijection(1..n, S)
    BY FS_CardinalityType DEF ExistsBijection
  <2> QED BY <2>1 DEF Bijection, Injection, IsInjective
<1>3. SetToSeq(S) \in [1..n -> S] /\ IsInjective(SetToSeq(S))
  BY <1>2 DEF SetToSeq
<1>4. SetToSeq(S) \in Injection(1..n, S)
  BY <1>3 DEF Injection, IsInjective
<1>5. Cardinality(1..n) = n
  BY <1>1, FS_Interval
<1>6. SetToSeq(S) \in Surjection(1..n, S)
  BY <1>4, <1>5, FS_Injection
<1>7. ToSet(SetToSeq(S)) = S
  BY <1>3, <1>6 DEF ToSet, Surjection
<1>8. SetToSeq(S) \in Seq(S)
  BY <1>1, <1>3
<1> QED BY <1>7, <1>8

(* NPMParser keeps one entry for every key, and every entry it keeps is of *)
(* a production package.                                                   *)
LEMMA NPMIs ==
  ASSUME NEW entries, NEW refs \in ParseNPM(entries)
  PROVE  LET prod == {[name |-> NameOf(e.path), version |-> e.version] :
                        e \in {f \in entries : ~f.dev /\ ~f.peer /\ ~f.optional
                                               /\ f.path # <<>> /\ f.version # <<>>}}
             alike(r) == {q \in prod : q.name \o q.version = r.name \o r.version}
         IN  /\ refs \subseteq prod
             /\ \A r \in prod : Cardinality(alike(r) \cap refs) = 1
<1> DEFINE wanted == Wanted(entries)
           keys == {SeenKey(e) : e \in wanted}
           Ref(e) == [name |-> NameOf(e.path), version |-> e.version]
           prod == {Ref(e) : e \in wanted}
           alike(r) == {q \in prod : q.name \o q.version = r.name \o r.version}
<1>1. PICK pick \in [keys -> wanted] :
        (\A k \in keys : SeenKey(pick[k]) = k) /\ refs = {Ref(pick[k]) : k \in keys}
  BY DEF ParseNPM
<1>2. ASSUME NEW e \in wanted PROVE Ref(e).name \o Ref(e).version = SeenKey(e)
  BY DEF SeenKey
<1> HIDE DEF wanted
<1>3. refs \subseteq prod
  BY <1>1
<1>4. ASSUME NEW r \in prod PROVE Cardinality(alike(r) \cap refs) = 1
  <2>1. PICK e \in wanted : r = Ref(e)
    OBVIOUS
  <2>2. PICK k : k = SeenKey(e)
    OBVIOUS
  <2>3. k \in keys /\ r.name \o r.version = k /\ pick[k] \in wanted
    BY <1>2, <2>1, <2>2
  <2>4. PICK q : q = Ref(pick[k])
    OBVIOUS
  <2>5. q \in alike(r) \cap refs
    <3>1. q \in prod /\ q \in refs
      BY <1>1, <2>3, <2>4
    <3>2. q.name \o q.version = k
      BY <1>1, <1>2, <2>3, <2>4
    <3> QED BY <2>3, <3>1, <3>2
  <2>6. ASSUME NEW p \in alike(r) \cap refs PROVE p = q
    <3>1. PICK l \in keys : p = Ref(pick[l])
      BY <1>1
    <3>2. p.name \o p.version = SeenKey(pick[l])
      BY <1>2, <3>1
    <3>3. l = k
      BY <1>1, <2>3, <3>2
    <3> QED BY <2>4, <3>1, <3>3
  <2>7. alike(r) \cap refs = {q}
    BY <2>5, <2>6
  <2> QED BY <2>7, FS_Singleton
<1>5. prod = {Ref(e) : e \in {f \in entries : ~f.dev /\ ~f.peer /\ ~f.optional
                                         /\ f.path # <<>> /\ f.version # <<>>}}
  <2>1. wanted = {f \in entries : ~f.dev /\ ~f.peer /\ ~f.optional
                                  /\ f.path # <<>> /\ f.version # <<>>}
    BY DEF wanted, Wanted
  <2> QED BY <2>1
<1> HIDE DEF keys, wanted
<1> QED BY <1>3, <1>4, <1>5

-----------------------------------------------------------------------------
(* The two normalizations of PyPI, letter by letter.                       *)
LEMMA NormalizersAgree ==
  ASSUME NEW S, NEW name \in [S -> DOMAIN Lower]
  PROVE  /\ NormalizePyPI(NormalizePoetry(name)) = NormalizePyPI(name)
         /\ NormalizePoetry(name) = NormalizePyPI(name)
              <=> \A i \in DOMAIN name : name[i] # "."
<1>1. PICK dot : dot = [l \in DOMAIN Lower |-> IF l \in {"_", "."} THEN "-" ELSE Lower[l]]
  OBVIOUS
<1>2. PICK bar : bar = [l \in DOMAIN Lower |-> IF l \in {"_"} THEN "-" ELSE Lower[l]]
  OBVIOUS
<1>3. /\ bar \in [DOMAIN Lower -> DOMAIN Lower] /\ dot \in [DOMAIN Lower -> DOMAIN Lower]
      /\ \A l \in DOMAIN Lower : dot[bar[l]] = dot[l] /\ (bar[l] = dot[l] <=> l # ".")
  BY <1>1, <1>2, LowerAssumption
<1>4. PICK poetry : poetry = [i \in S |-> bar[name[i]]]
  OBVIOUS
<1>5. PICK pypi : pypi = [i \in S |-> dot[name[i]]]
  OBVIOUS
<1>6. /\ poetry \in [S -> DOMAIN Lower] /\ pypi \in [S -> DOMAIN Lower]
      /\ \A i \in S : name[i] \in DOMAIN Lower
  <2>2. \A i \in S : name[i] \in DOMAIN Lower
    OBVIOUS
  <2>3. poetry \in [S -> DOMAIN Lower] /\ pypi \in [S -> DOMAIN Lower]
    BY <1>3, <1>4, <1>5, <2>2
  <2> QED BY <2>2, <2>3
<1>7. NormalizePoetry(name) = poetry
  <2>1. NormalizePoetry(name) =
          [i \in S |-> IF name[i] \in {"_"} THEN "-" ELSE Lower[name[i]]]
    BY DEF NormalizePoetry, Dashed
  <2>2. \A i \in S : poetry[i] = IF name[i] \in {"_"} THEN "-" ELSE Lower[name[i]]
    BY <1>2, <1>4, <1>6
  <2>3. poetry = [i \in S |-> poetry[i]]
    BY <1>6
  <2> QED BY <2>1, <2>2, <2>3
<1>8. NormalizePyPI(name) = pypi
  <2>1. NormalizePyPI(name) =
          [i \in S |-> IF name[i] \in {"_", "."} THEN "-" ELSE Lower[name[i]]]
    BY DEF NormalizePyPI, Dashed
  <2> QED BY <1>1, <1>5, <1>6, <2>1
<1>9. NormalizePyPI(poetry) = [i \in S |-> dot[poetry[i]]]
  <2>1. NormalizePyPI(poetry) =
          [i \in S |-> IF poetry[i] \in {"_", "."} THEN "-" ELSE Lower[poetry[i]]]
    BY <1>4 DEF NormalizePyPI, Dashed
  <2> QED BY <1>1, <1>6, <2>1
<1>10. [i \in S |-> dot[poetry[i]]] = pypi
  <2>1. \A i \in S : dot[poetry[i]] = dot[name[i]]
    BY <1>3, <1>4, <1>6
  <2> QED BY <1>5, <2>1
<1>11. poetry = pypi <=> \A i \in S : name[i] # "."
  <2>1. poetry = pypi <=> \A i \in S : poetry[i] = pypi[i]
    <3>1. \A f, g \in [S -> DOMAIN Lower] : f = g <=> \A i \in S : f[i] = g[i]
      OBVIOUS
    <3> QED BY <1>6, <3>1
  <2>2. \A i \in S : poetry[i] = bar[name[i]] /\ pypi[i] = dot[name[i]]
    BY <1>4, <1>5
  <2>3. \A i \in S : bar[name[i]] = dot[name[i]] <=> name[i] # "."
    BY <1>3, <1>6
  <2> QED BY <2>1, <2>2, <2>3
<1> QED BY <1>7, <1>8, <1>9, <1>10, <1>11

(* The loop over requirements.txt as a recursive function over sets of     *)
(* lines.                                                                  *)
LEMMA RequirementsUnfolded ==
  ASSUME NEW lines
  PROVE  ParseRequirements(lines) =
    (CHOOSE f : f = [s \in SUBSET DOMAIN lines |->
       IF s = {} THEN <<>>
       ELSE IF lines[Max(s)].is = "pinned"
            THEN Append(f[s \ {Max(s)}], [name |-> NormalizePyPI(lines[Max(s)].name),
                                          version |-> lines[Max(s)].version])
            ELSE f[s \ {Max(s)}]])[DOMAIN lines]
BY DEF ParseRequirements, FoldLeft, MapThenFoldSet

(* The last of at most two lines.                                          *)
LEMMA MaxOfOneOrTwo == Max({1}) = 1 /\ Max({2}) = 2 /\ Max({1, 2}) = 2
<1>1. ASSUME NEW S \in SUBSET Nat, NEW m \in S, \A y \in S : m >= y PROVE Max(S) = m
  <2>1. \A x \in S : (\A y \in S : x >= y) => x = m
    BY <1>1
  <2> QED BY <1>1, <2>1 DEF Max
<1>2. /\ {1} \in SUBSET Nat /\ {2} \in SUBSET Nat /\ {1, 2} \in SUBSET Nat
      /\ 1 \in {1} /\ 2 \in {2} /\ 2 \in {1, 2}
      /\ \A y \in {1} : 1 >= y
      /\ \A y \in {2} : 2 >= y
      /\ \A y \in {1, 2} : 2 >= y
  OBVIOUS
<1> QED BY <1>1, <1>2

(* A pinned line of requirements.txt is listed under its normalized name,  *)
(* after a line that is skipped.                                           *)
LEMMA PinnedLineIsRead ==
  ASSUME NEW name, NEW version, NEW lines,
         lines = <<[is |-> "other"], [is |-> "pinned", name |-> name, version |-> version]>>
  PROVE  ParseRequirements(lines)[1].name = NormalizePyPI(name)
<1> DEFINE Body(f, s) ==
             IF s = {} THEN <<>>
             ELSE IF lines[Max(s)].is = "pinned"
                  THEN Append(f[s \ {Max(s)}], [name |-> NormalizePyPI(lines[Max(s)].name),
                                                version |-> lines[Max(s)].version])
                  ELSE f[s \ {Max(s)}]
           run == CHOOSE f : f = [s \in SUBSET DOMAIN lines |-> Body(f, s)]
<1>1. PICK ref : ref = [name |-> NormalizePyPI(name), version |-> version]
  OBVIOUS
<1>2. DOMAIN lines = {1, 2}
  OBVIOUS
<1>3. ASSUME NEW f
      PROVE  /\ Body(f, {}) = <<>> /\ Body(f, {1}) = f[{}]
             /\ Body(f, {2}) = Append(f[{}], ref) /\ Body(f, {1, 2}) = Append(f[{1}], ref)
  <2>1. lines[1].is # "pinned" /\ lines[2].is = "pinned" /\ lines[2].name = name
        /\ lines[2].version = version
    OBVIOUS
  <2>2. {1} \ {1} = {} /\ {2} \ {2} = {} /\ {1, 2} \ {2} = {1}
    OBVIOUS
  <2>3. {1} # {} /\ {2} # {} /\ {1, 2} # {}
    OBVIOUS
  <2> QED BY <1>1, <2>1, <2>2, <2>3, MaxOfOneOrTwo
<1>4. ASSUME NEW s \in SUBSET DOMAIN lines PROVE s \in {{}, {1}, {2}, {1, 2}}
  BY <1>2
<1>5. /\ {} \in SUBSET DOMAIN lines /\ {1} \in SUBSET DOMAIN lines
      /\ {2} \in SUBSET DOMAIN lines /\ {1, 2} \in SUBSET DOMAIN lines
  BY <1>2
<1>6. run = [s \in SUBSET DOMAIN lines |-> Body(run, s)]
  <2>1. PICK g : g = [s \in SUBSET DOMAIN lines |-> IF 2 \in s THEN Append(<<>>, ref) ELSE <<>>]
    OBVIOUS
  <2> HIDE DEF Body
  <2>2. /\ g[{}] = <<>> /\ g[{1}] = <<>>
        /\ g[{2}] = Append(<<>>, ref) /\ g[{1, 2}] = Append(<<>>, ref)
    BY <1>5, <2>1
  <2>3. ASSUME NEW s \in SUBSET DOMAIN lines PROVE g[s] = Body(g, s)
    <3>1. /\ Body(g, {}) = g[{}] /\ Body(g, {1}) = g[{1}]
          /\ Body(g, {2}) = g[{2}] /\ Body(g, {1, 2}) = g[{1, 2}]
      BY <1>3, <2>2
    <3> QED BY <1>4, <3>1
  <2>4. g = [s \in SUBSET DOMAIN lines |-> Body(g, s)]
    BY <2>1, <2>3
  <2> QED BY <2>4
<1>7. ParseRequirements(lines) = run[{1, 2}]
  BY <1>2, RequirementsUnfolded
<1> HIDE DEF Body, run
<1>8. run[{1, 2}] = Append(run[{1}], ref) /\ run[{1}] = run[{}] /\ run[{}] = <<>>
  BY <1>3, <1>5, <1>6
<1>9. Append(<<>>, ref)[1] = ref
  OBVIOUS
<1> QED BY <1>1, <1>7, <1>8, <1>9

-----------------------------------------------------------------------------
(* What extractForAnalysis has gathered after the files with the indices s.*)
(* Each file is read while the suspicious ones before it are fewer than    *)
(* MaxSnippets, and a hook has the command of the last file that has it.   *)
Suspicious(files, s) == {j \in s : files[j].suspicious}
Reached(files, s) ==
  {i \in s : Cardinality(Suspicious(files, {j \in s : j < i})) < MaxSnippets}
Having(files, s, h) == {i \in Reached(files, s) : h \in DOMAIN files[i].scripts}
HooksOf(files, s) == UNION {DOMAIN files[i].scripts : i \in Reached(files, s)}

ShownOf(files, s) ==
  [scripts |-> [h \in HooksOf(files, s) |-> files[Max(Having(files, s, h))].scripts[h]],
   snippets |-> IF Cardinality(Suspicious(files, s)) < MaxSnippets
                THEN Cardinality(Suspicious(files, s)) ELSE MaxSnippets]

(* One iteration of extractForAnalysis: the file that comes last adds its  *)
(* scripts, over those of earlier files, and its snippet, unless the loop  *)
(* has ended.                                                              *)
LEMMA ReadFileKeepsShown ==
  ASSUME NEW files, NEW n \in Nat, NEW s \in SUBSET (1..n), NEW x \in s,
         \A y \in s : x >= y
  PROVE  ShownOf(files, s) = ReadFile(ShownOf(files, s \ {x}), files[x])
<1> DEFINE t == s \ {x}
           c == Cardinality(Suspicious(files, t))
           f == files[x]
<1>1. /\ MaxSnippets \in Nat \ {0} /\ c \in Nat /\ IsFiniteSet(Suspicious(files, t))
  <2>1. IsFiniteSet(1..n)
    BY FS_Interval
  <2>2. Suspicious(files, t) \subseteq 1..n
    BY DEF Suspicious
  <2> QED BY <2>1, <2>2, FS_Subset, FS_CardinalityType, BoundsAssumption
<1>2. \A i \in t : i < x /\ i \in Nat /\ x \in Nat
  OBVIOUS
<1>3. ASSUME NEW i \in t PROVE {j \in s : j < i} = {j \in t : j < i}
  BY <1>2
<1>4. {j \in s : j < x} = t
  <2>1. x \in Nat /\ ~(x < x)
    OBVIOUS
  <2>2. \A j \in s : j < x <=> j # x
    BY <1>2, <2>1
  <2> QED BY <2>2
<1>5. Reached(files, s) = Reached(files, t) \cup (IF c < MaxSnippets THEN {x} ELSE {})
  <2>1. x \in Reached(files, s) <=> c < MaxSnippets
    BY <1>4 DEF Reached
  <2>2. \A i \in t : i \in Reached(files, s) <=> i \in Reached(files, t)
    BY <1>3 DEF Reached
  <2>3. x \notin Reached(files, t) /\ Reached(files, t) \subseteq t
        /\ Reached(files, s) \subseteq s /\ s = t \cup {x}
    BY DEF Reached
  <2> QED BY <2>1, <2>2, <2>3
<1>6. Suspicious(files, s) = Suspicious(files, t) \cup (IF f.suspicious THEN {x} ELSE {})
  BY DEF Suspicious
<1>7. x \notin Suspicious(files, t)
  BY DEF Suspicious
<1>8. Cardinality(Suspicious(files, s)) = IF f.suspicious THEN c + 1 ELSE c
  BY <1>1, <1>6, <1>7, FS_AddElement
<1>9. CASE ~(c < MaxSnippets)
  <2>1. Reached(files, s) = Reached(files, t)
    BY <1>5, <1>9
  <2>2. HooksOf(files, s) = HooksOf(files, t) /\ \A h : Having(files, s, h) = Having(files, t, h)
    BY <2>1 DEF HooksOf, Having
  <2>3. ~(Cardinality(Suspicious(files, s)) < MaxSnippets)
    BY <1>1, <1>8, <1>9
  <2>4. ShownOf(files, s) = ShownOf(files, t) /\ ShownOf(files, t).snippets = MaxSnippets
    BY <1>9, <2>2, <2>3 DEF ShownOf
  <2> QED BY <1>1, <2>4 DEF ReadFile
<1>10. CASE c < MaxSnippets
  <2>1. ShownOf(files, t).snippets = c /\ ~(c >= MaxSnippets)
    BY <1>1, <1>10 DEF ShownOf
  <2>2. ShownOf(files, s).snippets = c + (IF f.suspicious THEN 1 ELSE 0)
    BY <1>1, <1>8, <1>10 DEF ShownOf
  <2>3. Reached(files, s) = Reached(files, t) \cup {x}
    BY <1>5, <1>10
  <2>4. HooksOf(files, s) = HooksOf(files, t) \cup DOMAIN f.scripts
    BY <2>3 DEF HooksOf
  <2>5. ASSUME NEW h \in DOMAIN f.scripts PROVE Max(Having(files, s, h)) = x
    <3>1. x \in Having(files, s, h)
      BY <2>3 DEF Having
    <3>2. Having(files, s, h) \subseteq s
      BY DEF Having, Reached
    <3>3. s \subseteq Nat /\ \A y \in s : x >= y
      OBVIOUS
    <3> QED BY <3>1, <3>2, <3>3, MaxIs
  <2>6. ASSUME NEW h, h \notin DOMAIN f.scripts PROVE Having(files, s, h) = Having(files, t, h)
    BY <2>3, <2>6 DEF Having
  <2>7. PICK old : old = ShownOf(files, t).scripts
    OBVIOUS
  <2>8. old = [h \in HooksOf(files, t) |-> files[Max(Having(files, t, h))].scripts[h]]
    BY <2>7 DEF ShownOf
  <2>9. ShownOf(files, s).scripts = Overwritten(old, f.scripts)
    <3>1. ShownOf(files, s).scripts =
            [h \in HooksOf(files, s) |-> files[Max(Having(files, s, h))].scripts[h]]
      BY DEF ShownOf
    <3>2. Overwritten(old, f.scripts) =
            [h \in HooksOf(files, s) |->
               IF h \in DOMAIN f.scripts THEN f.scripts[h] ELSE old[h]]
      BY <2>4, <2>8 DEF Overwritten
    <3>3. ASSUME NEW h \in HooksOf(files, s)
          PROVE  files[Max(Having(files, s, h))].scripts[h]
                   = IF h \in DOMAIN f.scripts THEN f.scripts[h] ELSE old[h]
      <4>1. CASE h \in DOMAIN f.scripts
        BY <2>5, <4>1
      <4>2. CASE h \notin DOMAIN f.scripts
        <5>1. h \in HooksOf(files, t)
          BY <2>4, <4>2
        <5> QED BY <2>6, <2>8, <4>2, <5>1
      <4> QED BY <4>1, <4>2
    <3> QED BY <3>1, <3>2, <3>3
  <2>10. ReadFile(ShownOf(files, t), f) =
           [scripts |-> Overwritten(old, f.scripts),
            snippets |-> c + (IF f.suspicious THEN 1 ELSE 0)]
    BY <2>1, <2>7 DEF ReadFile
  <2>11. PICK a, b : ShownOf(files, s) = [scripts |-> a, snippets |-> b]
    BY DEF ShownOf
  <2> QED BY <2>2, <2>9, <2>10, <2>11
<1> QED BY <1>9, <1>10

(* extractForAnalysis as a recursive function over sets of files.          *)
LEMMA ShownUnfolded ==
  ASSUME NEW files
  PROVE  ExtractForAnalysis(files) =
    (CHOOSE f : f = [s \in SUBSET DOMAIN files |->
       IF s = {} THEN Nothing
       ELSE ReadFile(f[s \ {Max(s)}], files[Max(s)])])[DOMAIN files]
BY DEF ExtractForAnalysis, FoldLeft, MapThenFoldSet

(* The state in front of the loop.                                         *)
LEMMA NothingIsShown ==
  ASSUME NEW files
  PROVE  ShownOf(files, {}) = Nothing
<1>1. HooksOf(files, {}) = {} /\ Suspicious(files, {}) = {}
  BY DEF HooksOf, Reached, Suspicious
<1>2. Cardinality(Suspicious(files, {})) = 0
  BY <1>1, FS_EmptySet
<1>3. MaxSnippets \in Nat \ {0}
  BY BoundsAssumption
<1>4. [h \in HooksOf(files, {}) |-> files[Max(Having(files, {}, h))].scripts[h]] = <<>>
  BY <1>1
<1> QED BY <1>2, <1>3, <1>4 DEF ShownOf, Nothing

(* extractForAnalysis gathers from any archive what ShownOf says.          *)
LEMMA FilesAreReadInOrder ==
  ASSUME NEW files, NEW n \in Nat, DOMAIN files = 1..n
  PROVE  ExtractForAnalysis(files) = ShownOf(files, 1..n)
<1> DEFINE Body(f, s) == IF s = {} THEN Nothing
                         ELSE ReadFile(f[s \ {Max(s)}], files[Max(s)])
           run == CHOOSE f : f = [s \in SUBSET DOMAIN files |-> Body(f, s)]
           good == [s \in SUBSET DOMAIN files |-> ShownOf(files, s)]
<1>1. ASSUME NEW s \in SUBSET (1..n), NEW x \in s, \A y \in s : x >= y
      PROVE  ShownOf(files, s) = ReadFile(ShownOf(files, s \ {x}), files[x])
  BY <1>1, ReadFileKeepsShown
<1>2. ASSUME NEW s \in SUBSET (1..n) PROVE ShownOf(files, s) = Body(good, s)
  <2>1. CASE s = {}
    BY <2>1, NothingIsShown
  <2>2. CASE s # {}
    <3>1. PICK x : x = Max(s)
      OBVIOUS
    <3>2. x \in s /\ s \ {x} \in SUBSET (1..n) /\ \A y \in s : x >= y
      BY <2>2, <3>1, MaxIsGreatest
    <3>3. ShownOf(files, s) = ReadFile(ShownOf(files, s \ {x}), files[x])
      BY <1>1, <3>2
    <3> QED BY <2>2, <3>1, <3>2, <3>3
  <2> QED BY <2>1, <2>2
<1>3. good = [s \in SUBSET DOMAIN files |-> Body(good, s)]
  BY <1>2
<1>4. run = [s \in SUBSET DOMAIN files |-> Body(run, s)]
  <2> HIDE DEF good, Body
  <2> QED BY <1>3
<1> HIDE DEF run, good
<1> DEFINE S == {k \in Nat : k <= n => run[1..k] = ShownOf(files, 1..k)}
<1>5. 0 \in S
  <2>1. 1..0 = {} /\ {} \in SUBSET DOMAIN files
    OBVIOUS
  <2>2. run[{}] = Nothing
    BY <1>4, <2>1
  <2> QED BY <2>1, <2>2, NothingIsShown
<1>6. ASSUME NEW k \in Nat, k \in S PROVE k + 1 \in S
  <2> SUFFICES ASSUME k + 1 <= n PROVE run[1..(k + 1)] = ShownOf(files, 1..(k + 1))
    OBVIOUS
  <2>1. /\ 1..(k + 1) \in SUBSET DOMAIN files /\ 1..(k + 1) # {}
        /\ Max(1..(k + 1)) = k + 1 /\ 1..(k + 1) \ {k + 1} = 1..k
    <3>1. 1..(k + 1) \subseteq 1..n
      OBVIOUS
    <3> QED BY <3>1, MaxOfInterval
  <2>2. run[1..(k + 1)] = ReadFile(run[1..k], files[k + 1])
    BY <1>4, <2>1
  <2>3. run[1..k] = ShownOf(files, 1..k)
    BY <1>6
  <2>4. ShownOf(files, 1..(k + 1)) = ReadFile(ShownOf(files, 1..k), files[k + 1])
    <3>1. PICK q, x : q = 1..(k + 1) /\ x = k + 1
      OBVIOUS
    <3>2. q \in SUBSET (1..n) /\ x \in q /\ (\A y \in q : x >= y) /\ q \ {x} = 1..k
      BY <2>1, <3>1
    <3>3. ShownOf(files, q) = ReadFile(ShownOf(files, q \ {x}), files[x])
      BY <1>1, <3>2
    <3> QED BY <3>1, <3>2, <3>3
  <2> QED BY <2>2, <2>3, <2>4
<1>7. run[1..n] = ShownOf(files, 1..n)
  <2> HIDE DEF S
  <2>1. n \in S
    BY <1>5, <1>6, NatInd
  <2> QED BY <2>1 DEF S
<1>8. ExtractForAnalysis(files) = run[DOMAIN files]
  BY ShownUnfolded DEF run
<1> QED BY <1>7, <1>8

(* The hooks that are gathered; and ErrNoContent only without any script   *)
(* or suspicious file, since the first file is always reached.             *)
LEMMA ScriptsStep ==
  ASSUME NEW files, NEW n \in Nat, DOMAIN files = 1..n,
         NEW shown, shown = ExtractForAnalysis(files)
  PROVE  /\ shown = ShownOf(files, 1..n)
         /\ DOMAIN shown.scripts = HooksOf(files, 1..n)
         /\ HasNoContent(files) =>
              \A i \in 1..n : ~files[i].suspicious /\ DOMAIN files[i].scripts = {}
<1>1. shown = ShownOf(files, 1..n)
  BY FilesAreReadInOrder
<1>2. DOMAIN shown.scripts = HooksOf(files, 1..n)
  BY <1>1 DEF ShownOf
<1>3. ASSUME HasNoContent(files), NEW i \in 1..n
      PROVE  ~files[i].suspicious /\ DOMAIN files[i].scripts = {}
  <2>1. shown.snippets = 0 /\ DOMAIN shown.scripts = {}
    BY <1>3 DEF HasNoContent
  <2>2. IsFiniteSet(1..n)
    BY FS_Interval
  <2>3. Suspicious(files, 1..n) \subseteq 1..n
    BY DEF Suspicious
  <2>4. IsFiniteSet(Suspicious(files, 1..n)) /\ MaxSnippets \in Nat \ {0}
    BY <2>2, <2>3, FS_Subset, BoundsAssumption
  <2>5. Cardinality(Suspicious(files, 1..n)) = 0
    <3>1. shown.snippets = IF Cardinality(Suspicious(files, 1..n)) < MaxSnippets
                           THEN Cardinality(Suspicious(files, 1..n)) ELSE MaxSnippets
      BY <1>1 DEF ShownOf
    <3> QED BY <2>1, <2>4, <3>1
  <2>6. Suspicious(files, 1..n) = {}
    BY <2>4, <2>5, FS_EmptySet
  <2>7. \A j \in 1..n : ~files[j].suspicious
    BY <2>6 DEF Suspicious
  <2>8. {j \in {k \in 1..n : k < i} : files[j].suspicious} = {}
    BY <2>7
  <2>9. i \in Reached(files, 1..n)
    BY <2>4, <2>8, FS_EmptySet DEF Reached, Suspicious
  <2> QED BY <1>2, <2>1, <2>7, <2>9 DEF HooksOf
<1> QED BY <1>1, <1>2, <1>3

(* The files that the loop reaches, counted as in the property.            *)
LEMMA ReachedIs ==
  ASSUME NEW files, NEW n \in Nat
  PROVE  Reached(files, 1..n) =
           {i \in 1..n : Cardinality({j \in 1..(i - 1) : files[j].suspicious}) < MaxSnippets}
<1>1. ASSUME NEW i \in 1..n
      PROVE  Suspicious(files, {j \in 1..n : j < i}) = {j \in 1..(i - 1) : files[j].suspicious}
  <2>1. {j \in 1..n : j < i} = 1..(i - 1)
    OBVIOUS
  <2> QED BY <2>1 DEF Suspicious
<1> QED BY <1>1 DEF Reached

-----------------------------------------------------------------------------
(* YarnParser.Parse before the first line.                                 *)
YarnStart == [name |-> NoText, refs |-> <<>>]

(* One step of the fold that YarnParser.Parse is.                          *)
YarnBody(f, lines, s) ==
  IF s = {} THEN YarnStart ELSE YarnLine(f[s \ {Max(s)}], lines[Max(s)])

(* YarnParser.Parse as a recursive function over sets of lines.            *)
LEMMA YarnUnfolded ==
  ASSUME NEW lines
  PROVE  ParseYarn(lines) =
    (CHOOSE f : f = [s \in SUBSET DOMAIN lines |-> YarnBody(f, lines, s)])[DOMAIN lines].refs
BY DEF ParseYarn, FoldLeft, MapThenFoldSet, YarnBody, YarnStart

(* That function exists for a lock file of any length.                     *)
LEMMA YarnRuns ==
  ASSUME NEW lines, NEW n \in Nat
  PROVE  \E g : g = [s \in SUBSET (1..n) |-> YarnBody(g, lines, s)]
<1> DEFINE S == {k \in Nat : \E g : g = [s \in SUBSET (1..k) |-> YarnBody(g, lines, s)]}
<1>1. 0 \in S
  <2>1. PICK g : g = [s \in SUBSET (1..0) |-> YarnStart]
    OBVIOUS
  <2>2. \A s \in SUBSET (1..0) : YarnBody(g, lines, s) = YarnStart
    BY DEF YarnBody
  <2>3. g = [s \in SUBSET (1..0) |-> YarnBody(g, lines, s)]
    BY <2>1, <2>2
  <2> QED BY <2>3
<1>2. ASSUME NEW k \in Nat, k \in S PROVE k + 1 \in S
  <2>1. PICK g : g = [s \in SUBSET (1..k) |-> YarnBody(g, lines, s)]
    BY <1>2
  <2>2. PICK h : h = [s \in SUBSET (1..(k + 1)) |->
                        IF k + 1 \in s THEN YarnLine(g[s \ {k + 1}], lines[k + 1]) ELSE g[s]]
    OBVIOUS
  <2>3. ASSUME NEW s \in SUBSET (1..(k + 1)) PROVE h[s] = YarnBody(h, lines, s)
    <3>1. CASE k + 1 \in s
      <4>1. \A y \in s : k + 1 >= y
        OBVIOUS
      <4>2. PICK m : m = k + 1
        OBVIOUS
      <4>3. Max(s) = m
        BY <3>1, <4>1, <4>2, MaxIs
      <4>4. s \ {m} \in SUBSET (1..(k + 1)) /\ m \notin s \ {m} /\ s # {}
        BY <3>1, <4>2
      <4>5. h[s \ {m}] = g[s \ {m}]
        BY <2>2, <4>2, <4>4
      <4>6. h[s] = YarnLine(g[s \ {m}], lines[m])
        BY <2>2, <3>1, <4>2
      <4> QED BY <4>3, <4>4, <4>5, <4>6 DEF YarnBody
    <3>2. CASE k + 1 \notin s
      <4>1. s \in SUBSET (1..k)
        BY <3>2
      <4>2. h[s] = g[s] /\ g[s] = YarnBody(g, lines, s)
        BY <2>1, <2>2, <3>2, <4>1
      <4>3. CASE s = {}
        BY <4>2, <4>3 DEF YarnBody
      <4>4. CASE s # {}
        <5>1. PICK m : m = Max(s)
          OBVIOUS
        <5>2. s \ {m} \in SUBSET (1..(k + 1)) /\ k + 1 \notin s \ {m}
          BY <3>2
        <5>3. h[s \ {m}] = g[s \ {m}]
          BY <2>2, <5>2
        <5> QED BY <4>2, <4>4, <5>1, <5>3 DEF YarnBody
      <4> QED BY <4>3, <4>4
    <3> QED BY <3>1, <3>2
  <2>4. h = [s \in SUBSET (1..(k + 1)) |-> YarnBody(h, lines, s)]
    BY <2>2, <2>3
  <2> QED BY <2>4
<1>3. Nat \subseteq S
  <2> HIDE DEF S
  <2> QED BY <1>1, <1>2, NatInd
<1> QED BY <1>3

(* YarnParser.Parse goes through the lines in their order, from the state  *)
(* in which it starts to the one whose refs it returns.                    *)
LEMMA YarnLoop ==
  ASSUME NEW lines, NEW n \in Nat, DOMAIN lines = 1..n
  PROVE  \E st : /\ st[0] = YarnStart
                 /\ \A k \in Nat : k + 1 <= n => st[k + 1] = YarnLine(st[k], lines[k + 1])
                 /\ ParseYarn(lines) = st[n].refs
<1> DEFINE run == CHOOSE f : f = [s \in SUBSET DOMAIN lines |-> YarnBody(f, lines, s)]
<1>1. run = [s \in SUBSET (1..n) |-> YarnBody(run, lines, s)]
  BY YarnRuns
<1>2. ParseYarn(lines) = run[1..n].refs
  BY YarnUnfolded
<1> HIDE DEF run
<1>3. PICK st : st = [k \in 0..n |-> run[1..k]]
  OBVIOUS
<1>4. st[0] = YarnStart
  <2>1. 1..0 = {} /\ {} \in SUBSET (1..n) /\ 0 \in 0..n
    OBVIOUS
  <2>2. st[0] = run[{}]
    BY <1>3, <2>1
  <2>3. run[{}] = YarnBody(run, lines, {})
    BY <1>1, <2>1
  <2> QED BY <2>2, <2>3 DEF YarnBody
<1>5. ASSUME NEW k \in Nat, k + 1 <= n
      PROVE  st[k + 1] = YarnLine(st[k], lines[k + 1])
  <2>1. k \in 0..n /\ k + 1 \in 0..n
    BY <1>5
  <2>2. PICK q : q = 1..(k + 1)
    OBVIOUS
  <2>3. q \in SUBSET (1..n) /\ q # {} /\ Max(q) = k + 1 /\ q \ {k + 1} = 1..k
    <3>1. q \in SUBSET (1..n)
      BY <1>5, <2>2
    <3> QED BY <2>2, <3>1, MaxOfInterval
  <2>4. run[q] = YarnBody(run, lines, q)
    BY <1>1, <2>3
  <2>5. run[q] = YarnLine(run[1..k], lines[k + 1])
    BY <2>3, <2>4 DEF YarnBody
  <2> QED BY <1>3, <2>1, <2>2, <2>5
<1>6. ParseYarn(lines) = st[n].refs
  <2>1. n \in 0..n
    OBVIOUS
  <2> QED BY <1>2, <1>3, <2>1
<1> QED BY <1>4, <1>5, <1>6

(* After line k the header in line h is the one that a version would belong*)
(* to.                                                                     *)
Opens(lines, h, k) ==
  /\ lines[h].is = "header" /\ lines[h].value # NoText
  /\ \A j \in (h + 1)..k : lines[j].is = "other"

(* What the header in line h and the version in line v make.               *)
PairOf(lines, h, v) == [name |-> lines[h].value, version |-> lines[v].value]

(* The version in line v belongs to the header in line h.                  *)
IsPair(lines, h, v) ==
  h < v /\ Opens(lines, h, v - 1) /\ lines[v].is = "version" /\ lines[v].value # NoText

(* The loop invariant of YarnParser.Parse after line k: the name is that of*)
(* the open header, if there is one, and refs lists each pair so far once. *)
YarnHas(lines, k, name, refs) ==
  /\ \A h \in 1..k : Opens(lines, h, k) => name = lines[h].value
  /\ name # NoText => \E h \in 1..k : Opens(lines, h, k) /\ name = lines[h].value
  /\ \E R : refs \in Seq(R)
  /\ IsInjective(refs)
  /\ \A r : r \in ToSet(refs) <=>
              \E h, v \in 1..k : IsPair(lines, h, v) /\ r = PairOf(lines, h, v)

(* The state s of the parser satisfies the loop invariant after line k.    *)
YarnState(lines, k, s) ==
  \E name, refs : s = [name |-> name, refs |-> refs] /\ YarnHas(lines, k, name, refs)

(* The list that YarnParser.Parse appends to, seen before or not.          *)
LEMMA AppendedOnce ==
  ASSUME NEW R, NEW q \in Seq(R), IsInjective(q), NEW r,
         NEW q2, q2 = IF Contains(q, r) THEN q ELSE Append(q, r)
  PROVE  /\ q2 \in Seq(R \cup {r}) /\ IsInjective(q2)
         /\ \A x : x \in ToSet(q2) <=> x \in ToSet(q) \/ x = r
<1>1. Contains(q, r) <=> r \in ToSet(q)
  BY DEF Contains, ToSet
<1>2. q \in Seq(R \cup {r})
  OBVIOUS
<1>3. CASE Contains(q, r)
  BY <1>1, <1>2, <1>3
<1>4. CASE ~Contains(q, r)
  <2>1. q2 = Append(q, r)
    BY <1>4
  <2>2. q2 \in Seq(R \cup {r}) /\ DOMAIN q2 = 1..(Len(q) + 1) /\ q2[Len(q) + 1] = r
        /\ DOMAIN q = 1..Len(q) /\ Len(q) \in Nat
        /\ \A i \in 1..Len(q) : q2[i] = q[i]
    BY <1>2, <2>1
  <2>3. \A i \in 1..Len(q) : q[i] # r
    BY <1>4 DEF Contains
  <2>4. IsInjective(q2)
    <3> SUFFICES ASSUME NEW a \in 1..(Len(q) + 1), NEW b \in 1..(Len(q) + 1), q2[a] = q2[b]
                 PROVE  a = b
      BY <2>2 DEF IsInjective
    <3>1. CASE a = Len(q) + 1 \/ b = Len(q) + 1
      BY <2>2, <2>3, <3>1
    <3>2. CASE a \in 1..Len(q) /\ b \in 1..Len(q)
      BY <2>2, <3>2 DEF IsInjective
    <3> QED BY <2>2, <3>1, <3>2
  <2>5. ASSUME NEW x PROVE x \in ToSet(q2) <=> x \in ToSet(q) \/ x = r
    <3>1. x \in ToSet(q2) <=> \E i \in 1..(Len(q) + 1) : q2[i] = x
      BY <2>2 DEF ToSet
    <3>2. x \in ToSet(q) <=> \E i \in 1..Len(q) : q[i] = x
      BY <2>2 DEF ToSet
    <3>3. (\E i \in 1..(Len(q) + 1) : q2[i] = x) <=> (\E i \in 1..Len(q) : q2[i] = x) \/ x = r
      BY <2>2
    <3>4. (\E i \in 1..Len(q) : q2[i] = x) <=> (\E i \in 1..Len(q) : q[i] = x)
      BY <2>2
    <3> QED BY <3>1, <3>2, <3>3, <3>4
  <2> QED BY <2>2, <2>4, <2>5
<1> QED BY <1>3, <1>4

(* A header stays open over a line that is neither header nor version.     *)
LEMMA OpensNext ==
  ASSUME NEW lines, NEW k \in Nat, NEW h \in 1..k
  PROVE  Opens(lines, h, k + 1) <=> Opens(lines, h, k) /\ lines[k + 1].is = "other"
<1>1. (h + 1)..(k + 1) = ((h + 1)..k) \cup {k + 1}
  OBVIOUS
<1> QED BY <1>1 DEF Opens

(* A header with a name is open after its own line.                        *)
LEMMA OpensHere ==
  ASSUME NEW lines, NEW k \in Nat
  PROVE  Opens(lines, k + 1, k + 1) <=>
           lines[k + 1].is = "header" /\ lines[k + 1].value # NoText
<1>1. (k + 1 + 1)..(k + 1) = {}
  OBVIOUS
<1> QED BY <1>1 DEF Opens

(* Each line, of whichever kind, keeps the loop invariant of               *)
(* YarnParser.Parse.                                                       *)
LEMMA YarnKeeps ==
  ASSUME NEW lines, NEW k \in Nat, NEW s, YarnState(lines, k, s),
         lines[k + 1].is \in {"header", "version", "other"}
  PROVE  YarnState(lines, k + 1, YarnLine(s, lines[k + 1]))
<1> DEFINE x == lines[k + 1]
           t == YarnLine(s, x)
<1>1. PICK name, refs : s = [name |-> name, refs |-> refs] /\ YarnHas(lines, k, name, refs)
  BY DEF YarnState
<1>3. PICK R : refs \in Seq(R)
  BY <1>1 DEF YarnHas
<1>4. /\ \A h \in 1..k : Opens(lines, h, k) => name = lines[h].value
      /\ name # NoText => \E h \in 1..k : Opens(lines, h, k) /\ name = lines[h].value
      /\ IsInjective(refs)
      /\ \A r : r \in ToSet(refs) <=>
                  \E h, v \in 1..k : IsPair(lines, h, v) /\ r = PairOf(lines, h, v)
  BY <1>1 DEF YarnHas
<1>5. \A h \in 1..(k + 1) : h \in 1..k \/ h = k + 1
  OBVIOUS
<1>6. ASSUME NEW r
      PROVE  (\E h, v \in 1..(k + 1) : IsPair(lines, h, v) /\ r = PairOf(lines, h, v))
             <=> \/ r \in ToSet(refs)
                 \/ /\ x.is = "version" /\ x.value # NoText
                    /\ \E h \in 1..k : Opens(lines, h, k) /\ r = PairOf(lines, h, k + 1)
  <2>1. \A h \in 1..(k + 1) : IsPair(lines, h, k + 1) <=>
          h \in 1..k /\ Opens(lines, h, k) /\ x.is = "version" /\ x.value # NoText
    BY <1>5 DEF IsPair
  <2>2. \A v \in 1..k : ~IsPair(lines, k + 1, v)
    BY DEF IsPair
  <2> QED BY <1>4, <1>5, <2>1, <2>2
<1>7. ASSUME NEW n2, NEW q2,
             \A h \in 1..(k + 1) : Opens(lines, h, k + 1) => n2 = lines[h].value,
             n2 # NoText => \E h \in 1..(k + 1) : Opens(lines, h, k + 1) /\ n2 = lines[h].value,
             \E Q : q2 \in Seq(Q), IsInjective(q2),
             \A r : r \in ToSet(q2) <=>
                 \/ r \in ToSet(refs)
                 \/ /\ x.is = "version" /\ x.value # NoText
                    /\ \E h \in 1..k : Opens(lines, h, k) /\ r = PairOf(lines, h, k + 1)
      PROVE  YarnHas(lines, k + 1, n2, q2)
  BY <1>6, <1>7 DEF YarnHas
<1>8. CASE x.is = "header"
  <2>1. t = [name |-> x.value, refs |-> refs]
    BY <1>1, <1>8 DEF YarnLine
  <2>2. \A h \in 1..k : ~Opens(lines, h, k + 1)
    BY <1>8, OpensNext
  <2>3. Opens(lines, k + 1, k + 1) <=> x.value # NoText
    BY <1>8, OpensHere
  <2>4. YarnHas(lines, k + 1, x.value, refs)
    BY <1>3, <1>4, <1>5, <1>7, <1>8, <2>2, <2>3
  <2> QED BY <2>1, <2>4 DEF YarnState
<1>9. CASE x.is = "version" /\ name # NoText
  <2>1. PICK ref : ref = [name |-> name, version |-> x.value]
    OBVIOUS
  <2>2. PICK q2 : q2 = IF x.value = NoText \/ Contains(refs, ref) THEN refs ELSE Append(refs, ref)
    OBVIOUS
  <2>3. t = [name |-> NoText, refs |-> q2]
    BY <1>1, <1>9, <2>1, <2>2 DEF YarnLine
  <2>4. \A h \in 1..(k + 1) : ~Opens(lines, h, k + 1)
    BY <1>5, <1>9, OpensNext, OpensHere
  <2>5. \A h \in 1..k : Opens(lines, h, k) => PairOf(lines, h, k + 1) = ref
    BY <1>4, <2>1 DEF PairOf
  <2>6. \E h \in 1..k : Opens(lines, h, k)
    BY <1>4, <1>9
  <2>7. CASE x.value = NoText
    <3>1. q2 = refs
      BY <2>2, <2>7
    <3>2. YarnHas(lines, k + 1, NoText, refs)
      BY <1>3, <1>4, <1>7, <2>4, <2>7
    <3> QED BY <2>3, <3>1, <3>2 DEF YarnState
  <2>8. CASE x.value # NoText
    <3>1. q2 = IF Contains(refs, ref) THEN refs ELSE Append(refs, ref)
      BY <2>2, <2>8
    <3>2. /\ q2 \in Seq(R \cup {ref}) /\ IsInjective(q2)
          /\ \A r : r \in ToSet(q2) <=> r \in ToSet(refs) \/ r = ref
      BY <1>3, <1>4, <3>1, AppendedOnce
    <3>3. YarnHas(lines, k + 1, NoText, q2)
      BY <1>7, <1>9, <2>4, <2>5, <2>6, <2>8, <3>2
    <3> QED BY <2>3, <3>3 DEF YarnState
  <2> QED BY <2>7, <2>8
<1>10. CASE x.is = "version" /\ name = NoText
  <2>1. t = s
    BY <1>1, <1>10 DEF YarnLine
  <2>2. \A h \in 1..k : ~Opens(lines, h, k)
    BY <1>4, <1>10 DEF Opens
  <2>3. \A h \in 1..(k + 1) : ~Opens(lines, h, k + 1)
    BY <1>5, <1>10, OpensNext, OpensHere
  <2>4. YarnHas(lines, k + 1, name, refs)
    BY <1>3, <1>4, <1>7, <1>10, <2>2, <2>3
  <2> QED BY <1>1, <2>1, <2>4 DEF YarnState
<1>11. CASE x.is = "other"
  <2>1. t = s
    BY <1>1, <1>11 DEF YarnLine
  <2>2. \A h \in 1..k : Opens(lines, h, k + 1) <=> Opens(lines, h, k)
    BY <1>11, OpensNext
  <2>3. ~Opens(lines, k + 1, k + 1)
    BY <1>11, OpensHere
  <2>4. YarnHas(lines, k + 1, name, refs)
    BY <1>3, <1>4, <1>5, <1>7, <1>11, <2>2, <2>3
  <2> QED BY <1>1, <2>1, <2>4 DEF YarnState
<1> QED BY <1>8, <1>9, <1>10, <1>11

(* From any lock file YarnParser.Parse lists each pair of a header and its *)
(* version once, and nothing else.                                         *)
LEMMA YarnReads ==
  ASSUME NEW lines, NEW n \in Nat, DOMAIN lines = 1..n,
         \A i \in 1..n : lines[i].is \in {"header", "version", "other"}
  PROVE  /\ IsInjective(ParseYarn(lines))
         /\ \A r : r \in ToSet(ParseYarn(lines)) <=>
                     \E h, v \in 1..n : IsPair(lines, h, v) /\ r = PairOf(lines, h, v)
<1>1. PICK st : /\ st[0] = YarnStart
                /\ \A k \in Nat : k + 1 <= n => st[k + 1] = YarnLine(st[k], lines[k + 1])
                /\ ParseYarn(lines) = st[n].refs
  BY YarnLoop
<1> DEFINE S == {k \in Nat : k <= n => YarnState(lines, k, st[k])}
<1>2. 0 \in S
  <2>1. YarnHas(lines, 0, NoText, <<>>)
    <3>1. <<>> \in Seq({}) /\ IsInjective(<<>>) /\ \A r : r \notin ToSet(<<>>)
      BY DEF IsInjective, ToSet
    <3> QED BY <3>1 DEF YarnHas
  <2> QED BY <1>1, <2>1 DEF YarnState, YarnStart
<1>3. ASSUME NEW k \in Nat, k \in S PROVE k + 1 \in S
  <2> SUFFICES ASSUME k + 1 <= n PROVE YarnState(lines, k + 1, st[k + 1])
    OBVIOUS
  <2>1. YarnState(lines, k, st[k]) /\ lines[k + 1].is \in {"header", "version", "other"}
    BY <1>3
  <2>2. YarnState(lines, k + 1, YarnLine(st[k], lines[k + 1]))
    BY <2>1, YarnKeeps
  <2> QED BY <1>1, <2>2
<1>4. YarnState(lines, n, st[n])
  <2> HIDE DEF S
  <2>1. n \in S
    BY <1>2, <1>3, NatInd
  <2> QED BY <2>1 DEF S
<1> QED BY <1>1, <1>4 DEF YarnState, YarnHas

-----------------------------------------------------------------------------
(* One step of the fold that the loop of PoetryParser.Parse is.            *)
PoetryBody(f, lines, s) ==
  IF s = {} THEN PoetryStart ELSE PoetryLine(f[s \ {Max(s)}], lines[Max(s)])

(* The loop of PoetryParser.Parse as a recursive function over sets of     *)
(* lines.                                                                  *)
LEMMA PoetryUnfolded ==
  ASSUME NEW lines
  PROVE  FoldLeft(PoetryLine, PoetryStart, lines) =
    (CHOOSE f : f = [s \in SUBSET DOMAIN lines |-> PoetryBody(f, lines, s)])[DOMAIN lines]
BY DEF FoldLeft, MapThenFoldSet, PoetryBody

(* That function exists for a lock file of any length.                     *)
LEMMA PoetryRuns ==
  ASSUME NEW lines, NEW n \in Nat
  PROVE  \E g : g = [s \in SUBSET (1..n) |-> PoetryBody(g, lines, s)]
<1> DEFINE S == {k \in Nat : \E g : g = [s \in SUBSET (1..k) |-> PoetryBody(g, lines, s)]}
<1>1. 0 \in S
  <2>1. PICK g : g = [s \in SUBSET (1..0) |-> PoetryStart]
    OBVIOUS
  <2>2. \A s \in SUBSET (1..0) : PoetryBody(g, lines, s) = PoetryStart
    BY DEF PoetryBody
  <2>3. g = [s \in SUBSET (1..0) |-> PoetryBody(g, lines, s)]
    BY <2>1, <2>2
  <2> QED BY <2>3
<1>2. ASSUME NEW k \in Nat, k \in S PROVE k + 1 \in S
  <2>1. PICK g : g = [s \in SUBSET (1..k) |-> PoetryBody(g, lines, s)]
    BY <1>2
  <2>2. PICK h : h = [s \in SUBSET (1..(k + 1)) |->
                        IF k + 1 \in s THEN PoetryLine(g[s \ {k + 1}], lines[k + 1]) ELSE g[s]]
    OBVIOUS
  <2>3. ASSUME NEW s \in SUBSET (1..(k + 1)) PROVE h[s] = PoetryBody(h, lines, s)
    <3>1. CASE k + 1 \in s
      <4>1. \A y \in s : k + 1 >= y
        OBVIOUS
      <4>2. PICK m : m = k + 1
        OBVIOUS
      <4>3. Max(s) = m
        BY <3>1, <4>1, <4>2, MaxIs
      <4>4. s \ {m} \in SUBSET (1..(k + 1)) /\ m \notin s \ {m} /\ s # {}
        BY <3>1, <4>2
      <4>5. h[s \ {m}] = g[s \ {m}]
        BY <2>2, <4>2, <4>4
      <4>6. h[s] = PoetryLine(g[s \ {m}], lines[m])
        BY <2>2, <3>1, <4>2
      <4> QED BY <4>3, <4>4, <4>5, <4>6 DEF PoetryBody
    <3>2. CASE k + 1 \notin s
      <4>1. s \in SUBSET (1..k)
        BY <3>2
      <4>2. h[s] = g[s] /\ g[s] = PoetryBody(g, lines, s)
        BY <2>1, <2>2, <3>2, <4>1
      <4>3. CASE s = {}
        BY <4>2, <4>3 DEF PoetryBody
      <4>4. CASE s # {}
        <5>1. PICK m : m = Max(s)
          OBVIOUS
        <5>2. s \ {m} \in SUBSET (1..(k + 1)) /\ k + 1 \notin s \ {m}
          BY <3>2
        <5>3. h[s \ {m}] = g[s \ {m}]
          BY <2>2, <5>2
        <5> QED BY <4>2, <4>4, <5>1, <5>3 DEF PoetryBody
      <4> QED BY <4>3, <4>4
    <3> QED BY <3>1, <3>2
  <2>4. h = [s \in SUBSET (1..(k + 1)) |-> PoetryBody(h, lines, s)]
    BY <2>2, <2>3
  <2> QED BY <2>4
<1>3. Nat \subseteq S
  <2> HIDE DEF S
  <2> QED BY <1>1, <1>2, NatInd
<1> QED BY <1>3

(* PoetryParser.Parse goes through the lines in their order and returns the*)
(* refs of its last state once that is flushed.                            *)
LEMMA PoetryLoop ==
  ASSUME NEW lines, NEW n \in Nat, DOMAIN lines = 1..n
  PROVE  \E st : /\ st[0] = PoetryStart
                 /\ \A k \in Nat : k + 1 <= n => st[k + 1] = PoetryLine(st[k], lines[k + 1])
                 /\ ParsePoetry(lines) = Flush(st[n]).refs
<1> DEFINE run == CHOOSE f : f = [s \in SUBSET DOMAIN lines |-> PoetryBody(f, lines, s)]
<1>1. run = [s \in SUBSET (1..n) |-> PoetryBody(run, lines, s)]
  BY PoetryRuns
<1>2. ParsePoetry(lines) = Flush(run[1..n]).refs
  BY PoetryUnfolded DEF ParsePoetry
<1> HIDE DEF run
<1>3. PICK st : st = [k \in 0..n |-> run[1..k]]
  OBVIOUS
<1>4. st[0] = PoetryStart
  <2>1. 1..0 = {} /\ {} \in SUBSET (1..n) /\ 0 \in 0..n
    OBVIOUS
  <2>2. st[0] = run[{}]
    BY <1>3, <2>1
  <2>3. run[{}] = PoetryBody(run, lines, {})
    BY <1>1, <2>1
  <2> QED BY <2>2, <2>3 DEF PoetryBody
<1>5. ASSUME NEW k \in Nat, k + 1 <= n
      PROVE  st[k + 1] = PoetryLine(st[k], lines[k + 1])
  <2>1. k \in 0..n /\ k + 1 \in 0..n
    BY <1>5
  <2>2. PICK q : q = 1..(k + 1)
    OBVIOUS
  <2>3. q \in SUBSET (1..n) /\ q # {} /\ Max(q) = k + 1 /\ q \ {k + 1} = 1..k
    <3>1. q \in SUBSET (1..n)
      BY <1>5, <2>2
    <3> QED BY <2>2, <3>1, MaxOfInterval
  <2>4. run[q] = PoetryBody(run, lines, q)
    BY <1>1, <2>3
  <2>5. run[q] = PoetryLine(run[1..k], lines[k + 1])
    BY <2>3, <2>4 DEF PoetryBody
  <2> QED BY <1>3, <2>1, <2>2, <2>5
<1>6. ParsePoetry(lines) = Flush(st[n]).refs
  <2>1. n \in 0..n
    OBVIOUS
  <2> QED BY <1>2, <1>3, <2>1
<1> QED BY <1>4, <1>5, <1>6

(* Line j opens or ends a section.                                         *)
Boundary(lines, j) == lines[j].is \in {"package", "other"}

(* The section of line i is still open after line k.                       *)
Quiet(lines, i, k) == \A j \in (i + 1)..k : ~Boundary(lines, j)

(* The value that a key has after line k in the section of line i.         *)
Value(lines, i, k, key) ==
  LET given == {j \in (i + 1)..k : lines[j].is = key}
  IN  IF given = {} THEN NoText ELSE lines[Max(given)].value

(* The section of line i is one of development by line k.                  *)
Dev(lines, i, k) == \E j \in (i + 1)..k : lines[j].is = "dev"

(* The section of line i is that of a package which the property expects.  *)
Listed(lines, i) ==
  /\ lines[i].is = "package"
  /\ NoText \notin {LastValue(lines, i, "name"), LastValue(lines, i, "version")}
  /\ ~SectionIsDev(lines, i)

(* What the section of line i is listed as.                                *)
Ref(lines, i) ==
  [name |-> NormalizePoetry(LastValue(lines, i, "name")),
   version |-> LastValue(lines, i, "version")]

(* The expected sections that begin by line k, and those of them that have *)
(* ended.                                                                  *)
ListedUpTo(lines, k) == {i \in 1..k : Listed(lines, i)}

Closed(lines, k) == {i \in ListedUpTo(lines, k) : ~Quiet(lines, i, k)}

(* The list refs has exactly the sections S, in their order.               *)
Lists(lines, S, refs) ==
  /\ \E R : refs \in Seq(R)
  /\ Len(refs) = Cardinality(S)
  /\ \A i \in S : refs[Cardinality({j \in S : j <= i})] = Ref(lines, i)

(* The loop invariant of PoetryParser.Parse after line k: in a package, its*)
(* variables hold what the lines of the one open section gave; outside they*)
(* are reset; and refs has the sections that have ended.                   *)
PoetryHas(lines, k, inPackage, name, version, isDev, refs) ==
  /\ inPackage \in BOOLEAN /\ isDev \in BOOLEAN
  /\ inPackage => \E c \in 1..k :
       /\ lines[c].is = "package" /\ Quiet(lines, c, k)
       /\ name = Value(lines, c, k, "name") /\ version = Value(lines, c, k, "version")
       /\ isDev = Dev(lines, c, k)
  /\ ~inPackage =>
       /\ name = NoText /\ version = NoText /\ isDev = FALSE
       /\ \A c \in 1..k : lines[c].is = "package" => ~Quiet(lines, c, k)
  /\ Lists(lines, Closed(lines, k), refs)

(* Truth values and records are kept apart, since the provers mix them     *)
(* badly.                                                                  *)
On == TRUE

Off == FALSE

(* The state of the parser.                                                *)
Reader(p, a, v, d, refs) ==
  [inPackage |-> p, name |-> a, version |-> v, isDev |-> d, refs |-> refs]

(* The state s of the parser satisfies the loop invariant after line k.    *)
PoetryState(lines, k, s) ==
  \E inPackage, name, version, isDev, refs :
    /\ s = Reader(inPackage, name, version, isDev, refs)
    /\ PoetryHas(lines, k, inPackage, name, version, isDev, refs)

(* A section stays open over a line that opens and ends none.              *)
LEMMA QuietNext ==
  ASSUME NEW lines, NEW k \in Nat, NEW i \in 1..k
  PROVE  Quiet(lines, i, k + 1) <=> Quiet(lines, i, k) /\ ~Boundary(lines, k + 1)
<1>1. (i + 1)..(k + 1) = ((i + 1)..k) \cup {k + 1}
  OBVIOUS
<1> QED BY <1>1 DEF Quiet

(* One more line of a section may make it one of development.              *)
LEMMA DevNext ==
  ASSUME NEW lines, NEW k \in Nat, NEW i \in 1..k
  PROVE  Dev(lines, i, k + 1) <=> Dev(lines, i, k) \/ lines[k + 1].is = "dev"
<1>1. (i + 1)..(k + 1) = ((i + 1)..k) \cup {k + 1}
  OBVIOUS
<1> QED BY <1>1 DEF Dev

(* One more line of a section may give a key another value.                *)
LEMMA ValueNext ==
  ASSUME NEW lines, NEW k \in Nat, NEW i \in 1..k, NEW key
  PROVE  Value(lines, i, k + 1, key) =
           IF lines[k + 1].is = key THEN lines[k + 1].value ELSE Value(lines, i, k, key)
<1>1. (i + 1)..(k + 1) = ((i + 1)..k) \cup {k + 1}
  OBVIOUS
<1> DEFINE given == {j \in (i + 1)..k : lines[j].is = key}
           next == {j \in (i + 1)..(k + 1) : lines[j].is = key}
<1>2. CASE lines[k + 1].is = key
  <2>1. next = given \cup {k + 1}
    BY <1>1, <1>2
  <2>2. next \in SUBSET Nat /\ k + 1 \in next /\ \A y \in next : k + 1 >= y
    BY <2>1
  <2>3. Max(next) = k + 1
    <3> HIDE DEF next
    <3> QED BY <2>2, MaxIs
  <2> QED BY <1>2, <2>2, <2>3 DEF Value
<1>3. CASE lines[k + 1].is # key
  <2>1. next = given
    BY <1>1, <1>3
  <2> QED BY <1>3, <2>1 DEF Value
<1> QED BY <1>2, <1>3

(* A section is open, and without keys, after its first line.              *)
LEMMA SectionStarts ==
  ASSUME NEW lines, NEW k \in Nat
  PROVE  /\ Quiet(lines, k, k) /\ Dev(lines, k, k) = FALSE
         /\ \A key : Value(lines, k, k, key) = NoText
<1>1. (k + 1)..k = {}
  OBVIOUS
<1> QED BY <1>1 DEF Quiet, Dev, Value

(* Where a section ends, at a boundary or at the end of the file, its keys *)
(* have the values that the property speaks of.                            *)
LEMMA SectionEnds ==
  ASSUME NEW lines, NEW n \in Nat, DOMAIN lines = 1..n, Len(lines) = n,
         NEW k \in 0..n, k = n \/ Boundary(lines, k + 1),
         NEW i \in 1..k, Quiet(lines, i, k)
  PROVE  /\ \A key : LastValue(lines, i, key) = Value(lines, i, k, key)
         /\ SectionIsDev(lines, i) <=> Dev(lines, i, k)
<1> DEFINE ends == {n + 1} \cup {j \in 1..n : j > i /\ lines[j].is \in {"package", "other"}}
<1>1. k + 1 \in ends
  BY DEF Boundary
<1>2. \A y \in ends : k + 1 <= y
  <2> SUFFICES ASSUME NEW y \in 1..n, y > i, Boundary(lines, y) PROVE k + 1 <= y
    BY DEF Boundary
  <2>1. y \notin (i + 1)..k
    BY DEF Quiet
  <2> QED BY <2>1
<1>3. ends \subseteq Nat
  OBVIOUS
<1>4. Min(ends) = k + 1
  <2> HIDE DEF ends
  <2>1. \A x \in ends : (\A y \in ends : x <= y) => x = k + 1
    BY <1>1, <1>2, <1>3
  <2> QED BY <1>1, <1>2, <2>1 DEF Min
<1>5. SectionEnd(lines, i) = k + 1
  BY <1>4 DEF SectionEnd
<1>6. SectionEnd(lines, i) - 1 = k
  BY <1>5
<1> QED BY <1>6 DEF LastValue, SectionIsDev, Value, Dev

(* A section behind those in a list is listed by appending it.             *)
LEMMA ListedOneMore ==
  ASSUME NEW lines, NEW S \in SUBSET Nat, IsFiniteSet(S), NEW c \in Nat, \A i \in S : i < c,
         NEW refs, Lists(lines, S, refs)
  PROVE  Lists(lines, S \cup {c}, Append(refs, Ref(lines, c)))
<1> DEFINE T == S \cup {c}
<1>1. PICK R : refs \in Seq(R)
  BY DEF Lists
<1>2. PICK r : r = Ref(lines, c)
  OBVIOUS
<1>3. PICK more : more = Append(refs, r)
  OBVIOUS
<1>4. /\ more \in Seq(R \cup {r}) /\ Len(more) = Len(refs) + 1 /\ Len(refs) \in Nat
      /\ more[Len(refs) + 1] = r /\ \A i \in 1..Len(refs) : more[i] = refs[i]
  <2>1. refs \in Seq(R \cup {r})
    BY <1>1
  <2> QED BY <1>3, <2>1
<1>5. Len(refs) = Cardinality(S) /\ Cardinality(T) = Cardinality(S) + 1
  <2>1. c \notin S
    <3>1. \A i \in S : i \in Nat /\ i < c
      OBVIOUS
    <3> QED BY <3>1
  <2> QED BY <2>1, FS_AddElement DEF Lists
<1>6. ASSUME NEW i \in S PROVE more[Cardinality({j \in T : j <= i})] = Ref(lines, i)
  <2>1. {j \in T : j <= i} = {j \in S : j <= i}
    OBVIOUS
  <2>2. PICK q : q = {j \in S : j <= i}
    OBVIOUS
  <2>3. IsFiniteSet(q) /\ Cardinality(q) <= Cardinality(S) /\ Cardinality(q) \in Nat
    BY <2>2, FS_Subset, FS_CardinalityType
  <2>4. Cardinality(q) # 0
    BY <2>2, <2>3, FS_EmptySet
  <2>5. Cardinality(q) \in 1..Len(refs)
    BY <1>4, <1>5, <2>3, <2>4
  <2>6. refs[Cardinality(q)] = Ref(lines, i)
    BY <2>2 DEF Lists
  <2> QED BY <1>4, <2>1, <2>2, <2>5, <2>6
<1>7. more[Cardinality({j \in T : j <= c})] = r
  <2>1. \A j \in T : j <= c
    <3>1. \A j \in S : j \in Nat /\ j < c
      OBVIOUS
    <3> QED BY <3>1
  <2>2. {j \in T : j <= c} = T
    BY <2>1
  <2> QED BY <1>4, <1>5, <2>2
<1>8. \A i \in T : more[Cardinality({j \in T : j <= i})] = Ref(lines, i)
  BY <1>2, <1>6, <1>7
<1>9. Len(more) = Cardinality(T)
  BY <1>4, <1>5
<1> HIDE DEF T
<1>10. Lists(lines, T, more)
  BY <1>4, <1>8, <1>9 DEF Lists
<1> QED BY <1>2, <1>3, <1>10 DEF T

(* The refs after a flush.                                                 *)
Flushed(p, a, v, d, refs) ==
  IF p /\ NoText \notin {a, v} /\ ~d
  THEN Append(refs, [name |-> NormalizePoetry(a), version |-> v]) ELSE refs

(* What flush leaves of a state of the parser.                             *)
LEMMA FlushIs ==
  ASSUME NEW p, NEW a, NEW v, NEW d, NEW refs
  PROVE  Flush(Reader(p, a, v, d, refs)) =
           Reader(p, NoText, NoText, Off, Flushed(p, a, v, d, refs))
<1>1. PICK s : s = Reader(p, a, v, d, refs)
  OBVIOUS
<1>3. s.inPackage = p /\ s.name = a /\ s.version = v /\ s.isDev = d /\ s.refs = refs
  BY <1>1 DEF Reader
<1>4. (IF s.inPackage /\ NoText \notin {s.name, s.version} /\ ~s.isDev
       THEN Append(s.refs, [name |-> NormalizePoetry(s.name), version |-> s.version])
       ELSE s.refs) = Flushed(p, a, v, d, refs)
  BY <1>3, Zenon DEF Flushed
<1>5. Flush(s) = [s EXCEPT !.name = NoText, !.version = NoText, !.isDev = Off,
                           !.refs = Flushed(p, a, v, d, refs)]
  BY <1>4, Zenon DEF Flush, Off
<1>6. Flush(s) = Reader(p, NoText, NoText, Off, Flushed(p, a, v, d, refs))
  BY <1>1, <1>5 DEF Reader
<1> QED BY <1>1, <1>6

(* What a line makes of a state of the parser, kind by kind.               *)
LEMMA PoetryLineIs ==
  ASSUME NEW p, NEW a, NEW v, NEW d, NEW refs, NEW x, p \in BOOLEAN
  PROVE  PoetryLine(Reader(p, a, v, d, refs), x) =
           IF x.is = "package" THEN Reader(On, NoText, NoText, Off, Flushed(p, a, v, d, refs))
           ELSE IF x.is = "other"
           THEN Reader(Off, NoText, NoText, Off, Flushed(p, a, v, d, refs))
           ELSE IF x.is = "name" /\ p THEN Reader(p, x.value, v, d, refs)
           ELSE IF x.is = "version" /\ p THEN Reader(p, a, x.value, d, refs)
           ELSE IF x.is = "dev" /\ p THEN Reader(p, a, v, On, refs)
           ELSE Reader(p, a, v, d, refs)
<1>1. PICK s : s = Reader(p, a, v, d, refs)
  OBVIOUS
<1>3. PICK f : f = Flush(s)
  OBVIOUS
<1>4. f = Reader(p, NoText, NoText, Off, Flushed(p, a, v, d, refs))
  BY <1>1, <1>3, FlushIs
<1>5. /\ [f EXCEPT !.inPackage = On] =
           Reader(On, NoText, NoText, Off, Flushed(p, a, v, d, refs))
      /\ [f EXCEPT !.inPackage = Off] =
           Reader(Off, NoText, NoText, Off, Flushed(p, a, v, d, refs))
  BY <1>4 DEF Reader
<1>6. /\ [s EXCEPT !.name = x.value] = Reader(p, x.value, v, d, refs)
      /\ [s EXCEPT !.version = x.value] = Reader(p, a, x.value, d, refs)
      /\ [s EXCEPT !.isDev = On] = Reader(p, a, v, On, refs)
      /\ s.inPackage = p
  BY <1>1 DEF Reader
<1>7. PoetryLine(s, x) =
        CASE x.is = "package" -> [f EXCEPT !.inPackage = On]
          [] x.is = "other" -> [f EXCEPT !.inPackage = Off]
          [] x.is = "name" /\ p -> [s EXCEPT !.name = x.value]
          [] x.is = "version" /\ p -> [s EXCEPT !.version = x.value]
          [] x.is = "dev" /\ p -> [s EXCEPT !.isDev = On]
          [] OTHER -> s
  BY <1>3, <1>6, Zenon DEF PoetryLine, On, Off
<1>8. PoetryLine(s, x) =
        CASE x.is = "package" -> Reader(On, NoText, NoText, Off, Flushed(p, a, v, d, refs))
          [] x.is = "other" -> Reader(Off, NoText, NoText, Off, Flushed(p, a, v, d, refs))
          [] x.is = "name" /\ p -> Reader(p, x.value, v, d, refs)
          [] x.is = "version" /\ p -> Reader(p, a, x.value, d, refs)
          [] x.is = "dev" /\ p -> Reader(p, a, v, On, refs)
          [] OTHER -> s
  BY <1>5, <1>6, <1>7, Zenon
<1> QED BY <1>1, <1>8

(* At most one section is open at a time, the last.                        *)
LEMMA OneOpenSection ==
  ASSUME NEW lines, NEW k \in Nat, NEW c \in 1..k, Boundary(lines, c), Quiet(lines, c, k),
         NEW i \in 1..k, Boundary(lines, i)
  PROVE  /\ Quiet(lines, i, k) => i = c
         /\ ~Quiet(lines, i, k) => i < c
<1>1. ~(i > c)
  <2>1. i > c => i \in (c + 1)..k
    OBVIOUS
  <2> QED BY <2>1 DEF Quiet
<1>2. i < c => ~Quiet(lines, i, k)
  <2>1. i < c => c \in (i + 1)..k
    OBVIOUS
  <2> QED BY <2>1 DEF Quiet
<1>3. i = c => Quiet(lines, i, k)
  OBVIOUS
<1>4. i < c \/ i = c \/ i > c
  OBVIOUS
<1> QED BY <1>1, <1>2, <1>3, <1>4

(* A flush at the end of the open section lists it, if it is to be listed, *)
(* behind those that ended before.                                         *)
LEMMA SectionFlushed ==
  ASSUME NEW lines, NEW n \in Nat, DOMAIN lines = 1..n, Len(lines) = n,
         NEW k \in 0..n, k = n \/ Boundary(lines, k + 1),
         NEW p, NEW a, NEW v, NEW d, NEW refs, PoetryHas(lines, k, p, a, v, d, refs)
  PROVE  Lists(lines, ListedUpTo(lines, k),
               Flushed(p, a, v, d, refs))
<1> DEFINE closed == Closed(lines, k)
<1>1. Lists(lines, closed, refs) /\ p \in BOOLEAN
  BY DEF PoetryHas
<1>2. IsFiniteSet(closed) /\ closed \in SUBSET Nat
  <2>1. IsFiniteSet(1..k)
    BY FS_Interval
  <2>2. closed \subseteq 1..k
    BY DEF Closed, ListedUpTo
  <2> QED BY <2>1, <2>2, FS_Subset
<1>3. CASE p
  <2>1. PICK c \in 1..k : /\ lines[c].is = "package" /\ Quiet(lines, c, k)
                          /\ a = Value(lines, c, k, "name") /\ v = Value(lines, c, k, "version")
                          /\ d = Dev(lines, c, k)
    BY <1>3 DEF PoetryHas
  <2>2. /\ LastValue(lines, c, "name") = a /\ LastValue(lines, c, "version") = v
        /\ SectionIsDev(lines, c) <=> d
    BY <2>1, SectionEnds
  <2>3. Listed(lines, c) <=> NoText \notin {a, v} /\ ~d
    BY <2>1, <2>2 DEF Listed
  <2>4. Ref(lines, c) = [name |-> NormalizePoetry(a), version |-> v]
    BY <2>2 DEF Ref
  <2>5. \A i \in ListedUpTo(lines, k) : i \in 1..k /\ Boundary(lines, i)
    BY DEF ListedUpTo, Listed, Boundary
  <2>6. Boundary(lines, c)
    BY <2>1 DEF Boundary
  <2>7. \A i \in ListedUpTo(lines, k) :
          (Quiet(lines, i, k) => i = c) /\ (~Quiet(lines, i, k) => i < c)
    BY <2>1, <2>5, <2>6, OneOpenSection
  <2>8. CASE Listed(lines, c)
    <3>1. ListedUpTo(lines, k) = closed \cup {c}
      BY <2>1, <2>7, <2>8 DEF Closed, ListedUpTo
    <3>2. \A i \in closed : i < c
      BY <2>7 DEF Closed
    <3>3. Lists(lines, closed \cup {c}, Append(refs, Ref(lines, c)))
      <4> HIDE DEF closed
      <4> QED BY <1>1, <1>2, <3>2, ListedOneMore
    <3> QED BY <1>3, <2>3, <2>4, <2>8, <3>1, <3>3 DEF Flushed
  <2>9. CASE ~Listed(lines, c)
    <3>1. ListedUpTo(lines, k) = closed
      BY <2>7, <2>9 DEF Closed, ListedUpTo
    <3> QED BY <1>1, <2>3, <2>9, <3>1 DEF Flushed
  <2> QED BY <2>8, <2>9
<1>4. CASE ~p
  <2>1. \A i \in 1..k : lines[i].is = "package" => ~Quiet(lines, i, k)
    BY <1>4 DEF PoetryHas
  <2>2. ListedUpTo(lines, k) = closed
    BY <2>1 DEF Closed, ListedUpTo, Listed
  <2> QED BY <1>1, <1>4, <2>2 DEF Flushed
<1> QED BY <1>1, <1>3, <1>4

(* A boundary ends the open section, and no other line ends one.           *)
LEMMA ClosedNext ==
  ASSUME NEW lines, NEW k \in Nat
  PROVE  Closed(lines, k + 1) =
           IF Boundary(lines, k + 1) THEN ListedUpTo(lines, k) ELSE Closed(lines, k)
<1>1. 1..(k + 1) = 1..k \cup {k + 1}
  OBVIOUS
<1>2. \A i \in 1..k : Quiet(lines, i, k + 1) <=> Quiet(lines, i, k) /\ ~Boundary(lines, k + 1)
  BY QuietNext
<1>3. Quiet(lines, k + 1, k + 1)
  <2>1. k + 1 \in Nat
    OBVIOUS
  <2> QED BY <2>1, SectionStarts
<1>4. CASE Boundary(lines, k + 1)
  BY <1>1, <1>2, <1>3, <1>4 DEF Closed, ListedUpTo
<1>5. CASE ~Boundary(lines, k + 1)
  <2>1. ~Listed(lines, k + 1)
    BY <1>5 DEF Listed, Boundary
  <2> QED BY <1>1, <1>2, <1>5, <2>1 DEF Closed, ListedUpTo
<1> QED BY <1>4, <1>5

(* Each line, of whichever kind, keeps the loop invariant of               *)
(* PoetryParser.Parse.                                                     *)
LEMMA PoetryKeeps ==
  ASSUME NEW lines, NEW n \in Nat, DOMAIN lines = 1..n, Len(lines) = n,
         NEW k \in Nat, k + 1 <= n, NEW s, PoetryState(lines, k, s)
  PROVE  PoetryState(lines, k + 1, PoetryLine(s, lines[k + 1]))
<1> DEFINE x == lines[k + 1]
<1>1. PICK p, a, v, d, refs : s = Reader(p, a, v, d, refs) /\ PoetryHas(lines, k, p, a, v, d, refs)
  BY DEF PoetryState
<1>2. \A c \in 1..(k + 1) : c \in 1..k \/ c = k + 1
  OBVIOUS
<1>3. /\ \A c \in 1..k : Quiet(lines, c, k + 1) <=> Quiet(lines, c, k) /\ ~Boundary(lines, k + 1)
      /\ Quiet(lines, k + 1, k + 1)
  <2>1. k + 1 \in Nat
    OBVIOUS
  <2> QED BY <2>1, QuietNext, SectionStarts
<1>4. p \in BOOLEAN /\ d \in BOOLEAN
  BY <1>1 DEF PoetryHas
<1>5. PICK t : t = PoetryLine(s, x)
  OBVIOUS
<1>6. CASE x.is \in {"package", "other"}
  <2>1. Boundary(lines, k + 1)
    BY <1>6 DEF Boundary
  <2>2. PICK more : more = Flushed(p, a, v, d, refs)
    OBVIOUS
  <2>3. Lists(lines, Closed(lines, k + 1), more)
    <3>1. Lists(lines, ListedUpTo(lines, k), more)
      <4>1. k \in 0..n
        OBVIOUS
      <4> QED BY <1>1, <2>1, <2>2, <4>1, SectionFlushed
    <3> QED BY <2>1, <3>1, ClosedNext
  <2>4. CASE x.is = "package"
    <3>1. t = Reader(On, NoText, NoText, Off, more)
      BY <1>1, <1>4, <1>5, <2>2, <2>4, PoetryLineIs
    <3>2. /\ k + 1 \in 1..(k + 1)
          /\ NoText = Value(lines, k + 1, k + 1, "name")
          /\ NoText = Value(lines, k + 1, k + 1, "version")
          /\ FALSE = Dev(lines, k + 1, k + 1)
      <4>1. k + 1 \in Nat /\ k + 1 \in 1..(k + 1)
        OBVIOUS
      <4> QED BY <4>1, SectionStarts
    <3>3. PoetryHas(lines, k + 1, On, NoText, NoText, Off, more)
      BY <1>3, <2>3, <2>4, <3>2 DEF PoetryHas, On, Off
    <3> QED BY <1>5, <3>1, <3>3 DEF PoetryState
  <2>5. CASE x.is = "other"
    <3>1. t = Reader(Off, NoText, NoText, Off, more)
      BY <1>1, <1>4, <1>5, <2>2, <2>5, PoetryLineIs
    <3>2. \A c \in 1..(k + 1) : lines[c].is = "package" => ~Quiet(lines, c, k + 1)
      BY <1>2, <1>3, <2>1, <2>5
    <3>3. PoetryHas(lines, k + 1, Off, NoText, NoText, Off, more)
      BY <2>3, <3>2 DEF PoetryHas, Off
    <3> QED BY <1>5, <3>1, <3>3 DEF PoetryState
  <2> QED BY <1>6, <2>4, <2>5
<1>7. CASE x.is \notin {"package", "other"}
  <2>1. ~Boundary(lines, k + 1) /\ Closed(lines, k + 1) = Closed(lines, k)
    BY <1>7, ClosedNext DEF Boundary
  <2>2. Lists(lines, Closed(lines, k + 1), refs)
    BY <1>1, <2>1 DEF PoetryHas
  <2>3. CASE p
    <3>1. PICK c \in 1..k :
            /\ lines[c].is = "package" /\ Quiet(lines, c, k)
            /\ a = Value(lines, c, k, "name") /\ v = Value(lines, c, k, "version")
            /\ d = Dev(lines, c, k)
      BY <1>1, <2>3 DEF PoetryHas
    <3>2. PICK a2, v2, d2 : /\ a2 = Value(lines, c, k + 1, "name")
                            /\ v2 = Value(lines, c, k + 1, "version")
                            /\ d2 = Dev(lines, c, k + 1)
      OBVIOUS
    <3>3. /\ c \in 1..(k + 1) /\ Quiet(lines, c, k + 1)
          /\ d2 = (d \/ x.is = "dev")
          /\ a2 = IF x.is = "name" THEN x.value ELSE a
          /\ v2 = IF x.is = "version" THEN x.value ELSE v
      <4>1. Dev(lines, c, k + 1) <=> Dev(lines, c, k) \/ x.is = "dev"
        BY DevNext
      <4>2. Dev(lines, c, k + 1) \in BOOLEAN
        BY DEF Dev
      <4>3. /\ Value(lines, c, k + 1, "name") = IF x.is = "name" THEN x.value ELSE a
            /\ Value(lines, c, k + 1, "version") = IF x.is = "version" THEN x.value ELSE v
        BY <3>1, ValueNext
      <4> QED BY <1>3, <2>1, <3>1, <3>2, <4>1, <4>2, <4>3
    <3>4. PoetryHas(lines, k + 1, p, a2, v2, d2, refs)
      BY <1>4, <2>2, <2>3, <3>1, <3>2, <3>3 DEF PoetryHas
    <3>5. t = Reader(p, a2, v2, d2, refs)
      <4>1. t = IF x.is = "name" THEN Reader(p, x.value, v, d, refs)
                ELSE IF x.is = "version" THEN Reader(p, a, x.value, d, refs)
                ELSE IF x.is = "dev" THEN Reader(p, a, v, On, refs)
                ELSE Reader(p, a, v, d, refs)
        <5>1. PICK y : y = x
          OBVIOUS
        <5>2. PoetryLine(Reader(p, a, v, d, refs), y) =
                IF y.is = "package"
                THEN Reader(On, NoText, NoText, Off, Flushed(p, a, v, d, refs))
                ELSE IF y.is = "other"
                THEN Reader(Off, NoText, NoText, Off, Flushed(p, a, v, d, refs))
                ELSE IF y.is = "name" /\ p THEN Reader(p, y.value, v, d, refs)
                ELSE IF y.is = "version" /\ p THEN Reader(p, a, y.value, d, refs)
                ELSE IF y.is = "dev" /\ p THEN Reader(p, a, v, On, refs)
                ELSE Reader(p, a, v, d, refs)
          BY <1>4, PoetryLineIs
        <5>3. y.is # "package" /\ y.is # "other"
          BY <1>7, <5>1
        <5> QED BY <1>1, <1>5, <2>3, <5>1, <5>2, <5>3
      <4> QED BY <1>4, <3>3, <4>1 DEF On
    <3> QED BY <1>5, <3>4, <3>5 DEF PoetryState
  <2>4. CASE ~p
    <3>1. p = FALSE /\ a = NoText /\ v = NoText /\ d = FALSE
          /\ \A c \in 1..k : lines[c].is = "package" => ~Quiet(lines, c, k)
      BY <1>1, <1>4, <2>4 DEF PoetryHas
    <3>2. \A c \in 1..(k + 1) : lines[c].is = "package" => ~Quiet(lines, c, k + 1)
      BY <1>2, <1>3, <1>7, <3>1
    <3>3. PoetryHas(lines, k + 1, p, a, v, d, refs)
      BY <1>4, <2>2, <2>4, <3>1, <3>2 DEF PoetryHas
    <3>4. t = s
      BY <1>1, <1>4, <1>5, <1>7, <2>4, PoetryLineIs
    <3> QED BY <1>1, <1>5, <3>3, <3>4 DEF PoetryState
  <2> QED BY <1>4, <2>3, <2>4
<1> QED BY <1>6, <1>7

(* From any lock file PoetryParser.Parse lists the expected sections, in   *)
(* their order.                                                            *)
LEMMA PoetryReads ==
  ASSUME NEW lines, NEW n \in Nat, DOMAIN lines = 1..n, Len(lines) = n
  PROVE  Lists(lines, ListedUpTo(lines, n), ParsePoetry(lines))
<1>1. PICK st : /\ st[0] = PoetryStart
                /\ \A k \in Nat : k + 1 <= n => st[k + 1] = PoetryLine(st[k], lines[k + 1])
                /\ ParsePoetry(lines) = Flush(st[n]).refs
  BY PoetryLoop
<1> DEFINE S == {k \in Nat : k <= n => PoetryState(lines, k, st[k])}
<1>2. 0 \in S
  <2>1. Closed(lines, 0) = {}
    BY DEF Closed, ListedUpTo
  <2>2. Lists(lines, {}, <<>>)
    BY FS_EmptySet DEF Lists
  <2>3. PoetryHas(lines, 0, FALSE, NoText, NoText, FALSE, <<>>)
    <3>1. \A c \in 1..0 : FALSE
      OBVIOUS
    <3> QED BY <2>1, <2>2, <3>1 DEF PoetryHas
  <2>4. st[0] = Reader(FALSE, NoText, NoText, FALSE, <<>>)
    BY <1>1 DEF PoetryStart, Reader
  <2> QED BY <2>3, <2>4 DEF PoetryState
<1>3. ASSUME NEW k \in Nat, k \in S PROVE k + 1 \in S
  <2> SUFFICES ASSUME k + 1 <= n PROVE PoetryState(lines, k + 1, st[k + 1])
    OBVIOUS
  <2>1. PoetryState(lines, k, st[k])
    BY <1>3
  <2>2. PoetryState(lines, k + 1, PoetryLine(st[k], lines[k + 1]))
    BY <2>1, PoetryKeeps
  <2> QED BY <1>1, <2>2
<1>4. PoetryState(lines, n, st[n])
  <2> HIDE DEF S
  <2>1. n \in S
    BY <1>2, <1>3, NatInd
  <2> QED BY <2>1 DEF S
<1>5. PICK p, a, v, d, refs :
        st[n] = Reader(p, a, v, d, refs) /\ PoetryHas(lines, n, p, a, v, d, refs)
  BY <1>4 DEF PoetryState
<1>6. ParsePoetry(lines) = Flushed(p, a, v, d, refs)
  <2>1. Flush(st[n]) = Reader(p, NoText, NoText, Off, Flushed(p, a, v, d, refs))
    BY <1>5, FlushIs
  <2> QED BY <1>1, <2>1 DEF Reader
<1>7. n \in 0..n
  OBVIOUS
<1> QED BY <1>5, <1>6, <1>7, SectionFlushed

-----------------------------------------------------------------------------
(* What a task has computed.                                               *)
PyPILines ==
  <<[is |-> "other"], [is |-> "pinned", name |-> input, version |-> "1"]>>

(* The path of a file at files.pythonhosted.org.                           *)
FilePath(f) ==
  Path(<<PackagesDir, <<"a">>, <<"b">>, <<"c">>, f.name \o <<f.version>> \o f.tags>>, f.ending)

Computed ==
  /\ task = "cve" => output = OSVAnalyze({input})
  /\ task = "badlist" =>
       output = [download |-> KnownBadAnalyze(input.entries, input.popular, input.name,
                                              input.version),
                 byName |-> KnownBadAnalyze(input.entries, input.popular, input.name,
                                            EmptyVersion)]
  /\ task = "heuristics" =>
       output = [less |-> AnalyzeFull(Archive(input.before \o input.after)),
                 more |-> AnalyzeFull(
                            Archive(input.before \o <<input.extra>> \o input.after))]
  /\ task = "extract" => output = ExtractForAnalysis(input)
  /\ task = "answer" =>
       output = LoopVerdict(input.mode, input.earlier \o SetToSeq(ParseClaudeResponse(input)))
  /\ task = "poetry" => output = ParsePoetry(input)
  /\ task = "yarn" => output = ParseYarn(input)
  /\ task = "npm" => output = ParseNPM(input)
  /\ task = "pypi" =>
       output = [poetry |-> NormalizePoetry(input),
                 requirements |-> ParseRequirements(PyPILines)[1].name]
  /\ task = "tarball" =>
       LET path == NPMTarball(input.name, input.version)
       IN  output = [tarball |-> Serve(path), host |-> UpstreamHost(path),
                     meta |-> Serve(Path(input.name, ""))]
  /\ task = "release" =>
       output = [page |-> Serve(Path(<<Simple, input.project>>, "")),
                 files |-> [i \in DOMAIN input.files |-> Serve(FilePath(input.files[i]))],
                 fetched |-> ResolvePyPITarball(input.files)]
  /\ task = "transport" =>
       output = RoundTrip(Outgoing(input.handler, input.body), input.config,
                          input.proxied, input.direct)

AlgorithmsInv == input \in Inputs[task] /\ (done => Computed)

(* A task computes its result from the input that was picked for it.       *)
LEMMA AlgorithmsInvariant == AlgorithmsSpec => []AlgorithmsInv
<1>1. Start => AlgorithmsInv
  BY DEF Start, AlgorithmsInv
<1>2. AlgorithmsInv /\ [Next]_vars => AlgorithmsInv'
  <2> SUFFICES ASSUME AlgorithmsInv, [Next]_vars PROVE AlgorithmsInv'
    OBVIOUS
  <2>1. CASE UNCHANGED vars
    <3>1. task' = task /\ input' = input /\ output' = output /\ done' = done
      BY <2>1 DEF vars
    <3>2. Computed => Computed'
      <4>1. CASE task \in {"badlist", "heuristics"}
        BY <3>1, <4>1 DEF Computed, Archive
      <4>2. CASE task \notin {"badlist", "heuristics"}
        BY <3>1, <4>2 DEF Computed, PyPILines, FilePath
      <4> QED BY <4>1, <4>2
    <3>3. Inputs[task]' = Inputs[task]
      BY <3>1
    <3> QED BY <3>1, <3>2, <3>3 DEF AlgorithmsInv
  <2>2. CASE Next
    <3>1. task' = task /\ input' = input
      BY <2>2 DEF Next, Run, CheckName, ReadVulnerability, ScoreArchive, Extract, ReadAnswer,
         ReadPoetry, ReadYarn, ReadNPM, NormalizeName, AskForNPM, AskForPyPI, SendUpstream
    <3>2. Computed'
      BY <2>2, <3>1 DEF Next, Run, CheckName, ReadVulnerability, ScoreArchive, Extract,
         ReadAnswer, ReadPoetry, ReadYarn, ReadNPM, NormalizeName, AskForNPM, AskForPyPI,
         SendUpstream, Computed, PyPILines, FilePath, Archive
    <3> QED BY <3>1, <3>2 DEF AlgorithmsInv
  <2> QED BY <2>1, <2>2
<1> QED BY <1>1, <1>2, PTL DEF AlgorithmsSpec

(* The inputs of the tasks that are proved about.                          *)
LEMMA InputsAre ==
  ASSUME AlgorithmsInv
  PROVE  /\ task = "cve" =>
              input \in [scores : BoundedSeq([type : ScoreType, score : Scores], 2),
                         db : DatabaseSeverity]
         /\ task = "badlist" =>
              input \in [entries : SUBSET Entries, popular : {{}} \cup {{p} : p \in Words},
                         name : Words, version : Versions]
         /\ task = "heuristics" =>
              input \in [before : BoundedSeq(ArchiveFiles, MaxFiles), extra : ArchiveFiles,
                         after : BoundedSeq(ArchiveFiles, MaxFiles)]
         /\ task = "extract" => input \in BoundedSeq(ClaudeFiles, MaxSnippets + 1)
         /\ task = "answer" =>
              input \in [earlier : BoundedSeq(Severity, MaxFindings), mode : Mode,
                         findings : SUBSET {"critical", "medium", "low"}, reasoned : BOOLEAN,
                         verdict : Verdict \cup {""}]
         /\ task = "poetry" => input \in BoundedSeq(PoetryLines, MaxLines)
         /\ task = "yarn" => input \in BoundedSeq(YarnLines, MaxLines)
         /\ task = "pypi" => input \in PyPINames
         /\ task = "tarball" => input \in [name : NPMNames, version : NPMVersions]
         /\ task = "release" =>
              input \in UNION {[project : {p}, files : BoundedSeq(PyPIFiles[p], MaxPyPIFiles)] :
                                 p \in DOMAIN PyPIFiles}
         /\ task = "transport" =>
              input \in [handler : {"tarball", "meta", "simple", "transparent"},
                         body : {"none", "small", "large"},
                         config : {"none", "broken", "proxy"},
                         proxied : {"error", "407", "ok"}, direct : {"error", "ok"}]
<1>1. Inputs.cve = [scores : BoundedSeq([type : ScoreType, score : Scores], 2),
                    db : DatabaseSeverity]
  BY DEF Inputs
<1>2. Inputs.answer =
        [earlier : BoundedSeq(Severity, MaxFindings), mode : Mode,
         findings : SUBSET {"critical", "medium", "low"}, reasoned : BOOLEAN,
         verdict : Verdict \cup {""}]
  BY DEF Inputs
<1>3. Inputs.pypi = PyPINames
  BY DEF Inputs
<1>4. Inputs.transport =
        [handler : {"tarball", "meta", "simple", "transparent"},
         body : {"none", "small", "large"}, config : {"none", "broken", "proxy"},
         proxied : {"error", "407", "ok"}, direct : {"error", "ok"}]
  BY DEF Inputs
<1>5. /\ Inputs.extract = BoundedSeq(ClaudeFiles, MaxSnippets + 1)
      /\ Inputs.poetry = BoundedSeq(PoetryLines, MaxLines)
      /\ Inputs.yarn = BoundedSeq(YarnLines, MaxLines)
      /\ Inputs.tarball = [name : NPMNames, version : NPMVersions]
      /\ Inputs.release =
           UNION {[project : {p}, files : BoundedSeq(PyPIFiles[p], MaxPyPIFiles)] :
                    p \in DOMAIN PyPIFiles}
  BY DEF Inputs
<1>6. /\ Inputs.badlist =
           [entries : SUBSET Entries, popular : {{}} \cup {{p} : p \in Words},
            name : Words, version : Versions]
      /\ Inputs.heuristics =
           [before : BoundedSeq(ArchiveFiles, MaxFiles), extra : ArchiveFiles,
            after : BoundedSeq(ArchiveFiles, MaxFiles)]
  BY DEF Inputs
<1>7. input \in Inputs[task]
  BY DEF AlgorithmsInv
<1> QED BY <1>1, <1>2, <1>3, <1>4, <1>5, <1>6, <1>7

(* The sequences of bounded length are sequences.                          *)
LEMMA BoundedAreSequences ==
  ASSUME NEW S, NEW n \in Nat
  PROVE  BoundedSeq(S, n) \subseteq Seq(S)
BY DEF BoundedSeq, SeqOf

(* A set of numbers has a least one.                                       *)
LEMMA LeastOf ==
  ASSUME NEW S \in SUBSET Nat, S # {}
  PROVE  Min(S) \in S /\ \A y \in S : Min(S) <= y
<1> DEFINE R == {p \in Nat \X Nat : p[1] < p[2]}
<1>1. PICK m \in S : \A y \in S : ~(<<y, m>> \in R)
  <2>1. IsWellFoundedOn(R, Nat)
    BY NatOrder
  <2> HIDE DEF R
  <2> QED BY <2>1, WFMin
<1>2. ASSUME NEW y \in S PROVE m <= y
  <2>1. m \in Nat /\ y \in Nat /\ ~(y < m)
    BY <1>1
  <2> QED BY <2>1
<1> QED BY <1>1, <1>2 DEF Min

(* The score that is read, if any, is one of those given.                  *)
LEMMA ScoreIsNumber ==
  ASSUME NEW v, v.scores \in Seq([type : ScoreType, score : Scores])
  PROVE  ParseCVSS(v) \in Nat
<1> DEFINE usable == {i \in DOMAIN v.scores :
                        v.scores[i].type # "CVSS_V4" /\ v.scores[i].score > 0}
<1>1. CASE usable = {}
  BY <1>1 DEF ParseCVSS
<1>2. CASE usable # {}
  <2>1. usable \in SUBSET Nat
    OBVIOUS
  <2>2. PICK i : i = Min(usable)
    OBVIOUS
  <2>3. i \in usable
    BY <1>2, <2>1, <2>2, LeastOf
  <2>4. PICK q : q = v.scores
    OBVIOUS
  <2>5. v.scores[i].score \in Nat
    <3>1. i \in DOMAIN q
      BY <2>3, <2>4
    <3>2. q \in Seq([type : ScoreType, score : Scores])
      BY <2>4
    <3>3. q[i] \in [type : ScoreType, score : Scores]
      <4>1. \A T : q \in Seq(T) => q[i] \in T
        BY <3>1
      <4> QED BY <3>2, <4>1
    <3>4. PICK e : e = q[i]
      OBVIOUS
    <3>5. e.score \in Scores
      BY <3>3, <3>4
    <3>6. e.score \in Nat
      <4>1. \A x \in Scores : x \in Nat
        BY BoundsAssumption
      <4> QED BY <3>5, <4>1
    <3> QED BY <2>4, <3>4, <3>6
  <2>6. ParseCVSS(v) = v.scores[i].score
    BY <1>2, <2>2 DEF ParseCVSS
  <2> QED BY <2>5, <2>6
<1> QED BY <1>1, <1>2

(* Each finding of a vulnerability that has only a score or only a word is *)
(* grave if and only if it reaches the default threshold.                  *)
THEOREM DefaultThresholdIsGrave ==
  ASSUME BlockCVSSThreshold = 70
  PROVE  AlgorithmsSpec => []SeverityFollowsScore
<1>1. AlgorithmsInv => SeverityFollowsScore
  <2> SUFFICES ASSUME AlgorithmsInv, done, task = "cve",
                      ParseCVSS(input) = 0 \/ input.db = NoWord, NEW f \in output
               PROVE  f.highCVSS <=> f.severity \in Grave
    BY DEF SeverityFollowsScore, Done
  <2>1. output = OSVAnalyze({input})
    BY DEF AlgorithmsInv, Computed
  <2>2. input \in [scores : BoundedSeq([type : ScoreType, score : Scores], 2),
                   db : DatabaseSeverity]
    BY InputsAre
  <2>3. input.scores \in Seq([type : ScoreType, score : Scores]) /\ input.db \in DatabaseSeverity
    BY <2>2, BoundedAreSequences
  <2>4. ParseCVSS(input) \in Nat
    BY <2>3, ScoreIsNumber
  <2> QED BY <2>1, <2>3, <2>4, SeverityStep
<1> QED BY <1>1, AlgorithmsInvariant, PTL

(* A list is one over a larger set, too.                                   *)
LEMMA SeqOfSubset ==
  ASSUME NEW S, NEW T, S \subseteq T
  PROVE  Seq(S) \subseteq Seq(T)
OBVIOUS

(* The elements of two lists in a row.                                     *)
LEMMA JoinedSet ==
  ASSUME NEW S, NEW a \in Seq(S), NEW b \in Seq(S)
  PROVE  a \o b \in Seq(S) /\ ToSet(a \o b) = ToSet(a) \cup ToSet(b)
<1>1. a \o b \in Seq(S) /\ Len(a \o b) = Len(a) + Len(b)
  OBVIOUS
<1>2. /\ \A i \in 1..Len(a) : (a \o b)[i] = a[i]
      /\ \A j \in 1..Len(b) : (a \o b)[Len(a) + j] = b[j]
  OBVIOUS
<1>3. PICK c \in Seq(S) : c = a \o b
  BY <1>1
<1>4. ASSUME NEW x \in ToSet(c) PROVE x \in ToSet(a) \cup ToSet(b)
  <2>1. PICK i \in 1..Len(c) : x = c[i]
    BY <1>4 DEF ToSet
  <2>2. CASE i <= Len(a)
    BY <1>2, <1>3, <2>1, <2>2 DEF ToSet
  <2>3. CASE i > Len(a)
    <3>1. i - Len(a) \in 1..Len(b) /\ Len(a) + (i - Len(a)) = i
      BY <1>1, <1>3, <2>3
    <3>2. x = b[i - Len(a)]
      BY <1>2, <1>3, <2>1, <3>1
    <3> QED BY <3>1, <3>2 DEF ToSet
  <2> QED BY <2>2, <2>3
<1>5. ASSUME NEW x \in ToSet(a) \cup ToSet(b) PROVE x \in ToSet(c)
  <2>1. CASE x \in ToSet(a)
    <3>1. PICK i \in 1..Len(a) : x = a[i]
      BY <2>1 DEF ToSet
    <3>2. i \in 1..Len(c) /\ x = c[i]
      BY <1>1, <1>2, <1>3, <3>1
    <3> QED BY <3>2 DEF ToSet
  <2>2. CASE x \in ToSet(b)
    <3>1. PICK j \in 1..Len(b) : x = b[j]
      BY <2>2 DEF ToSet
    <3>2. Len(a) + j \in 1..Len(c) /\ x = c[Len(a) + j]
      BY <1>1, <1>2, <1>3, <3>1
    <3> QED BY <3>2 DEF ToSet
  <2> QED BY <2>1, <2>2
<1> QED BY <1>1, <1>3, <1>4, <1>5

(* parseClaudeResponse: the severities it reads are as grave as those that *)
(* the answer spoke of, also where it makes up the finding.                *)
LEMMA AnswerIsRead ==
  ASSUME NEW x, x.findings \in SUBSET {"critical", "medium", "low"},
         NEW said,
         said = IF x.findings # {} THEN x.findings
                ELSE IF ~x.reasoned THEN {}
                ELSE IF x.verdict = "block" THEN {"critical"}
                ELSE IF x.verdict = "allow" THEN {} ELSE {"medium"},
         NEW read, read = ParseClaudeResponse(x)
  PROVE  /\ read \in SUBSET {"critical", "high", "medium", "low"}
         /\ (\E s \in read : s \in Grave) <=> (\E s \in said : s \in Grave)
         /\ "medium" \in read <=> "medium" \in said
<1>1. CASE x.findings # {}
  <2>1. \A s \in x.findings : ParseSeverity(s) = s
    BY DEF ParseSeverity, Severity
  <2>2. read = {ParseSeverity(s) : s \in x.findings}
    BY <1>1 DEF ParseClaudeResponse
  <2>3. read = x.findings /\ said = x.findings
    BY <1>1, <2>1, <2>2
  <2> QED BY <2>3
<1>2. CASE x.findings = {} /\ (x.verdict = "allow" \/ ~x.reasoned)
  <2>1. read = {ParseSeverity(s) : s \in x.findings}
    BY <1>2 DEF ParseClaudeResponse
  <2>2. read = {} /\ said = {}
    BY <1>2, <2>1
  <2> QED BY <2>2
<1>3. CASE x.findings = {} /\ x.verdict # "allow" /\ x.reasoned
  <2>1. read = {IF x.verdict = "block" THEN "high" ELSE "medium"}
    BY <1>3 DEF ParseClaudeResponse
  <2>2. said = IF x.verdict = "block" THEN {"critical"} ELSE {"medium"}
    BY <1>3
  <2> QED BY <2>1, <2>2 DEF Grave
<1> QED BY <1>1, <1>2, <1>3

(* A word of Claude against a package counts, and takes back nothing, after*)
(* any number of findings.                                                 *)
THEOREM ClaudesWordAlwaysCounts == AlgorithmsSpec => []ClaudesWordCounts
<1>1. AlgorithmsInv => ClaudesWordCounts
  <2> SUFFICES ASSUME AlgorithmsInv, done, task = "answer" PROVE ClaudesWordCounts
    BY DEF ClaudesWordCounts, Done
  <2>1. input \in [earlier : BoundedSeq(Severity, MaxFindings), mode : Mode,
                   findings : SUBSET {"critical", "medium", "low"}, reasoned : BOOLEAN,
                   verdict : Verdict \cup {""}]
    BY InputsAre
  <2>2. input.earlier \in Seq(Severity)
    BY <2>1, BoundedAreSequences, BoundsAssumption
  <2>3. PICK read : read = ParseClaudeResponse(input)
    OBVIOUS
  <2>4. PICK said :
          said = IF input.findings # {} THEN input.findings
                 ELSE IF ~input.reasoned THEN {}
                 ELSE IF input.verdict = "block" THEN {"critical"}
                 ELSE IF input.verdict = "allow" THEN {} ELSE {"medium"}
    OBVIOUS
  <2>5. /\ read \in SUBSET {"critical", "high", "medium", "low"}
        /\ (\E s \in read : s \in Grave) <=> (\E s \in said : s \in Grave)
        /\ "medium" \in read <=> "medium" \in said
    <3>1. PICK x : x = input
      OBVIOUS
    <3>2. x.findings \in SUBSET {"critical", "medium", "low"}
      BY <2>1, <3>1
    <3>3. read = ParseClaudeResponse(x)
      BY <2>3, <3>1
    <3>4. said = IF x.findings # {} THEN x.findings
                 ELSE IF ~x.reasoned THEN {}
                 ELSE IF x.verdict = "block" THEN {"critical"}
                 ELSE IF x.verdict = "allow" THEN {} ELSE {"medium"}
      BY <2>4, <3>1
    <3> QED BY <3>2, <3>3, <3>4, AnswerIsRead
  <2>6. PICK claude : claude = SetToSeq(read)
    OBVIOUS
  <2>7. claude \in Seq(read) /\ ToSet(claude) = read
    <3>1. IsFiniteSet({"critical", "high", "medium", "low"})
      <4>1. IsFiniteSet({"critical"}) /\ IsFiniteSet({"high"}) /\ IsFiniteSet({"medium"})
            /\ IsFiniteSet({"low"})
        BY FS_Singleton
      <4>2. IsFiniteSet({"critical"} \cup {"high"}) /\ IsFiniteSet({"medium"} \cup {"low"})
        BY <4>1, FS_Union
      <4>3. IsFiniteSet(({"critical"} \cup {"high"}) \cup ({"medium"} \cup {"low"}))
        BY <4>2, FS_Union
      <4>4. ({"critical"} \cup {"high"}) \cup ({"medium"} \cup {"low"})
              = {"critical", "high", "medium", "low"}
        OBVIOUS
      <4> QED BY <4>3, <4>4
    <3> QED BY <2>5, <2>6, <3>1, FS_Subset, SetAsSequence
  <2>8. PICK list : list = input.earlier \o claude
    OBVIOUS
  <2>9. list \in Seq(Severity) /\ ToSet(list) = ToSet(input.earlier) \cup read
    <3>1. claude \in Seq(Severity)
      <4>1. read \subseteq Severity
        BY <2>5 DEF Severity
      <4> QED BY <2>7, <4>1, SeqOfSubset
    <3> QED BY <2>2, <2>7, <2>8, <3>1, JoinedSet
  <2>10. output = LoopVerdict(input.mode, list)
    BY <2>3, <2>6, <2>8 DEF AlgorithmsInv, Computed
  <2>11. output = ComputeVerdict(input.mode,
           {[severity |-> s, highCVSS |-> FALSE] : s \in ToSet(input.earlier) \cup read})
    BY <2>1, <2>9, <2>10, LoopIsComputeVerdict
  <2>12. output = ComputeVerdict(input.mode,
           {[severity |-> s, highCVSS |-> FALSE] : s \in ToSet(input.earlier) \cup said})
    <3>1. PICK S, T : S = ToSet(input.earlier) \cup read /\ T = ToSet(input.earlier) \cup said
      OBVIOUS
    <3>2. /\ (\E x \in S : x \in Grave) <=> (\E x \in T : x \in Grave)
          /\ "medium" \in S <=> "medium" \in T
      BY <2>5, <3>1
    <3>3. output = IF \E x \in S : x \in Grave
                   THEN IF input.mode = "enforce" THEN "block" ELSE "warn"
                   ELSE IF "medium" \in S THEN "warn" ELSE "allow"
      BY <2>11, <3>1, VerdictOfSeverities
    <3>4. output = IF \E x \in T : x \in Grave
                   THEN IF input.mode = "enforce" THEN "block" ELSE "warn"
                   ELSE IF "medium" \in T THEN "warn" ELSE "allow"
      BY <3>2, <3>3
    <3>5. ComputeVerdict(input.mode, {[severity |-> x, highCVSS |-> FALSE] : x \in T})
            = IF \E x \in T : x \in Grave
              THEN IF input.mode = "enforce" THEN "block" ELSE "warn"
              ELSE IF "medium" \in T THEN "warn" ELSE "allow"
      BY VerdictOfSeverities
    <3> QED BY <3>1, <3>4, <3>5
  <2>13. said = CASE input.findings # {} -> input.findings
                  [] input.findings = {} /\ input.reasoned ->
                       CASE input.verdict = "block" -> {"critical"}
                         [] input.verdict = "allow" -> {}
                         [] OTHER -> {"medium"}
                  [] OTHER -> {}
    BY <2>4
  <2> QED BY <2>12, <2>13 DEF ClaudesWordCounts
<1> QED BY <1>1, AlgorithmsInvariant, PTL

(* Of an archive with any number of files Claude is shown every lifecycle  *)
(* hook that the break of the loop lets it reach, with the command of the  *)
(* last file that has it, and there is no content only without scripts and *)
(* suspicious code (extractForAnalysis, ErrNoContent).                     *)
THEOREM EveryReachedScriptIsShown == AlgorithmsSpec => []ScriptsAreShown
<1>1. AlgorithmsInv => ScriptsAreShown
  <2> SUFFICES ASSUME AlgorithmsInv, done, task = "extract" PROVE ScriptsAreShown
    BY DEF ScriptsAreShown, Done
  <2> DEFINE n == Len(input)
  <2>0. n \in Nat /\ DOMAIN input = 1..n /\ output = ExtractForAnalysis(input)
    <3>1. input \in Seq(ClaudeFiles)
      BY InputsAre, BoundedAreSequences, BoundsAssumption
    <3> QED BY <3>1 DEF AlgorithmsInv, Computed
  <2> HIDE DEF n
  <2> DEFINE reached == {i \in DOMAIN input :
                Cardinality({j \in 1..(i - 1) : input[j].suspicious}) < MaxSnippets}
             having(h) == {i \in reached : h \in DOMAIN input[i].scripts}
  <2>1. output = ShownOf(input, 1..n) /\ DOMAIN output.scripts = HooksOf(input, 1..n)
    BY <2>0, ScriptsStep
  <2>2. HasNoContent(input) =>
          \A i \in DOMAIN input : ~input[i].suspicious /\ DOMAIN input[i].scripts = {}
    BY <2>0, ScriptsStep
  <2>3. reached = Reached(input, 1..n)
    BY <2>0, ReachedIs
  <2> HIDE DEF reached
  <2>4. \A h : having(h) = Having(input, 1..n, h)
    BY <2>3 DEF Having
  <2>5. \A i \in reached : DOMAIN input[i].scripts \subseteq DOMAIN output.scripts
    BY <2>1, <2>3 DEF HooksOf
  <2>6. output.scripts =
          [h \in HooksOf(input, 1..n) |-> input[Max(Having(input, 1..n, h))].scripts[h]]
    BY <2>1 DEF ShownOf
  <2>7. \A h \in DOMAIN output.scripts : output.scripts[h] = input[Max(having(h))].scripts[h]
    <3> HIDE DEF having
    <3> QED BY <2>1, <2>4, <2>6
  <2> QED BY <2>2, <2>5, <2>7 DEF ScriptsAreShown, reached
<1> QED BY <1>1, AlgorithmsInvariant, PTL

-----------------------------------------------------------------------------
(* The downloads.                                                          *)

(* What a list is that is joined of two.                                   *)
LEMMA Joined ==
  ASSUME NEW S, NEW a \in Seq(S), NEW b \in Seq(S), NEW c, c = a \o b
  PROVE  /\ c \in Seq(S) /\ Len(c) = Len(a) + Len(b)
         /\ \A i \in 1..Len(a) : c[i] = a[i]
         /\ \A i \in 1..Len(b) : c[Len(a) + i] = b[i]
         /\ a # <<>> => c # <<>> /\ c[1] = a[1]
         /\ SubSeq(c, 1, Len(a)) = a /\ SubSeq(c, Len(a) + 1, Len(c)) = b
OBVIOUS

(* npmTarballRe finds a version in each file name of npm, and reads all of *)
(* it if and only if no piece after the first begins with a digit.         *)
LEMMA VersionIsRead ==
  ASSUME NEW P, NEW q \in Seq(P), q # <<>>, NEW v \in Seq(P), v # <<>>, v[1] \in Numeric,
         NEW stem, stem = q \o v
  PROVE  /\ VersionStart(stem) > 0
         /\ SubSeq(stem, VersionStart(stem), Len(stem)) = v <=>
              \A i \in 2..Len(v) : v[i] \notin Numeric
<1> DEFINE starts == {i \in 2..Len(stem) : stem[i] \in Numeric}
<1>1. PICK l \in Nat, m \in Nat : Len(q) = l /\ Len(v) = m /\ l > 0 /\ m > 0
  OBVIOUS
<1>2. /\ stem \in Seq(P) /\ Len(stem) = l + m
      /\ \A i \in 1..m : stem[l + i] = v[i]
      /\ SubSeq(stem, l + 1, l + m) = v
  <2>1. /\ stem \in Seq(P) /\ Len(stem) = Len(q) + Len(v)
        /\ \A i \in 1..Len(v) : stem[Len(q) + i] = v[i]
        /\ SubSeq(stem, Len(q) + 1, Len(stem)) = v
    BY Joined
  <2> QED BY <1>1, <2>1
<1>3. l + 1 \in starts
  <2>1. stem[l + 1] = v[1]
    BY <1>1, <1>2
  <2> QED BY <1>1, <1>2, <2>1
<1>4. PICK s : s = Max(starts)
  OBVIOUS
<1>5. s \in starts /\ \A y \in starts : s >= y
  <2>1. starts \in SUBSET (1..(l + m)) /\ l + m \in Nat
    BY <1>1, <1>2
  <2> HIDE DEF starts
  <2> QED BY <1>3, <1>4, <2>1, MaxIsGreatest
<1>6. VersionStart(stem) = s
  BY <1>3, <1>4 DEF VersionStart
<1>7. s \in (l + 1)..(l + m) /\ stem[s] \in Numeric
  BY <1>1, <1>2, <1>3, <1>5
<1>8. CASE s = l + 1
  <2>1. SubSeq(stem, s, Len(stem)) = v
    BY <1>1, <1>2, <1>8
  <2>2. ASSUME NEW i \in 2..m PROVE v[i] \notin Numeric
    <3>1. l + i \notin starts
      BY <1>1, <1>5, <1>8
    <3> QED BY <1>1, <1>2, <3>1
  <2> QED BY <1>1, <1>6, <1>7, <2>1, <2>2
<1>9. CASE s > l + 1
  <2>1. Len(SubSeq(stem, s, Len(stem))) = l + m - s + 1
    BY <1>1, <1>2, <1>7
  <2>2. SubSeq(stem, s, Len(stem)) # v
    BY <1>1, <1>7, <1>9, <2>1
  <2>3. PICK i \in 2..m : s = l + i
    <3>1. s - l \in 2..m /\ s = l + (s - l)
      BY <1>1, <1>7, <1>9
    <3> QED BY <3>1
  <2>4. v[i] \in Numeric
    BY <1>1, <1>2, <1>7, <2>3
  <2> QED BY <1>1, <1>6, <1>7, <2>2, <2>3, <2>4
<1> QED BY <1>1, <1>6, <1>7, <1>8, <1>9

(* The last segment of the name of any npm package.                        *)
LEMMA LastNameIs ==
  ASSUME NEW name \in NPMNames
  PROVE  Last(name) \in Seq(Piece) /\ Last(name) # <<>>
<1>1. name \in Seq(Seq(Piece)) /\ name # <<>>
  BY DownloadsAssumption
<1>2. Len(name) \in DOMAIN name
  BY <1>1
<1>3. name[Len(name)] \in ToSet(name) /\ name[Len(name)] \in Seq(Piece)
  BY <1>1, <1>2 DEF ToSet
<1>4. <<>> \notin ToSet(name)
  BY DownloadsAssumption
<1> QED BY <1>3, <1>4 DEF Last

(* The version that is read from the tarball of any npm package.           *)
LEMMA NPMVersionIsRead ==
  ASSUME NEW name \in NPMNames, NEW version \in NPMVersions,
         NEW stem, stem = Last(name) \o version
  PROVE  SubSeq(stem, VersionStart(stem), Len(stem)) = version <=>
           \A i \in 2..Len(version) : version[i] \notin Numeric
<1>1. version \in Seq(Piece) /\ version # <<>> /\ version[1] \in Numeric
  BY DownloadsAssumption
<1>2. Last(name) \in Seq(Piece) /\ Last(name) # <<>>
  BY LastNameIs
<1> QED BY <1>1, <1>2, VersionIsRead

(* A path that begins with the name of an npm package is read as one of    *)
(* that package.                                                           *)
LEMMA NameIsRead ==
  ASSUME NEW name \in NPMNames, NEW T, NEW tail \in Seq(T), NEW ending,
         NEW path, path = Path(name \o tail, ending)
  PROVE  /\ NameLength(path) = Len(name) /\ Len(name) \in {1, 2}
         /\ SubSeq(path.segments, 1, Len(name)) = name
         /\ path.segments[1] = name[1] /\ Len(path.segments) = Len(name) + Len(tail)
         /\ path.ending = ending
<1>1. name \in Seq(Seq(Piece)) /\ name # <<>> /\ Len(name) \in {1, 2}
      /\ (IsScope(name[1]) <=> Len(name) = 2)
  BY DownloadsAssumption
<1>2. PICK segments : segments = name \o tail
  OBVIOUS
<1>3. path.segments = segments /\ path.ending = ending
  BY <1>2 DEF Path
<1>4. /\ segments \in Seq(Seq(Piece) \cup T) /\ segments # <<>>
      /\ Len(segments) = Len(name) + Len(tail)
      /\ segments[1] = name[1] /\ SubSeq(segments, 1, Len(name)) = name
  <2>1. name \in Seq(Seq(Piece) \cup T) /\ tail \in Seq(Seq(Piece) \cup T)
    BY <1>1, SeqOfSubset
  <2>2. Len(segments) = Len(name) + Len(tail) /\ Len(name) \in Nat /\ Len(tail) \in Nat
    BY <1>2, <2>1, Joined
  <2> QED BY <1>1, <1>2, <2>1, <2>2, Joined
<1>5. NameLength(path) = Len(name)
  BY <1>1, <1>3, <1>4 DEF NameLength
<1> QED BY <1>1, <1>3, <1>4, <1>5

(* Only packages called simple and packages have paths that look like those*)
(* of PyPI.                                                                *)
LEMMA NotPyPI ==
  ASSUME NEW name \in NPMNames
  PROVE  /\ name[1] = Simple => name = <<Simple>>
         /\ name[1] = PackagesDir => name = <<PackagesDir>>
<1>1. name \in Seq(Seq(Piece)) /\ name # <<>> /\ Len(name) \in {1, 2}
      /\ (IsScope(name[1]) <=> Len(name) = 2)
  BY DownloadsAssumption
<1>2. ~IsScope(Simple) /\ ~IsScope(PackagesDir)
  BY DownloadsAssumption DEF IsScope, Simple, PackagesDir
<1> QED BY <1>1, <1>2

(* serve and upstreamHost, of the tarball of any npm package.              *)
LEMMA NPMTarballIsServed ==
  ASSUME NEW name \in NPMNames, NEW version \in NPMVersions
  PROVE  LET path == NPMTarball(name, version)
             stem == Last(name) \o version
         IN  /\ name # <<Simple>> =>
                  Serve(path) = [to |-> "tarball", eco |-> "npm", name |-> name,
                                 version |-> SubSeq(stem, VersionStart(stem), Len(stem))]
             /\ name = <<Simple>> => Serve(path).eco = "pypi"
             /\ UpstreamHost(path) = "registry.npmjs.org" <=>
                  name \notin {<<Simple>>, <<PackagesDir>>}
<1>1. name \in Seq(Seq(Piece)) /\ name # <<>> /\ version \in Seq(Piece) /\ version # <<>>
      /\ version[1] \in Numeric
  BY DownloadsAssumption
<1>2. Last(name) \in Seq(Piece) /\ Last(name) # <<>>
  BY LastNameIs
<1>3. PICK stem : stem = Last(name) \o version
  OBVIOUS
<1>4. PICK path : path = NPMTarball(name, version)
  OBVIOUS
<1>5. stem \in Seq(Piece) /\ VersionStart(stem) > 0
  <2>1. PICK q : q = Last(name)
    OBVIOUS
  <2>2. stem = q \o version /\ q \in Seq(Piece) /\ q # <<>>
    BY <1>2, <1>3, <2>1
  <2>3. stem \in Seq(Piece)
    BY <1>1, <2>2
  <2>4. VersionStart(stem) > 0
    BY <1>1, <2>2, VersionIsRead
  <2> QED BY <2>3, <2>4
<1>6. PICK segments : segments = name \o <<Dash, stem>>
  OBVIOUS
<1>7. path.segments = segments /\ path.ending = "tgz"
  BY <1>3, <1>4, <1>6 DEF NPMTarball, Path
<1>8. /\ NameLength(path) = Len(name) /\ Len(name) \in {1, 2}
      /\ SubSeq(segments, 1, Len(name)) = name /\ segments[1] = name[1]
  <2>1. PICK tail, T : tail = <<Dash, stem>> /\ T = {Dash, stem}
    OBVIOUS
  <2>2. tail \in Seq(T)
    BY <2>1
  <2>3. path = Path(name \o tail, "tgz")
    BY <1>3, <1>4, <2>1 DEF NPMTarball
  <2>4. /\ NameLength(path) = Len(name) /\ Len(name) \in {1, 2}
        /\ SubSeq(path.segments, 1, Len(name)) = name /\ path.segments[1] = name[1]
    BY <2>2, <2>3, NameIsRead
  <2> QED BY <1>7, <2>4
<1>9. Len(segments) = Len(name) + 2 /\ segments[Len(name) + 1] = Dash /\ Last(segments) = stem
  <2>1. segments[Len(name) + 2] = stem /\ Len(segments) = Len(name) + 2
        /\ segments[Len(name) + 1] = Dash
    BY <1>1, <1>6
  <2> QED BY <2>1 DEF Last
<1>10. DetectNPM(path) = [to |-> "tarball", eco |-> "npm", name |-> name,
                          version |-> SubSeq(stem, VersionStart(stem), Len(stem))]
  <2>1. Len(name) > 0 /\ Len(path.segments) = Len(name) + 2
    BY <1>7, <1>8, <1>9
  <2> QED BY <1>5, <1>7, <1>8, <1>9, <2>1 DEF DetectNPM
<1>11. DetectTarball(path) = DetectNPM(path)
  BY <1>10 DEF DetectTarball, NotATarball
<1>12. /\ StartsWith(path, Simple) <=> name = <<Simple>>
       /\ StartsWith(path, PackagesDir) <=> name = <<PackagesDir>>
  <2>1. Len(path.segments) > 1 /\ path.segments[1] = name[1]
    BY <1>7, <1>8, <1>9
  <2>2. <<Simple>>[1] = Simple /\ <<PackagesDir>>[1] = PackagesDir
    OBVIOUS
  <2> QED BY <2>1, <2>2, NotPyPI DEF StartsWith
<1>13. Serve(path) = IF name = <<Simple>>
                     THEN [to |-> "meta", eco |-> "pypi", name |-> <<path.segments[2]>>]
                     ELSE DetectNPM(path)
  BY <1>10, <1>11, <1>12 DEF Serve, NotATarball
<1>14. UpstreamHost(path) = "registry.npmjs.org" <=> name \notin {<<Simple>>, <<PackagesDir>>}
  BY <1>12 DEF UpstreamHost
<1> QED BY <1>3, <1>4, <1>10, <1>13, <1>14

(* serve, of the metadata of any npm package.                              *)
LEMMA NPMMetadataIsServed ==
  ASSUME NEW name \in NPMNames
  PROVE  Serve(Path(name, "")) = [to |-> "meta", eco |-> "npm", name |-> name]
<1>1. name \in Seq(Seq(Piece)) /\ name # <<>> /\ Len(name) \in {1, 2}
      /\ (IsScope(name[1]) <=> Len(name) = 2)
  BY DownloadsAssumption
<1>0. name \in Seq(Seq(Piece)) /\ name # <<>> /\ Len(name) \in Nat
      /\ (Len(name) = 1 \/ Len(name) = 2)
  BY <1>1
<1>2. PICK path : path = Path(name, "")
  OBVIOUS
<1>3. path.segments = name
  BY <1>2 DEF Path
<1>4. path.ending # "tgz"
  BY <1>2 DEF Path
<1>5. NameLength(path) = Len(name)
  <2>1. CASE Len(name) = 1
    <3>1. ~IsScope(name[1])
      BY <1>1, <2>1
    <3> QED BY <1>0, <1>3, <2>1, <3>1 DEF NameLength
  <2>2. CASE Len(name) = 2
    <3>1. IsScope(name[1])
      BY <1>1, <2>2
    <3> QED BY <1>0, <1>3, <2>2, <3>1 DEF NameLength
  <2> QED BY <1>0, <2>1, <2>2
<1>6. SubSeq(name, 1, Len(name)) = name
  BY <1>1
<1>7. ~StartsWith(path, Simple) /\ ~StartsWith(path, PackagesDir)
  <2>1. Len(<<Simple>>) = 1 /\ Len(<<PackagesDir>>) = 1
    OBVIOUS
  <2>2. (name[1] = Simple => Len(name) = 1) /\ (name[1] = PackagesDir => Len(name) = 1)
    BY <2>1, NotPyPI
  <2>3. StartsWith(path, Simple) <=> Len(name) > 1 /\ name[1] = Simple
    BY <1>3 DEF StartsWith
  <2>4. StartsWith(path, PackagesDir) <=> Len(name) > 1 /\ name[1] = PackagesDir
    BY <1>3 DEF StartsWith
  <2>5. ~(Len(name) > 1 /\ Len(name) = 1)
    <3>1. PICK n : n = Len(name)
      OBVIOUS
    <3>2. ~(n > 1 /\ n = 1)
      OBVIOUS
    <3> QED BY <3>1, <3>2
  <2> QED BY <2>2, <2>3, <2>4, <2>5
<1>8. DetectNPM(path) = NotATarball
  BY <1>4 DEF DetectNPM
<1>9. DetectTarball(path) = NotATarball
  <2>1. ~(Len(path.segments) >= 5)
    <3>1. PICK n : n = Len(path.segments)
      OBVIOUS
    <3>2. n = 1 \/ n = 2
      BY <1>0, <1>3, <3>1
    <3>3. ~(n >= 5)
      BY <3>2
    <3> QED BY <3>1, <3>3
  <2>2. DetectPyPI(path) = NotATarball
    BY <2>1 DEF DetectPyPI
  <2> QED BY <1>8, <2>2 DEF DetectTarball
<1>10. DetectNPMMeta(path) = [to |-> "meta", eco |-> "npm", name |-> name]
  <2>1. Len(name) # 0
    BY <1>0
  <2> QED BY <1>3, <1>5, <1>6, <1>7, <1>8, <2>1 DEF DetectNPMMeta, IsPyPIPath
<1> QED BY <1>2, <1>7, <1>9, <1>10 DEF Serve

(* serve, of any file of a PyPI project.                                   *)
LEMMA FileIsServed ==
  ASSUME NEW project \in DOMAIN PyPIFiles, NEW f \in PyPIFiles[project]
  PROVE  LET served == Serve(FilePath(f))
             read == [to |-> "tarball", eco |-> "pypi", name |-> <<project>>,
                      version |-> <<f.version>>]
         IN  /\ served.to = "tarball" <=> f.ending \in {"tar.gz", "whl"}
             /\ served = read <=> f.ending \in {"tar.gz", "whl"} /\ Len(f.name) = 1
<1>1. /\ f.name \in Seq(Piece) /\ f.name # <<>> /\ "" \notin ToSet(f.name)
      /\ Normal[f.name[1]] = project <=> Len(f.name) = 1
      /\ f.version \in Piece /\ f.version # "" /\ f.tags \in Seq(Piece)
  BY DownloadsAssumption
<1>2. PICK name, version, tags : name = f.name /\ version = f.version /\ tags = f.tags
  OBVIOUS
<1>3. PICK stem : stem = name \o <<version>> \o tags
  OBVIOUS
<1>4. /\ Len(stem) > 1 /\ stem[1] = name[1] /\ stem[1] # ""
      /\ Len(name) = 1 => stem[2] = version
      /\ stem[2] # ""
  <2>0. PICK none : none = ""
    OBVIOUS
  <2>1. name \in Seq(Piece) /\ name # <<>> /\ version \in Piece /\ version # none
        /\ tags \in Seq(Piece) /\ none \notin ToSet(name)
    BY <1>1, <1>2, <2>0
  <2>2. PICK head : head = name \o <<version>>
    OBVIOUS
  <2>3. PICK last : last = <<version>>
    OBVIOUS
  <2>4. last \in Seq(Piece) /\ Len(last) = 1 /\ last[1] = version
        /\ Len(name) \in Nat /\ Len(name) > 0
    BY <2>1, <2>3
  <2> name \in Seq(Piece) /\ tags \in Seq(Piece)
    BY <2>1
  <2>5. /\ head \in Seq(Piece) /\ Len(head) = Len(name) + 1
        /\ \A i \in 1..Len(name) : head[i] = name[i]
        /\ \A i \in 1..1 : head[Len(name) + i] = last[i]
    BY <2>1, <2>2, <2>3, <2>4, Joined
  <2>6. stem = head \o tags
    BY <1>3, <2>2
  <2>7. Len(stem) = Len(head) + Len(tags) /\ \A i \in 1..Len(head) : stem[i] = head[i]
    <3>1. head \in Seq(Piece)
      BY <2>5
    <3> QED BY <2>6, <3>1, Joined
  <2>8. Len(stem) > 1 /\ stem[1] = head[1] /\ stem[2] = head[2]
    BY <2>1, <2>4, <2>5, <2>7
  <2>9. \A i \in 1..Len(name) : name[i] # none
    BY <2>1 DEF ToSet
  <2>10. head[1] = name[1] /\ name[1] # none
    BY <2>4, <2>5, <2>9
  <2>11. Len(name) = 1 => head[2] = version
    BY <2>4, <2>5
  <2>12. head[2] # none
    <3>1. CASE Len(name) = 1
      BY <2>1, <2>11, <3>1
    <3>2. CASE Len(name) > 1
      <4>1. 2 \in 1..Len(name)
        BY <2>4, <3>2
      <4> QED BY <2>5, <2>9, <4>1
    <3>3. Len(name) = 1 \/ Len(name) > 1
      BY <2>4
    <3> QED BY <3>1, <3>2, <3>3
  <2> QED BY <2>0, <2>8, <2>10, <2>11, <2>12
<1>5. PICK segments : segments = <<PackagesDir, <<"a">>, <<"b">>, <<"c">>, stem>>
  OBVIOUS
<1>6. PICK path : path = FilePath(f)
  OBVIOUS
<1>7. path.segments = segments /\ path.ending = f.ending
  BY <1>2, <1>3, <1>5, <1>6 DEF FilePath, Path
<1>8. Len(segments) = 5 /\ segments[1] = PackagesDir /\ Last(segments) = stem /\ segments # <<>>
  BY <1>5 DEF Last
<1>9. PackagesDir # Simple /\ ~IsScope(PackagesDir)
  BY DownloadsAssumption DEF PackagesDir, Simple, IsScope
<1>10. DetectNPM(path) = NotATarball
  <2>1. NameLength(path) = 1
    BY <1>7, <1>8, <1>9 DEF NameLength
  <2> QED BY <1>7, <1>8, <2>1 DEF DetectNPM
<1>11. PICK shown : shown = [to |-> "tarball", eco |-> "pypi", name |-> <<Normal[name[1]]>>,
                             version |-> <<stem[2]>>]
  OBVIOUS
<1>12. DetectTarball(path) = IF f.ending \in {"tar.gz", "whl"} THEN shown ELSE NotATarball
  <2>1. DetectPyPI(path) = IF f.ending \in {"tar.gz", "whl"} THEN shown ELSE NotATarball
    <3>1. Last(path.segments) = stem /\ Len(path.segments) = 5 /\ path.ending = f.ending
          /\ path.segments[5 - 4] = PackagesDir
      BY <1>7, <1>8
    <3>2. stem[1] # "" /\ stem[2] # "" /\ Len(stem) > 1
      BY <1>4
    <3>3. PICK n : n = Len(path.segments)
      OBVIOUS
    <3>4. n >= 5 /\ path.segments[n - 4] = PackagesDir
      BY <3>1, <3>3
    <3>5. DetectPyPI(path) =
            IF /\ n >= 5 /\ path.segments[n - 4] = PackagesDir
               /\ f.ending \in {"tar.gz", "whl"}
               /\ Len(stem) > 1 /\ stem[1] # "" /\ stem[2] # ""
            THEN [to |-> "tarball", eco |-> "pypi", name |-> <<Normal[stem[1]]>>,
                  version |-> <<stem[2]>>]
            ELSE NotATarball
      BY <3>1, <3>3, Zenon DEF DetectPyPI
    <3>6. stem[1] = name[1]
      BY <1>4
    <3> QED BY <1>11, <3>2, <3>4, <3>5, <3>6, Zenon
  <2> QED BY <1>10, <2>1 DEF DetectTarball
<1>13. DetectNPMMeta(path) = NotATarball
  BY <1>7, <1>8, <1>10 DEF DetectNPMMeta, IsPyPIPath, StartsWith
<1>14. Serve(path) = IF f.ending \in {"tar.gz", "whl"} THEN shown ELSE NotATarball
  BY <1>7, <1>8, <1>9, <1>11, <1>12, <1>13 DEF Serve, StartsWith, NotATarball
<1>15. shown.to = "tarball" /\ NotATarball.to = "none"
  BY <1>11 DEF NotATarball
<1>16. shown = [to |-> "tarball", eco |-> "pypi", name |-> <<project>>,
                version |-> <<f.version>>] <=> Len(f.name) = 1
  <2>1. CASE Len(f.name) = 1
    BY <1>1, <1>2, <1>4, <1>11, <2>1
  <2>2. CASE Len(f.name) # 1
    <3>1. Normal[name[1]] # project
      BY <1>1, <1>2, <2>2
    <3>2. shown.name = <<Normal[name[1]]>> /\ shown.name[1] = Normal[name[1]]
      BY <1>11
    <3> QED BY <2>2, <3>1, <3>2
  <2> QED BY <2>1, <2>2
<1> QED BY <1>6, <1>14, <1>15, <1>16

(* resolvePyPITarball takes the first sdist, or else the first wheel.      *)
LEMMA ArchiveIsChosen ==
  ASSUME NEW T, NEW files \in Seq(T), NEW i \in DOMAIN files
  PROVE  /\ files[i].type = "sdist" =>
              /\ ResolvePyPITarball(files) \in 1..i
              /\ files[ResolvePyPITarball(files)].type = "sdist"
         /\ files[i].type = "bdist_wheel" =>
              /\ ResolvePyPITarball(files) # 0
              /\ ResolvePyPITarball(files) > i =>
                   files[ResolvePyPITarball(files)].type = "sdist"
<1> DEFINE OfType(type) == {j \in 1..Len(files) : files[j].type = type}
           first(type) == IF OfType(type) # {} THEN Min(OfType(type)) ELSE 0
<1>1. ASSUME NEW type
      PROVE  /\ OfType(type) # {} =>
                  /\ first(type) \in OfType(type) /\ \A j \in OfType(type) : first(type) <= j
             /\ OfType(type) = {} => first(type) = 0
  <2>1. OfType(type) \in SUBSET Nat
    OBVIOUS
  <2> HIDE DEF OfType
  <2> QED BY <2>1, LeastOf
<1>2. ResolvePyPITarball(files) =
    IF first("sdist") # 0 THEN first("sdist") ELSE first("bdist_wheel")
  BY DEF ResolvePyPITarball, SelectInSeq
<1>3. i \in 1..Len(files) /\ i \in Nat
  OBVIOUS
<1>4. CASE files[i].type = "sdist"
  <2>1. i \in OfType("sdist")
    BY <1>3, <1>4
  <2>2. first("sdist") \in OfType("sdist") /\ first("sdist") <= i
    BY <1>1, <2>1
  <2>3. first("sdist") \in 1..i /\ files[first("sdist")].type = "sdist"
    BY <1>3, <2>2
  <2> HIDE DEF first
  <2> QED BY <1>2, <1>4, <2>3
<1>5. CASE files[i].type = "bdist_wheel"
  <2>1. i \in OfType("bdist_wheel")
    BY <1>3, <1>5
  <2>2. first("bdist_wheel") \in OfType("bdist_wheel") /\ first("bdist_wheel") <= i
    BY <1>1, <2>1
  <2>3. first("bdist_wheel") \in 1..i
    BY <1>3, <2>2
  <2>4. first("sdist") # 0 =>
          first("sdist") \in 1..Len(files) /\ files[first("sdist")].type = "sdist"
    <3>1. first("sdist") # 0 => first("sdist") \in OfType("sdist")
      BY <1>1
    <3> QED BY <3>1
  <2> HIDE DEF first
  <2> QED BY <1>2, <1>3, <1>5, <2>3, <2>4
<1>6. CASE files[i].type \notin {"sdist", "bdist_wheel"}
  BY <1>6
<1> QED BY <1>4, <1>5, <1>6

(* For all names and versions of npm and all releases of PyPI: the proxy   *)
(* takes metadata for metadata and files for files, of the right package;  *)
(* it reads a whole version unless a later piece begins with a digit, and a*)
(* whole project name unless the file name has a dash in it; and the server*)
(* fetches an sdist whenever there is one (serve, detectTarball,           *)
(* detectNPMMeta, upstreamHost, resolvePyPITarball).                       *)
THEOREM DownloadsAreReadRight == AlgorithmsSpec => []DownloadsAreRecognised
<1>1. ASSUME AlgorithmsInv, done, task = "tarball"
      PROVE  /\ output.meta = [to |-> "meta", eco |-> "npm", name |-> input.name]
             /\ input.name # <<Simple>> =>
                  output.tarball.to = "tarball" /\ output.tarball.name = input.name
             /\ /\ output.tarball = [to |-> "tarball", eco |-> "npm", name |-> input.name,
                                     version |-> input.version]
                /\ output.host = "registry.npmjs.org"
                <=> /\ input.name \notin {<<Simple>>, <<PackagesDir>>}
                    /\ \A i \in 2..Len(input.version) : input.version[i] \notin Numeric
  <2>1. PICK name, version : name = input.name /\ version = input.version
    OBVIOUS
  <2>2. name \in NPMNames /\ version \in NPMVersions
    BY <1>1, <2>1, InputsAre
  <2>3. PICK path : path = NPMTarball(name, version)
    OBVIOUS
  <2>4. PICK tarball, host, meta : /\ tarball = Serve(path) /\ host = UpstreamHost(path)
                                   /\ meta = Serve(Path(name, ""))
    OBVIOUS
  <2>5. output = [tarball |-> tarball, host |-> host, meta |-> meta]
    BY <1>1, <2>1, <2>3, <2>4, Zenon DEF AlgorithmsInv, Computed
  <2>6. output.tarball = tarball /\ output.host = host /\ output.meta = meta
    BY <2>5
  <2>7. PICK read : read = SubSeq(Last(name) \o version, VersionStart(Last(name) \o version),
                                  Len(Last(name) \o version))
    OBVIOUS
  <2>8. /\ name # <<Simple>> => tarball = [to |-> "tarball", eco |-> "npm", name |-> name,
                                           version |-> read]
        /\ name = <<Simple>> => tarball.eco = "pypi"
        /\ host = "registry.npmjs.org" <=> name \notin {<<Simple>>, <<PackagesDir>>}
    BY <2>2, <2>3, <2>4, <2>7, NPMTarballIsServed, Zenon
  <2>9. read = version <=> \A i \in 2..Len(version) : version[i] \notin Numeric
    BY <2>2, <2>7, NPMVersionIsRead
  <2>10. meta = [to |-> "meta", eco |-> "npm", name |-> name]
    BY <2>2, <2>4, NPMMetadataIsServed
  <2>11. name # <<Simple>> => /\ tarball.to = "tarball" /\ tarball.name = name
                             /\ tarball.version = read
    BY <2>8
  <2>12. name # <<Simple>> =>
           (tarball = [to |-> "tarball", eco |-> "npm", name |-> name, version |-> version]
              <=> read = version)
    BY <2>8, <2>11
  <2> QED BY <2>1, <2>6, <2>8, <2>9, <2>10, <2>11, <2>12
<1>2. ASSUME AlgorithmsInv, done, task = "release", NEW i \in DOMAIN input.files
      PROVE  LET f == input.files[i]  seen == f.ending \in {"tar.gz", "whl"}
             IN  /\ output.files[i].to = "tarball" <=> seen
                 /\ output.files[i] = [to |-> "tarball", eco |-> "pypi",
                                       name |-> output.page.name, version |-> <<f.version>>]
                     <=> seen /\ Len(f.name) = 1
                 /\ f.type = "sdist" =>
                      output.fetched \in 1..i /\ input.files[output.fetched].type = "sdist"
                 /\ f.type = "bdist_wheel" =>
                      output.fetched # 0 /\ (output.fetched > i =>
                        input.files[output.fetched].type = "sdist")
  <2>1. PICK project \in DOMAIN PyPIFiles :
          input \in [project : {project}, files : BoundedSeq(PyPIFiles[project], MaxPyPIFiles)]
    BY <1>2, InputsAre
  <2>2. PICK files : files = input.files
    OBVIOUS
  <2>3. input.project = project /\ files \in Seq(PyPIFiles[project])
    BY <2>1, <2>2, BoundedAreSequences, BoundsAssumption
  <2>4. PICK f : f = files[i]
    OBVIOUS
  <2>5. f \in PyPIFiles[project] /\ i \in DOMAIN files
    BY <1>2, <2>2, <2>3, <2>4
  <2>6. /\ output.page = Serve(Path(<<Simple, project>>, ""))
        /\ output.files[i] = Serve(FilePath(f))
        /\ output.fetched = ResolvePyPITarball(files)
    <3>1. PICK page, served, fetched :
            /\ page = Serve(Path(<<Simple, project>>, ""))
            /\ served = [j \in DOMAIN files |-> Serve(FilePath(files[j]))]
            /\ fetched = ResolvePyPITarball(files)
      OBVIOUS
    <3>2. output = [page |-> page, files |-> served, fetched |-> fetched]
      BY <1>2, <2>2, <2>3, <3>1, Zenon DEF AlgorithmsInv, Computed
    <3>3. output.page = page /\ output.files = served /\ output.fetched = fetched
      BY <3>2
    <3>4. served[i] = Serve(FilePath(f))
      BY <2>4, <2>5, <3>1
    <3> QED BY <3>1, <3>3, <3>4
  <2>7. output.page.name = <<project>>
    <3>1. PICK path : path = Path(<<Simple, project>>, "")
      OBVIOUS
    <3>2. PICK segments : segments = <<Simple, project>>
      OBVIOUS
    <3>3. path.segments = segments
      BY <3>1, <3>2 DEF Path
    <3>4. Len(segments) > 1 /\ segments[1] = Simple /\ segments[2] = project
      BY <3>2
    <3>5. StartsWith(path, Simple)
      BY <3>3, <3>4 DEF StartsWith
    <3>6. Serve(path) = [to |-> "meta", eco |-> "pypi", name |-> <<project>>]
      BY <3>3, <3>4, <3>5 DEF Serve
    <3>7. output.page = [to |-> "meta", eco |-> "pypi", name |-> <<project>>]
      BY <2>6, <3>1, <3>6, Zenon
    <3> QED BY <3>7
  <2>8. /\ Serve(FilePath(f)).to = "tarball" <=> f.ending \in {"tar.gz", "whl"}
        /\ Serve(FilePath(f)) = [to |-> "tarball", eco |-> "pypi", name |-> <<project>>,
                                 version |-> <<f.version>>]
           <=> f.ending \in {"tar.gz", "whl"} /\ Len(f.name) = 1
    BY <2>5, FileIsServed
  <2>9. /\ f.type = "sdist" =>
             /\ ResolvePyPITarball(files) \in 1..i
             /\ files[ResolvePyPITarball(files)].type = "sdist"
        /\ f.type = "bdist_wheel" =>
             /\ ResolvePyPITarball(files) # 0
             /\ ResolvePyPITarball(files) > i =>
                  files[ResolvePyPITarball(files)].type = "sdist"
    BY <2>3, <2>4, <2>5, ArchiveIsChosen
  <2> QED BY <2>2, <2>4, <2>6, <2>7, <2>8, <2>9
<1>3. AlgorithmsInv => DownloadsAreRecognised
  BY <1>1, <1>2 DEF DownloadsAreRecognised, Done
<1> QED BY <1>3, AlgorithmsInvariant, PTL

(* Only requests whose body can be sent again are sent again, and never    *)
(* around a proxy that asks for credentials                                *)
(* (resilientTransport.RoundTrip).                                         *)
THEOREM RetriesAreWholeRequests == AlgorithmsSpec => []RetriesAreWhole
<1>1. AlgorithmsInv => RetriesAreWhole
  <2> SUFFICES ASSUME AlgorithmsInv, done, task = "transport" PROVE RetriesAreWhole
    BY DEF RetriesAreWhole, Done
  <2>1. output = RoundTrip(Outgoing(input.handler, input.body), input.config,
                           input.proxied, input.direct)
    BY DEF AlgorithmsInv, Computed
  <2>2. input \in [handler : {"tarball", "meta", "simple", "transparent"},
                   body : {"none", "small", "large"},
                   config : {"none", "broken", "proxy"},
                   proxied : {"error", "407", "ok"}, direct : {"error", "ok"}]
    BY InputsAre
  <2>3. /\ output.sent = <<"proxied", "direct">> <=>
             /\ input.config = "proxy" /\ input.proxied = "error"
             /\ input.handler = "simple" \/ (input.handler = "transparent" /\ input.body # "none")
        /\ output.answer = "ok" =>
             Last(output.sent) = IF input.proxied = "ok" /\ input.config = "proxy"
                                 THEN "proxied" ELSE "direct"
    BY <2>1, <2>2, RetriesStep
  <2> QED BY <2>3 DEF RetriesAreWhole
<1> QED BY <1>1, AlgorithmsInvariant, PTL

(* From a yarn.lock of any length the parser lists each version with the   *)
(* header it belongs to, each pair once and nothing else                   *)
(* (YarnParser.Parse).                                                     *)
THEOREM YarnPairsAreRead == AlgorithmsSpec => []YarnPairsHeaderAndVersion
<1>1. AlgorithmsInv => YarnPairsHeaderAndVersion
  <2> SUFFICES ASSUME AlgorithmsInv, done, task = "yarn" PROVE YarnPairsHeaderAndVersion
    BY DEF YarnPairsHeaderAndVersion, Done
  <2>0. output = ParseYarn(input) /\ input \in Seq(YarnLines)
    <3>1. input \in Seq(YarnLines)
      BY InputsAre, BoundedAreSequences, BoundsAssumption
    <3> QED BY <3>1 DEF AlgorithmsInv, Computed
  <2>1. PICK n \in Nat : DOMAIN input = 1..n /\ \A i \in 1..n : input[i] \in YarnLines
    BY <2>0
  <2>2. \A i \in 1..n : input[i].is \in {"header", "version", "other"}
    BY <2>1, BoundsAssumption
  <2>3. /\ IsInjective(output)
        /\ \A r : r \in ToSet(output) <=>
                    \E h, v \in 1..n : IsPair(input, h, v) /\ r = PairOf(input, h, v)
    <3>1. PICK lines : lines = input
      OBVIOUS
    <3>2. DOMAIN lines = 1..n /\ \A i \in 1..n : lines[i].is \in {"header", "version", "other"}
      BY <2>1, <2>2, <3>1
    <3>3. /\ IsInjective(ParseYarn(lines))
          /\ \A r : r \in ToSet(ParseYarn(lines)) <=>
                      \E h, v \in 1..n : IsPair(lines, h, v) /\ r = PairOf(lines, h, v)
      BY <3>2, YarnReads
    <3> QED BY <2>0, <3>1, <3>3
  <2> DEFINE good(h, v) ==
        /\ h < v
        /\ input[h].is = "header" /\ input[h].value # NoText
        /\ input[v].is = "version"
        /\ input[v].value # NoText
        /\ \A j \in (h + 1)..(v - 1) : input[j].is = "other"
  <2>4. \A h, v \in 1..n : IsPair(input, h, v) <=> good(h, v)
    BY DEF IsPair, Opens
  <2>5. ToSet(output) = {[name |-> input[p[1]].value, version |-> input[p[2]].value] :
           p \in {q \in (1..n) \X (1..n) : good(q[1], q[2])}}
    <3> HIDE DEF good
    <3>1. \A r : r \in ToSet(output) <=>
             \E h, v \in 1..n : good(h, v) /\ r = PairOf(input, h, v)
      BY <2>3, <2>4
    <3>2. ASSUME NEW r
          PROVE  r \in {[name |-> input[p[1]].value, version |-> input[p[2]].value] :
                          p \in {q \in (1..n) \X (1..n) : good(q[1], q[2])}}
                 <=> \E h, v \in 1..n : good(h, v) /\ r = PairOf(input, h, v)
      <4>1. ASSUME NEW p \in {q \in (1..n) \X (1..n) : good(q[1], q[2])},
                   r = [name |-> input[p[1]].value, version |-> input[p[2]].value]
            PROVE  \E h, v \in 1..n : good(h, v) /\ r = PairOf(input, h, v)
        <5>1. p[1] \in 1..n /\ p[2] \in 1..n /\ good(p[1], p[2])
          OBVIOUS
        <5> QED BY <4>1, <5>1 DEF PairOf
      <4>2. ASSUME NEW h \in 1..n, NEW v \in 1..n, good(h, v), r = PairOf(input, h, v)
            PROVE  \E p \in {q \in (1..n) \X (1..n) : good(q[1], q[2])} :
                     r = [name |-> input[p[1]].value, version |-> input[p[2]].value]
        <5>1. <<h, v>> \in {q \in (1..n) \X (1..n) : good(q[1], q[2])}
          BY <4>2
        <5> QED BY <4>2, <5>1 DEF PairOf
      <4> QED BY <4>1, <4>2
    <3> QED BY <3>1, <3>2
  <2> QED BY <2>1, <2>3, <2>5 DEF YarnPairsHeaderAndVersion
<1> QED BY <1>1, AlgorithmsInvariant, PTL

(* From a poetry.lock of any length, whatever the kinds of its lines and in*)
(* whatever order, every package with a name and a version that is not one *)
(* of development is listed, in the order of the sections and with the     *)
(* values that its own section gave last (PoetryParser.Parse).             *)
THEOREM PoetrySectionsAreRead == AlgorithmsSpec => []PoetryReadsSections
<1>1. AlgorithmsInv => PoetryReadsSections
  <2> SUFFICES ASSUME AlgorithmsInv, done, task = "poetry" PROVE PoetryReadsSections
    BY DEF PoetryReadsSections, Done
  <2>0. output = ParsePoetry(input) /\ input \in Seq(PoetryLines)
    <3>1. input \in Seq(PoetryLines)
      BY InputsAre, BoundedAreSequences, BoundsAssumption
    <3> QED BY <3>1 DEF AlgorithmsInv, Computed
  <2>1. PICK lines : lines = input
    OBVIOUS
  <2>2. PICK n \in Nat : DOMAIN lines = 1..n /\ Len(lines) = n
    BY <2>0, <2>1
  <2>3. Lists(lines, ListedUpTo(lines, n), ParsePoetry(lines))
    BY <2>2, PoetryReads
  <2>4. ListedUpTo(lines, n) =
          {i \in DOMAIN input :
             /\ input[i].is = "package"
             /\ NoText \notin {LastValue(input, i, "name"), LastValue(input, i, "version")}
             /\ ~SectionIsDev(input, i)}
    BY <2>1, <2>2 DEF ListedUpTo, Listed
  <2> QED BY <2>0, <2>1, <2>3, <2>4 DEF Lists, Ref, PoetryReadsSections
<1> QED BY <1>1, AlgorithmsInvariant, PTL

(* No production package of a package-lock.json with any set of entries is *)
(* lost but for a clash of its key, and none is listed twice               *)
(* (NPMParser.Parse).                                                      *)
THEOREM NoNPMPackageIsLost == AlgorithmsSpec => []NPMKeepsEveryPackage
<1>1. AlgorithmsInv => NPMKeepsEveryPackage
  <2> SUFFICES ASSUME AlgorithmsInv, done, task = "npm" PROVE NPMKeepsEveryPackage
    BY DEF NPMKeepsEveryPackage, Done
  <2>1. output = ParseNPM(input)
    BY DEF AlgorithmsInv, Computed
  <2> QED BY <2>1, NPMIs DEF NPMKeepsEveryPackage
<1> QED BY <1>1, AlgorithmsInvariant, PTL

(* The names that poetry.lock and requirements.txt give a package are the  *)
(* same if and only if it has no dot, for names of any length over any     *)
(* alphabet with a lower case (normalizePoetry and normalizePyPI).         *)
THEOREM FormatsAgreeButForDots == AlgorithmsSpec => []FormatsNameAlike
<1>1. AlgorithmsInv => FormatsNameAlike
  <2> SUFFICES ASSUME AlgorithmsInv, done, task = "pypi" PROVE FormatsNameAlike
    BY DEF FormatsNameAlike, Done
  <2>1. output.poetry = NormalizePoetry(input)
        /\ output.requirements = ParseRequirements(PyPILines)[1].name
    BY DEF AlgorithmsInv, Computed
  <2>2. ParseRequirements(PyPILines)[1].name = NormalizePyPI(input)
    BY PinnedLineIsRead DEF PyPILines
  <2>3. input \in Seq(DOMAIN Lower)
    BY InputsAre, BoundsAssumption
  <2>4. input \in [DOMAIN input -> DOMAIN Lower]
    BY <2>3
  <2> QED BY <2>1, <2>2, <2>4, NormalizersAgree DEF FormatsNameAlike
<1> QED BY <1>1, AlgorithmsInvariant, PTL

-----------------------------------------------------------------------------
(* Folds in general.                                                       *)

(* A fold over a finite set, in whatever order, as one step of the         *)
(* recursion that it is: pick says which element comes last.               *)
FoldBody(g, base, op, pick, s) ==
  IF s = {} THEN base ELSE op[pick[s]][g[s \ {pick[s]}]]

(* The recursive function that a fold stands for is g, with values in V.   *)
IsFold(g, S, V, base, op, pick) ==
  /\ g \in [SUBSET S -> V]
  /\ \A s \in SUBSET S : g[s] = FoldBody(g, base, op, pick, s)

(* The subsets with at most k elements, by which every fold is followed.   *)
LEMMA OneLess ==
  ASSUME NEW S, IsFiniteSet(S), NEW s \in SUBSET S, NEW x \in s
  PROVE  /\ Cardinality(s) \in Nat /\ s \ {x} \in SUBSET S
         /\ Cardinality(s \ {x}) = Cardinality(s) - 1 /\ Cardinality(s) # 0
<1>1. IsFiniteSet(s)
  BY FS_Subset
<1>2. Cardinality(s) \in Nat /\ Cardinality(s) # 0
  BY <1>1, FS_CardinalityType, FS_EmptySet
<1>3. Cardinality(s \ {x}) = Cardinality(s) - 1
  BY <1>1, FS_RemoveElement
<1> QED BY <1>2, <1>3

(* The recursive function that a fold stands for exists.                   *)
LEMMA FoldRuns ==
  ASSUME NEW S, IsFiniteSet(S), NEW V, NEW base \in V, NEW op \in [S -> [V -> V]],
         NEW pick, \A s \in SUBSET S : s # {} => pick[s] \in s
  PROVE  \E g : IsFold(g, S, V, base, op, pick)
<1> DEFINE K == {k \in Nat : \E g \in [SUBSET S -> V] : \A s \in SUBSET S :
                   Cardinality(s) < k => g[s] = FoldBody(g, base, op, pick, s)}
<1>0. ASSUME NEW s \in SUBSET S PROVE Cardinality(s) \in Nat /\ Cardinality(s) <= Cardinality(S)
  BY FS_Subset, FS_CardinalityType
<1>1. 0 \in K
  <2>1. [s \in SUBSET S |-> base] \in [SUBSET S -> V]
    OBVIOUS
  <2>2. \A s \in SUBSET S : ~(Cardinality(s) < 0)
    BY <1>0
  <2> QED BY <2>1, <2>2
<1>2. ASSUME NEW k \in Nat, k \in K PROVE k + 1 \in K
  <2>1. PICK g \in [SUBSET S -> V] : \A s \in SUBSET S :
          Cardinality(s) < k => g[s] = FoldBody(g, base, op, pick, s)
    BY <1>2
  <2>2. PICK h : h = [s \in SUBSET S |-> FoldBody(g, base, op, pick, s)]
    OBVIOUS
  <2>3. ASSUME NEW s \in SUBSET S, s # {}
        PROVE  pick[s] \in S /\ s \ {pick[s]} \in SUBSET S
    BY <2>3
  <2>4. h \in [SUBSET S -> V]
    <3>1. ASSUME NEW s \in SUBSET S PROVE FoldBody(g, base, op, pick, s) \in V
      <4>1. CASE s = {}
        BY <4>1 DEF FoldBody
      <4>2. CASE s # {}
        BY <2>3, <4>2 DEF FoldBody
      <4> QED BY <4>1, <4>2
    <3> QED BY <2>2, <3>1
  <2>5. ASSUME NEW s \in SUBSET S, Cardinality(s) < k + 1
        PROVE  h[s] = FoldBody(h, base, op, pick, s)
    <3>1. CASE s = {}
      BY <2>2, <3>1 DEF FoldBody
    <3>2. CASE s # {}
      <4>1. PICK x : x = pick[s]
        OBVIOUS
      <4>2. x \in s /\ s \ {x} \in SUBSET S /\ Cardinality(s \ {x}) < k
        <5>1. x \in s
          BY <3>2, <4>1
        <5> QED BY <2>5, <5>1, OneLess
      <4>3. h[s \ {x}] = g[s \ {x}]
        BY <2>1, <2>2, <4>2
      <4> QED BY <2>2, <3>2, <4>1, <4>3 DEF FoldBody
    <3> QED BY <3>1, <3>2
  <2> QED BY <2>4, <2>5
<1>3. Cardinality(S) + 1 \in K
  <2>1. Nat \subseteq K
    <3> HIDE DEF K
    <3> QED BY <1>1, <1>2, NatInd
  <2>2. Cardinality(S) + 1 \in Nat
    BY <1>0
  <2> QED BY <2>1, <2>2
<1>4. \A s \in SUBSET S : Cardinality(s) < Cardinality(S) + 1
  BY <1>0
<1> QED BY <1>3, <1>4 DEF IsFold

(* A function that takes each step as a fold does has values of its type.  *)
LEMMA FoldHasType ==
  ASSUME NEW S, IsFiniteSet(S), NEW V, NEW g,
         NEW pick, \A s \in SUBSET S : s # {} => pick[s] \in s,
         g[{}] \in V,
         \A s \in SUBSET S : s # {} /\ g[s \ {pick[s]}] \in V => g[s] \in V
  PROVE  \A s \in SUBSET S : g[s] \in V
<1> DEFINE K == {k \in Nat : \A s \in SUBSET S : Cardinality(s) < k => g[s] \in V}
<1>0. ASSUME NEW s \in SUBSET S PROVE Cardinality(s) \in Nat
  BY FS_Subset, FS_CardinalityType
<1>1. 0 \in K
  BY <1>0
<1>2. ASSUME NEW k \in Nat, k \in K PROVE k + 1 \in K
  <2> SUFFICES ASSUME NEW s \in SUBSET S, Cardinality(s) < k + 1 PROVE g[s] \in V
    OBVIOUS
  <2>1. CASE s = {}
    BY <2>1
  <2>2. CASE s # {}
    <3>1. pick[s] \in s
      BY <2>2
    <3>2. s \ {pick[s]} \in SUBSET S /\ Cardinality(s \ {pick[s]}) < k
      BY <3>1, OneLess
    <3>3. g[s \ {pick[s]}] \in V
      BY <1>2, <3>2
    <3> QED BY <2>2, <3>3
  <2> QED BY <2>1, <2>2
<1>3. Nat \subseteq K
  <2> HIDE DEF K
  <2> QED BY <1>1, <1>2, NatInd
<1> QED
  <2> SUFFICES ASSUME NEW s \in SUBSET S PROVE g[s] \in V
    OBVIOUS
  <2>1. Cardinality(s) + 1 \in K /\ Cardinality(s) < Cardinality(s) + 1
    BY <1>0, <1>3
  <2> QED BY <2>1

-----------------------------------------------------------------------------
(* A list is folded from its first element on.                             *)
LastOf(n) == [s \in SUBSET (1..n) |-> Max(s)]

(* Max picks one of a set of indices.                                     *)
LEMMA LastIsPicked ==
  ASSUME NEW n \in Nat
  PROVE  /\ \A s \in SUBSET (1..n) : s # {} => LastOf(n)[s] \in s /\ LastOf(n)[s] = Max(s)
         /\ IsFiniteSet(1..n)
<1>1. ASSUME NEW s \in SUBSET (1..n), s # {} PROVE LastOf(n)[s] \in s /\ LastOf(n)[s] = Max(s)
  BY <1>1, MaxIsGreatest DEF LastOf
<1>2. IsFiniteSet(1..n)
  BY FS_Interval
<1> QED BY <1>1, <1>2

(* Over the sets of indices of a list, g is the fold that op steps.        *)
IsLoop(g, n, V, base, op) ==
  /\ g \in [SUBSET (1..n) -> V]
  /\ \A s \in SUBSET (1..n) : g[s] = IF s = {} THEN base ELSE op[Max(s)][g[s \ {Max(s)}]]

(* As long as its values are in V, g takes the steps of op.                *)
TakesSteps(g, n, V, op) ==
  \A s \in SUBSET (1..n) : s # {} /\ g[s \ {Max(s)}] \in V =>
    g[s] = op[Max(s)][g[s \ {Max(s)}]]

(* The states of a loop, from before its first element to after its last.  *)
AreStates(st, n, V, op, first, last) ==
  /\ st \in [0..n -> V] /\ st[0] = first /\ st[n] = last
  /\ \A k \in Nat : k + 1 <= n => st[k + 1] = op[k + 1][st[k]]

(* The states of a loop over a list, from its first to its last, if g      *)
(* takes each step as the loop does.                                       *)
LEMMA LoopStates ==
  ASSUME NEW n \in Nat, NEW V, NEW g, g[{}] \in V,
         NEW op \in [1..n -> [V -> V]], TakesSteps(g, n, V, op)
  PROVE  \E st : AreStates(st, n, V, op, g[{}], g[1..n])
<1>1. \A s \in SUBSET (1..n) : g[s] \in V
  <2>1. ASSUME NEW s \in SUBSET (1..n), s # {}, g[s \ {LastOf(n)[s]}] \in V
        PROVE  g[s] \in V
    <3>1. PICK m : m = Max(s)
      OBVIOUS
    <3>2. m \in 1..n /\ m = LastOf(n)[s]
      BY <2>1, <3>1, LastIsPicked
    <3>3. PICK v : v = g[s \ {m}]
      OBVIOUS
    <3>4. v \in V /\ g[s] = op[m][v]
      BY <2>1, <3>1, <3>2, <3>3 DEF TakesSteps
    <3>5. op[m] \in [V -> V]
      BY <3>2
    <3> QED BY <3>4, <3>5
  <2>2. PICK S, pick : S = 1..n /\ pick = LastOf(n)
    OBVIOUS
  <2>3. \A s \in SUBSET S : s # {} => pick[s] \in s
    BY <2>2, LastIsPicked
  <2>4. IsFiniteSet(S)
    BY <2>2, LastIsPicked
  <2>5. \A s \in SUBSET S : s # {} /\ g[s \ {pick[s]}] \in V => g[s] \in V
    BY <2>1, <2>2
  <2>6. \A s \in SUBSET S : g[s] \in V
    BY <2>3, <2>4, <2>5, FoldHasType
  <2> QED BY <2>2, <2>6
<1>2. PICK st : st = [k \in 0..n |-> g[1..k]]
  OBVIOUS
<1>3. st \in [0..n -> V]
  <2>1. ASSUME NEW k \in 0..n PROVE g[1..k] \in V
    <3>1. 1..k \in SUBSET (1..n)
      OBVIOUS
    <3> QED BY <1>1, <3>1
  <2> QED BY <1>2, <2>1
<1>4. st[0] = g[{}] /\ st[n] = g[1..n]
  <2>1. 1..0 = {} /\ 0 \in 0..n /\ n \in 0..n
    OBVIOUS
  <2> QED BY <1>2, <2>1
<1>5. ASSUME NEW k \in Nat, k + 1 <= n PROVE st[k + 1] = op[k + 1][st[k]]
  <2>1. PICK q : q = 1..(k + 1)
    OBVIOUS
  <2>2. q \in SUBSET (1..n) /\ q # {} /\ Max(q) = k + 1 /\ q \ {k + 1} = 1..k
    <3>1. q \in SUBSET (1..n)
      BY <1>5, <2>1
    <3> QED BY <2>1, <3>1, MaxOfInterval
  <2>3. 1..k \in SUBSET (1..n) /\ k \in 0..n /\ k + 1 \in 0..n
    BY <1>5
  <2>4. g[q] = op[k + 1][g[1..k]]
    <3>1. g[q \ {Max(q)}] \in V
      BY <1>1, <2>2, <2>3
    <3> QED BY <2>2, <3>1 DEF TakesSteps
  <2> QED BY <1>2, <2>1, <2>3, <2>4
<1> QED BY <1>3, <1>4, <1>5 DEF AreStates

(* The loop over a list has states.                                        *)
LEMMA LoopRuns ==
  ASSUME NEW n \in Nat, NEW V, NEW base \in V, NEW op \in [1..n -> [V -> V]]
  PROVE  \E g : IsLoop(g, n, V, base, op)
<1>1. PICK g : IsFold(g, 1..n, V, base, op, LastOf(n))
  <2>1. PICK S, pick : S = 1..n /\ pick = LastOf(n)
    OBVIOUS
  <2>2. IsFiniteSet(S) /\ (\A s \in SUBSET S : s # {} => pick[s] \in s)
    BY <2>1, LastIsPicked
  <2>3. op \in [S -> [V -> V]]
    BY <2>1
  <2>4. \E g : IsFold(g, S, V, base, op, pick)
    BY <2>2, <2>3, FoldRuns
  <2> QED BY <2>1, <2>4
<1>2. ASSUME NEW s \in SUBSET (1..n)
      PROVE g[s] = IF s = {} THEN base ELSE op[Max(s)][g[s \ {Max(s)}]]
  BY <1>1, LastIsPicked DEF FoldBody, IsFold
<1> QED BY <1>1, <1>2 DEF IsFold, IsLoop

-----------------------------------------------------------------------------
(* The scores of archives.                                                 *)

(* What a file, or all of them, can show; the missing README comes last.   *)
FilePattern == DOMAIN Weight \ {"noReadme"}
FileSeverity == Severity \ {"info"}

(* The states of the loop over the files.                                  *)
ScoreState == [score : Nat, findings : SUBSET FileSeverity, count : Nat]

(* No score, finding or count of r is more than that of q.                 *)
AtMost(r, q) == r.score <= q.score /\ r.findings \subseteq q.findings /\ r.count <= q.count

(* A sum of weights as the recursive function that it stands for.          *)
LEMMA TotalUnfolded ==
  ASSUME NEW patterns
  PROVE  Total(patterns) =
    (CHOOSE g : g = [s \in SUBSET patterns |->
       IF s = {} THEN 0
       ELSE Weight[CHOOSE x \in s : TRUE] + g[s \ {CHOOSE x \in s : TRUE}]])[patterns]
BY DEF Total, MapThenSumSet, MapThenFoldSet

(* Every pattern has a weight and a severity.                             *)
LEMMA WeightsAreNumbers ==
  /\ \A p \in DOMAIN Weight : Weight[p] \in Nat
  /\ \A p \in FilePattern : SeverityOf[p] \in FileSeverity
  /\ FilePattern \subseteq DOMAIN Weight
BY DEF Weight, SeverityOf, Severity, FilePattern, FileSeverity

(* The sum of the weights is a number, and zero without patterns.         *)
LEMMA TotalIsNumber ==
  ASSUME NEW patterns \in SUBSET DOMAIN Weight, IsFiniteSet(patterns)
  PROVE  Total(patterns) \in Nat /\ (patterns = {} => Total(patterns) = 0)
<1> DEFINE pick == [s \in SUBSET patterns |-> CHOOSE x \in s : TRUE]
           op == [p \in patterns |-> [v \in Nat |-> Weight[p] + v]]
           body(g, s) == IF s = {} THEN 0
                         ELSE Weight[CHOOSE x \in s : TRUE] + g[s \ {CHOOSE x \in s : TRUE}]
           sum == CHOOSE g : g = [s \in SUBSET patterns |-> body(g, s)]
<1>1. /\ \A s \in SUBSET patterns : s # {} => pick[s] \in s /\ pick[s] = CHOOSE x \in s : TRUE
      /\ op \in [patterns -> [Nat -> Nat]]
  BY WeightsAreNumbers
<1>2. PICK g : IsFold(g, patterns, Nat, 0, op, pick)
  <2> HIDE DEF pick, op
  <2>1. \A s \in SUBSET patterns : s # {} => pick[s] \in s
    BY <1>1
  <2>2. 0 \in Nat
    OBVIOUS
  <2> QED BY <1>1, <2>1, <2>2, FoldRuns
<1>3. g = [s \in SUBSET patterns |-> body(g, s)]
  <2>1. ASSUME NEW s \in SUBSET patterns PROVE g[s] = body(g, s)
    BY <1>1, <1>2 DEF FoldBody, IsFold
  <2> HIDE DEF body
  <2> QED BY <1>2, <2>1 DEF IsFold
<1>4. sum = [s \in SUBSET patterns |-> body(sum, s)]
  <2> HIDE DEF body
  <2> QED BY <1>3
<1>5. Total(patterns) = sum[patterns]
  BY TotalUnfolded
<1>6. sum[{}] = 0
  BY <1>4
<1>7. ASSUME NEW s \in SUBSET patterns, s # {}, sum[s \ {pick[s]}] \in Nat PROVE sum[s] \in Nat
  <2>1. pick[s] \in DOMAIN Weight /\ pick[s] = CHOOSE x \in s : TRUE
    BY <1>1, <1>7
  <2>2. sum[s] = Weight[pick[s]] + sum[s \ {pick[s]}]
    <3> HIDE DEF sum
    <3> QED BY <1>4, <1>7, <2>1
  <2> HIDE DEF sum, pick
  <2> QED BY <1>7, <2>1, <2>2, WeightsAreNumbers
<1> HIDE DEF sum, pick, op, body
<1>8. \A s \in SUBSET patterns : sum[s] \in Nat
  <2>1. PICK f, last : f = sum /\ last = pick
    OBVIOUS
  <2>2. \A s \in SUBSET patterns : s # {} => last[s] \in s
    BY <1>1, <2>1
  <2>3. f[{}] \in Nat
    BY <1>6, <2>1
  <2>4. \A s \in SUBSET patterns : s # {} /\ f[s \ {last[s]}] \in Nat => f[s] \in Nat
    BY <1>7, <2>1
  <2>5. \A s \in SUBSET patterns : f[s] \in Nat
    BY <2>2, <2>3, <2>4, FoldHasType
  <2> QED BY <2>1, <2>5
<1> QED BY <1>5, <1>6, <1>8

(* A set of at most four elements is finite.                              *)
LEMMA FourAreFinite ==
  ASSUME NEW a, NEW b, NEW c, NEW d
  PROVE  IsFiniteSet({a, b, c, d})
<1>1. IsFiniteSet({}) /\ {} \cup {a} = {a} /\ {a} \cup {b} = {a, b} /\ {a, b} \cup {c} = {a, b, c}
      /\ {a, b, c} \cup {d} = {a, b, c, d}
  BY FS_EmptySet
<1>2. IsFiniteSet({a})
  BY <1>1, FS_AddElement
<1>3. IsFiniteSet({a, b})
  BY <1>1, <1>2, FS_AddElement
<1>4. IsFiniteSet({a, b, c})
  BY <1>1, <1>3, FS_AddElement
<1> QED BY <1>1, <1>4, FS_AddElement

(* There are finitely many patterns and hooks.                             *)
LEMMA PatternsAreFinite ==
  ASSUME NEW patterns \in SUBSET DOMAIN Weight
  PROVE  IsFiniteSet(patterns)
<1>1. DOMAIN Weight =
        (({"network", "remote", "child", "manyHooks"}
            \cup {"base64", "obfuscation", "envExfil", "functionCtor"})
           \cup {"charCode", "jsObfuscator", "webhook", "staging"})
          \cup {"binary", "noReadme", "binary", "noReadme"}
  BY DEF Weight
<1>2. IsFiniteSet(DOMAIN Weight)
  <2>1. PICK a, b, c, d : /\ a = {"network", "remote", "child", "manyHooks"}
                          /\ b = {"base64", "obfuscation", "envExfil", "functionCtor"}
                          /\ c = {"charCode", "jsObfuscator", "webhook", "staging"}
                          /\ d = {"binary", "noReadme", "binary", "noReadme"}
    OBVIOUS
  <2>2. IsFiniteSet(a) /\ IsFiniteSet(b) /\ IsFiniteSet(c) /\ IsFiniteSet(d)
    BY <2>1, FourAreFinite
  <2>3. IsFiniteSet(a \cup b)
    BY <2>2, FS_Union
  <2>4. IsFiniteSet((a \cup b) \cup c)
    BY <2>2, <2>3, FS_Union
  <2>5. IsFiniteSet(((a \cup b) \cup c) \cup d)
    BY <2>2, <2>4, FS_Union
  <2> QED BY <1>1, <2>1, <2>5
<1> QED BY <1>2, FS_Subset

(* There are finitely many hooks.                                         *)
LEMMA HooksAreFinite ==
  ASSUME NEW hooks \in SUBSET Hook
  PROVE  IsFiniteSet(hooks)
<1>1. Hook = {"preinstall", "install", "postinstall", "install"}
  BY DEF Hook
<1> QED BY <1>1, FourAreFinite, FS_Subset

(* addFinding never lowers a score nor hides a finding, and what was at    *)
(* most another state stays at most that one.                              *)
LEMMA FindingsAdd ==
  ASSUME NEW r \in ScoreState, NEW patterns \in SUBSET FilePattern
  PROVE  LET a == AddFindings(r, patterns)
         IN  /\ a \in ScoreState /\ AtMost(r, a)
             /\ a.score = r.score + Total(patterns)
             /\ a.findings = r.findings \cup {SeverityOf[p] : p \in patterns}
             /\ a.count = r.count
<1>1. PICK t : t = Total(patterns)
  OBVIOUS
<1>2. t \in Nat
  BY <1>1, PatternsAreFinite, TotalIsNumber, WeightsAreNumbers
<1>3. PICK words : words = {SeverityOf[p] : p \in patterns}
  OBVIOUS
<1>4. words \in SUBSET FileSeverity
  BY <1>3, WeightsAreNumbers
<1>5. PICK score, findings, count : r = [score |-> score, findings |-> findings, count |-> count]
        /\ score \in Nat /\ findings \in SUBSET FileSeverity /\ count \in Nat
  BY DEF ScoreState
<1>6. AddFindings(r, patterns) =
        [score |-> score + t, findings |-> findings \cup words, count |-> count]
  <2>1. AddFindings(r, patterns) = [r EXCEPT !.score = @ + t, !.findings = @ \cup words]
    BY <1>1, <1>3 DEF AddFindings
  <2> QED BY <1>5, <2>1
<1> QED BY <1>1, <1>2, <1>3, <1>4, <1>5, <1>6 DEF ScoreState, AtMost

(* The findings of the same patterns, or of none on the lesser side, keep *)
(* the order.                                                             *)
LEMMA FindingsKeepOrder ==
  ASSUME NEW r \in ScoreState, NEW q \in ScoreState, AtMost(r, q),
         NEW fewer \in SUBSET FilePattern, NEW patterns \in SUBSET FilePattern,
         fewer = patterns \/ fewer = {}
  PROVE  AtMost(AddFindings(r, fewer), AddFindings(q, patterns))
<1>1. PICK m, n : m = Total(fewer) /\ n = Total(patterns)
  OBVIOUS
<1>2. m \in Nat /\ n \in Nat /\ m <= n
  <2>1. m \in Nat /\ n \in Nat /\ (fewer = {} => m = 0)
    BY <1>1, PatternsAreFinite, TotalIsNumber, WeightsAreNumbers
  <2>2. CASE fewer = {}
    BY <2>1, <2>2
  <2>3. CASE fewer = patterns
    BY <1>1, <2>1, <2>3
  <2> QED BY <2>2, <2>3
<1>3. PICK a, b : a = AddFindings(r, fewer) /\ b = AddFindings(q, patterns)
  OBVIOUS
<1>4. /\ a.score = r.score + m /\ b.score = q.score + n
      /\ a.count = r.count /\ b.count = q.count
      /\ a.findings = r.findings \cup {SeverityOf[p] : p \in fewer}
      /\ b.findings = q.findings \cup {SeverityOf[p] : p \in patterns}
  BY <1>1, <1>3, FindingsAdd
<1>5. r.score \in Nat /\ q.score \in Nat /\ r.score <= q.score
      /\ r.findings \subseteq q.findings /\ r.count <= q.count
  BY DEF ScoreState, AtMost
<1>6. a.findings \subseteq b.findings /\ a.count <= b.count
  BY <1>4, <1>5
<1>7. a.score <= b.score
  <2>1. PICK i, j : i = r.score /\ j = q.score
    OBVIOUS
  <2>2. a.score = i + m /\ b.score = j + n /\ i \in Nat /\ j \in Nat /\ i <= j
    BY <1>4, <1>5, <2>1
  <2>3. i + m <= j + n
    BY <1>2, <2>2
  <2> QED BY <2>2, <2>3
<1> QED BY <1>3, <1>6, <1>7 DEF AtMost

-----------------------------------------------------------------------------
(* The hooks of a package.json.                                            *)
Scored(res, hooks) ==
  FoldSet(LAMBDA h, r : AddFindings(r, hooks[h]), res, DOMAIN hooks)

(* The loop over the hooks as the recursive function that it stands for.   *)
HookBody(g, res, hooks, s) ==
  IF s = {} THEN res
  ELSE AddFindings(g[s \ {CHOOSE x \in s : TRUE}], hooks[CHOOSE x \in s : TRUE])

(* FoldSet over the hooks is that recursive function.                     *)
LEMMA ScoredUnfolded ==
  ASSUME NEW res, NEW hooks
  PROVE  Scored(res, hooks) =
    (CHOOSE g : g = [s \in SUBSET DOMAIN hooks |-> HookBody(g, res, hooks, s)])[DOMAIN hooks]
BY DEF Scored, FoldSet, MapThenFoldSet, HookBody

(* A set of hooks with the patterns of their commands.                     *)
AreHooks(hooks) ==
  /\ DOMAIN hooks \subseteq Hook
  /\ \A h \in DOMAIN hooks : hooks[h] \subseteq ScriptPattern

(* That loop has states, one for each set of hooks it has gone through.    *)
LEMMA HooksAreScored ==
  ASSUME NEW res \in ScoreState, NEW hooks, AreHooks(hooks)
  PROVE  \E g : /\ \A s \in SUBSET DOMAIN hooks :
                     g[s] \in ScoreState /\ g[s] = HookBody(g, res, hooks, s)
                /\ Scored(res, hooks) = g[DOMAIN hooks]
<1> DEFINE S == DOMAIN hooks
           pick == [s \in SUBSET S |-> CHOOSE x \in s : TRUE]
           op == [h \in S |-> [r \in ScoreState |-> AddFindings(r, hooks[h])]]
           run == CHOOSE g : g = [s \in SUBSET S |-> HookBody(g, res, hooks, s)]
<1>1. IsFiniteSet(S)
  BY HooksAreFinite DEF AreHooks
<1>2. \A h \in S : hooks[h] \in SUBSET FilePattern
  BY DEF AreHooks, ScriptPattern, FilePattern, Weight
<1>3. op \in [S -> [ScoreState -> ScoreState]]
  <2>1. \A h \in S, r \in ScoreState : AddFindings(r, hooks[h]) \in ScoreState
    BY <1>2, FindingsAdd
  <2> QED BY <2>1
<1>4. \A s \in SUBSET S : s # {} => pick[s] \in s /\ pick[s] = CHOOSE x \in s : TRUE
  OBVIOUS
<1>5. PICK g : IsFold(g, S, ScoreState, res, op, pick)
  <2> HIDE DEF pick, op, S
  <2>1. \A s \in SUBSET S : s # {} => pick[s] \in s
    BY <1>4
  <2> QED BY <1>1, <1>3, <2>1, FoldRuns
<1>6. ASSUME NEW s \in SUBSET S PROVE g[s] = HookBody(g, res, hooks, s)
  <2>1. g[s] = FoldBody(g, res, op, pick, s) /\ g \in [SUBSET S -> ScoreState]
    BY <1>5 DEF IsFold
  <2>2. CASE s = {}
    BY <2>1, <2>2 DEF FoldBody, HookBody
  <2>3. CASE s # {}
    <3>1. PICK x : x = pick[s]
      OBVIOUS
    <3>2. x \in s /\ x = CHOOSE y \in s : TRUE
      BY <1>4, <2>3, <3>1
    <3>3. g[s \ {x}] \in ScoreState
      BY <2>1
    <3>4. g[s] = op[x][g[s \ {x}]]
      BY <2>1, <2>3, <3>1 DEF FoldBody
    <3>5. g[s] = AddFindings(g[s \ {x}], hooks[x])
      BY <3>2, <3>3, <3>4
    <3> QED BY <2>3, <3>2, <3>5 DEF HookBody
  <2> QED BY <2>2, <2>3
<1>7. g = [s \in SUBSET S |-> HookBody(g, res, hooks, s)]
  BY <1>5, <1>6 DEF IsFold
<1>8. run = [s \in SUBSET S |-> HookBody(run, res, hooks, s)]
  BY <1>7
<1>9. Scored(res, hooks) = run[S]
  BY ScoredUnfolded
<1>10. \A s \in SUBSET S : run[s] \in ScoreState
  <2>1. PICK f, last : f = run /\ last = pick
    OBVIOUS
  <2>2. \A s \in SUBSET S : s # {} => last[s] \in s
    BY <1>4, <2>1
  <2>3. f[{}] \in ScoreState
    BY <1>8, <2>1 DEF HookBody
  <2>4. ASSUME NEW s \in SUBSET S, s # {}, f[s \ {last[s]}] \in ScoreState
        PROVE  f[s] \in ScoreState
    <3>1. PICK x : x = last[s]
      OBVIOUS
    <3>2. x \in s /\ x = CHOOSE y \in s : TRUE
      BY <1>4, <2>1, <2>4, <3>1
    <3>3. f[s] = AddFindings(f[s \ {x}], hooks[x])
      BY <1>8, <2>1, <2>4, <3>2 DEF HookBody
    <3> QED BY <1>2, <2>4, <3>1, <3>2, <3>3, FindingsAdd
  <2> HIDE DEF run, pick, op
  <2>5. \A s \in SUBSET S : f[s] \in ScoreState
    BY <1>1, <2>2, <2>3, <2>4, FoldHasType
  <2> QED BY <2>1, <2>5
<1> HIDE DEF run
<1>11. \A s \in SUBSET S : run[s] = HookBody(run, res, hooks, s)
  BY <1>8
<1> QED BY <1>9, <1>10, <1>11

(* A state that is at most another is at most all that are above it.      *)
LEMMA AtMostIsTransitive ==
  ASSUME NEW a \in ScoreState, NEW b \in ScoreState, NEW c \in ScoreState,
         AtMost(a, b), AtMost(b, c)
  PROVE  AtMost(a, c)
BY DEF AtMost, ScoreState

(* Two states that agree in their order go through the same hooks.         *)
LEMMA HooksKeepOrder ==
  ASSUME NEW r \in ScoreState, NEW q \in ScoreState, AtMost(r, q),
         NEW hooks, AreHooks(hooks)
  PROVE  /\ Scored(r, hooks) \in ScoreState /\ Scored(q, hooks) \in ScoreState
         /\ AtMost(r, Scored(r, hooks)) /\ AtMost(Scored(r, hooks), Scored(q, hooks))
<1>1. PICK f : /\ \A s \in SUBSET DOMAIN hooks :
                    f[s] \in ScoreState /\ f[s] = HookBody(f, r, hooks, s)
               /\ Scored(r, hooks) = f[DOMAIN hooks]
  BY HooksAreScored
<1>2. PICK g : /\ \A s \in SUBSET DOMAIN hooks :
                    g[s] \in ScoreState /\ g[s] = HookBody(g, q, hooks, s)
               /\ Scored(q, hooks) = g[DOMAIN hooks]
  BY HooksAreScored
<1>3. PICK S, pick, pairs, V :
        /\ S = DOMAIN hooks
        /\ pick = [s \in SUBSET S |-> CHOOSE x \in s : TRUE]
        /\ pairs = [s \in SUBSET S |-> <<f[s], g[s]>>]
        /\ V = {p \in ScoreState \X ScoreState : AtMost(r, p[1]) /\ AtMost(p[1], p[2])}
  OBVIOUS
<1>4. IsFiniteSet(S)
  BY <1>3, HooksAreFinite DEF AreHooks
<1>5. \A s \in SUBSET S : s # {} => pick[s] \in s
  BY <1>3
<1>6. pairs[{}] \in V
  <2>1. {} \in SUBSET S /\ f[{}] = r /\ g[{}] = q
    BY <1>1, <1>2, <1>3 DEF HookBody
  <2>2. AtMost(r, r)
    BY DEF AtMost, ScoreState
  <2> QED BY <1>3, <2>1, <2>2
<1>7. ASSUME NEW s \in SUBSET S, s # {}, pairs[s \ {pick[s]}] \in V
      PROVE  pairs[s] \in V
  <2>1. PICK x : x = pick[s]
    OBVIOUS
  <2>2. x \in s /\ x = CHOOSE y \in s : TRUE
    BY <1>3, <1>7, <2>1
  <2>3. PICK a, b : a = f[s \ {x}] /\ b = g[s \ {x}]
    OBVIOUS
  <2>4. a \in ScoreState /\ b \in ScoreState /\ AtMost(r, a) /\ AtMost(a, b)
    BY <1>3, <1>7, <2>1, <2>3
  <2>5. f[s] = AddFindings(a, hooks[x]) /\ g[s] = AddFindings(b, hooks[x])
    BY <1>1, <1>2, <1>3, <1>7, <2>2, <2>3 DEF HookBody
  <2>6. hooks[x] \in SUBSET FilePattern
    BY <1>3, <2>2 DEF AreHooks, ScriptPattern, FilePattern, Weight
  <2>7. f[s] \in ScoreState /\ g[s] \in ScoreState /\ AtMost(a, f[s])
    BY <2>4, <2>5, <2>6, FindingsAdd
  <2>8. AtMost(f[s], g[s])
    BY <2>4, <2>5, <2>6, FindingsKeepOrder
  <2>9. AtMost(r, f[s])
    BY <2>4, <2>7, AtMostIsTransitive
  <2> QED BY <1>3, <2>7, <2>8, <2>9
<1>8. \A s \in SUBSET S : pairs[s] \in V
  BY <1>4, <1>5, <1>6, <1>7, FoldHasType
<1>9. pairs[S] \in V /\ pairs[S] = <<f[S], g[S]>>
  BY <1>3, <1>8
<1> QED BY <1>1, <1>2, <1>3, <1>9

(* Hooks and their count.                                                  *)
LEMMA ScriptsKeepOrder ==
  ASSUME NEW r \in ScoreState, NEW q \in ScoreState, AtMost(r, q),
         NEW f, AreHooks(f.hooks)
  PROVE  /\ AddScripts(r, f) \in ScoreState /\ AddScripts(q, f) \in ScoreState
         /\ AtMost(r, AddScripts(r, f)) /\ AtMost(AddScripts(r, f), AddScripts(q, f))
<1>1. PICK hooks, n : hooks = f.hooks /\ n = Cardinality(DOMAIN hooks)
  OBVIOUS
<1>2. n \in Nat
  BY <1>1, HooksAreFinite, FS_CardinalityType DEF AreHooks
<1>3. PICK a, b : a = Scored(r, hooks) /\ b = Scored(q, hooks)
  OBVIOUS
<1>4. a \in ScoreState /\ b \in ScoreState /\ AtMost(r, a) /\ AtMost(a, b)
  BY <1>1, <1>3, HooksKeepOrder
<1>5. PICK i, j : i = r.count + n /\ j = q.count + n
  OBVIOUS
<1>6. i \in Nat /\ j \in Nat /\ r.count <= i /\ i <= j
  BY <1>2, <1>5 DEF ScoreState, AtMost
<1>7. PICK ma, mb : /\ ma = IF i > 2 THEN {"manyHooks"} ELSE {}
                    /\ mb = IF j > 2 THEN {"manyHooks"} ELSE {}
  OBVIOUS
<1>8. /\ ma \in SUBSET FilePattern /\ mb \in SUBSET FilePattern
      /\ ma = mb \/ ma = {}
  BY <1>6, <1>7 DEF FilePattern, Weight
<1>9. PICK c, d : c = AddFindings(a, ma) /\ d = AddFindings(b, mb)
  OBVIOUS
<1>10. c \in ScoreState /\ d \in ScoreState /\ AtMost(a, c) /\ AtMost(c, d)
  BY <1>4, <1>8, <1>9, FindingsAdd, FindingsKeepOrder
<1>11. AddScripts(r, f) = [c EXCEPT !.count = i] /\ AddScripts(q, f) = [d EXCEPT !.count = j]
  <2>1. ASSUME NEW s
        PROVE  AddScripts(s, f) =
                 [AddFindings(Scored(s, f.hooks),
                    IF s.count + Cardinality(DOMAIN f.hooks) > 2 THEN {"manyHooks"} ELSE {})
                  EXCEPT !.count = s.count + Cardinality(DOMAIN f.hooks)]
    BY DEF AddScripts, Scored
  <2>2. AddScripts(r, f) = [AddFindings(a, ma) EXCEPT !.count = i]
    <3>1. AddScripts(r, f) = [AddFindings(a, IF i > 2 THEN {"manyHooks"} ELSE {})
                              EXCEPT !.count = i]
      BY <1>1, <1>3, <1>5, <2>1
    <3> QED BY <1>7, <3>1
  <2>3. AddScripts(q, f) = [AddFindings(b, mb) EXCEPT !.count = j]
    <3>1. AddScripts(q, f) = [AddFindings(b, IF j > 2 THEN {"manyHooks"} ELSE {})
                              EXCEPT !.count = j]
      BY <1>1, <1>3, <1>5, <2>1
    <3> QED BY <1>7, <3>1
  <2> QED BY <1>9, <2>2, <2>3
<1>12. AtMost(r, c)
  BY <1>4, <1>10, AtMostIsTransitive
<1> QED BY <1>6, <1>10, <1>11, <1>12 DEF ScoreState, AtMost

(* The loop of analyzeFiles: a file never lowers what is there, and        *)
(* whatever is at most another state stays so through the same file.       *)
LEMMA FileKeepsOrder ==
  ASSUME NEW r \in ScoreState, NEW q \in ScoreState, AtMost(r, q),
         NEW f, AreHooks(f.hooks)
  PROVE  /\ AnalyzeFile(r, f) \in ScoreState /\ AnalyzeFile(q, f) \in ScoreState
         /\ AtMost(r, AnalyzeFile(r, f)) /\ AtMost(AnalyzeFile(r, f), AnalyzeFile(q, f))
<1>1. FileFindings(f) \in SUBSET FilePattern
  BY DEF FileFindings, SourcePattern, FilePattern, Weight
<1>2. PICK a, b : /\ a = IF f.kind = "package.json" THEN AddScripts(r, f) ELSE r
                  /\ b = IF f.kind = "package.json" THEN AddScripts(q, f) ELSE q
  OBVIOUS
<1>3. AtMost(r, r)
  BY DEF AtMost, ScoreState
<1>4. a \in ScoreState /\ b \in ScoreState /\ AtMost(r, a) /\ AtMost(a, b)
  BY <1>2, <1>3, ScriptsKeepOrder
<1>5. AnalyzeFile(r, f) = AddFindings(a, FileFindings(f))
      /\ AnalyzeFile(q, f) = AddFindings(b, FileFindings(f))
  BY <1>2 DEF AnalyzeFile
<1>6. /\ AnalyzeFile(r, f) \in ScoreState /\ AnalyzeFile(q, f) \in ScoreState
      /\ AtMost(a, AnalyzeFile(r, f)) /\ AtMost(AnalyzeFile(r, f), AnalyzeFile(q, f))
  BY <1>1, <1>4, <1>5, FindingsAdd, FindingsKeepOrder
<1> QED BY <1>4, <1>6, AtMostIsTransitive

-----------------------------------------------------------------------------
(* The loops over the files of an archive.                                 *)
Zero == [score |-> 0, findings |-> {}, count |-> 0]

ReadAll(files) == FoldLeft(AnalyzeFile, [score |-> 0, findings |-> {}, count |-> 0], files)

ReadBody(g, files, s) ==
  IF s = {} THEN Zero ELSE AnalyzeFile(g[s \ {Max(s)}], files[Max(s)])

(* The loop of analyzeFiles as the recursive function that it stands for. *)
LEMMA ReadUnfolded ==
  ASSUME NEW files
  PROVE  ReadAll(files) =
    (CHOOSE g : g = [s \in SUBSET DOMAIN files |-> ReadBody(g, files, s)])[DOMAIN files]
BY DEF ReadAll, FoldLeft, MapThenFoldSet, ReadBody, Zero

(* What analyzeFiles has found after each file of an archive.              *)
ScoredStates(st, files, n) ==
  /\ \A k \in 0..n : st[k] \in ScoreState
  /\ st[0] = Zero /\ st[n] = ReadAll(files)
  /\ \A k \in Nat : k + 1 <= n => st[k + 1] = AnalyzeFile(st[k], files[k + 1])

(* analyzeFiles scores one file after the other.                           *)
LEMMA FilesAreScored ==
  ASSUME NEW files, NEW n \in Nat, DOMAIN files = 1..n,
         \A i \in 1..n : AreHooks(files[i].hooks)
  PROVE  \E st : ScoredStates(st, files, n)
<1> DEFINE op == [i \in 1..n |-> [r \in ScoreState |-> AnalyzeFile(r, files[i])]]
           run == CHOOSE g : g = [s \in SUBSET DOMAIN files |-> ReadBody(g, files, s)]
<1>1. op \in [1..n -> [ScoreState -> ScoreState]]
  <2>1. ASSUME NEW i \in 1..n, NEW r \in ScoreState
        PROVE  AnalyzeFile(r, files[i]) \in ScoreState
    <3>1. AtMost(r, r)
      BY DEF AtMost, ScoreState
    <3> QED BY <3>1, FileKeepsOrder
  <2> QED BY <2>1
<1>2. Zero \in ScoreState
  BY DEF Zero, ScoreState
<1>3. PICK g : IsLoop(g, n, ScoreState, Zero, op)
  <2> HIDE DEF op
  <2> QED BY <1>1, <1>2, LoopRuns
<1>4. ASSUME NEW s \in SUBSET (1..n), s # {}
      PROVE  Max(s) \in 1..n /\ s \ {Max(s)} \in SUBSET (1..n)
  <2>1. Max(s) \in s
    BY <1>4, MaxIsGreatest
  <2> QED BY <2>1
<1>5. ASSUME NEW s \in SUBSET (1..n) PROVE g[s] = ReadBody(g, files, s)
  <2>1. CASE s = {}
    BY <1>3, <2>1 DEF IsLoop, ReadBody
  <2>2. CASE s # {}
    <3>1. PICK m : m = Max(s)
      OBVIOUS
    <3>2. g[s] = op[m][g[s \ {m}]] /\ m \in 1..n /\ g[s \ {m}] \in ScoreState
      BY <1>3, <1>4, <2>2, <3>1 DEF IsLoop
    <3>3. g[s] = AnalyzeFile(g[s \ {m}], files[m])
      BY <3>2
    <3> QED BY <2>2, <3>1, <3>3 DEF ReadBody
  <2> QED BY <2>1, <2>2
<1>6. g = [s \in SUBSET DOMAIN files |-> ReadBody(g, files, s)]
  BY <1>3, <1>5 DEF IsLoop
<1>7. run = [s \in SUBSET (1..n) |-> ReadBody(run, files, s)]
  BY <1>6
<1>8. ReadAll(files) = run[1..n]
  BY ReadUnfolded
<1> HIDE DEF run
<1>9. run[{}] = Zero
  BY <1>7 DEF ReadBody
<1>10. ASSUME NEW s \in SUBSET (1..n), s # {}
       PROVE  run[s] = AnalyzeFile(run[s \ {Max(s)}], files[Max(s)])
  BY <1>7, <1>10 DEF ReadBody
<1>11. ASSUME NEW s \in SUBSET (1..n), s # {}, run[s \ {Max(s)}] \in ScoreState
       PROVE  run[s] = op[Max(s)][run[s \ {Max(s)}]]
  <2>1. PICK m, r : m = Max(s) /\ r = run[s \ {m}]
    OBVIOUS
  <2>2. m \in 1..n /\ r \in ScoreState /\ run[s] = AnalyzeFile(r, files[m])
    BY <1>4, <1>10, <1>11, <2>1
  <2>3. op[m][r] = AnalyzeFile(r, files[m])
    BY <2>2
  <2> QED BY <2>1, <2>2, <2>3
<1>12. PICK st : AreStates(st, n, ScoreState, op, Zero, ReadAll(files))
  <2>1. PICK h, o, V : h = run /\ o = op /\ V = ScoreState
    OBVIOUS
  <2>2. o \in [1..n -> [V -> V]]
    BY <1>1, <2>1
  <2>3. TakesSteps(h, n, V, o)
    BY <1>11, <2>1 DEF TakesSteps
  <2>4. h[{}] \in V
    BY <1>2, <1>9, <2>1
  <2>5. \E st : AreStates(st, n, V, o, h[{}], h[1..n])
    BY <2>2, <2>3, <2>4, LoopStates
  <2> QED BY <1>8, <1>9, <2>1, <2>5
<1>13. ASSUME NEW k \in Nat, k + 1 <= n PROVE st[k + 1] = AnalyzeFile(st[k], files[k + 1])
  <2>1. PICK i, r : i = k + 1 /\ r = st[k]
    OBVIOUS
  <2>2. i \in 1..n /\ r \in ScoreState /\ st[k + 1] = op[i][r]
    BY <1>12, <1>13, <2>1 DEF AreStates
  <2> QED BY <2>1, <2>2
<1>14. ASSUME NEW k \in 0..n PROVE st[k] \in ScoreState
  BY <1>12 DEF AreStates
<1> QED BY <1>12, <1>13, <1>14 DEF AreStates, ScoredStates

KeepBody(g, files, s) == IF s = {} THEN <<>> ELSE Keep(g[s \ {Max(s)}], files[Max(s)])

(* The loop of extract as the recursive function that it stands for.      *)
LEMMA KeptUnfolded ==
  ASSUME NEW files
  PROVE  Extracted(files) =
    (CHOOSE g : g = [s \in SUBSET DOMAIN files |-> KeepBody(g, files, s)])[DOMAIN files]
BY DEF Extracted, FoldLeft, MapThenFoldSet, KeepBody

(* What extract has kept after each entry of an archive.                   *)
KeptStates(st, files, n, F) ==
  /\ \A k \in 0..n : st[k] \in Seq(F)
  /\ st[0] = <<>> /\ st[n] = Extracted(files)
  /\ \A k \in Nat : k + 1 <= n => st[k + 1] = Keep(st[k], files[k + 1])

(* extract looks at one entry of an archive after the other.               *)
LEMMA FilesAreKept ==
  ASSUME NEW F, NEW files, NEW n \in Nat, DOMAIN files = 1..n,
         \A i \in 1..n : files[i] \in F
  PROVE  \E st : KeptStates(st, files, n, F)
<1> DEFINE op == [i \in 1..n |-> [r \in Seq(F) |-> Keep(r, files[i])]]
           run == CHOOSE g : g = [s \in SUBSET DOMAIN files |-> KeepBody(g, files, s)]
<1>1. op \in [1..n -> [Seq(F) -> Seq(F)]]
  <2>1. ASSUME NEW i \in 1..n, NEW r \in Seq(F)
        PROVE  Keep(r, files[i]) \in Seq(F)
    <3>1. PICK f : f = files[i]
      OBVIOUS
    <3>2. f \in F
      BY <3>1
    <3>3. Append(r, f) \in Seq(F)
      BY <3>2
    <3>4. Keep(r, f) \in {r, Append(r, f)}
      BY DEF Keep
    <3> QED BY <3>1, <3>3, <3>4
  <2> QED BY <2>1
<1>2. <<>> \in Seq(F)
  OBVIOUS
<1>3. PICK g : IsLoop(g, n, Seq(F), <<>>, op)
  <2>1. PICK V, base, o : V = Seq(F) /\ base = <<>> /\ o = op
    OBVIOUS
  <2>2. base \in V /\ o \in [1..n -> [V -> V]]
    BY <1>1, <1>2, <2>1
  <2>3. \E g : IsLoop(g, n, V, base, o)
    BY <2>2, LoopRuns
  <2> QED BY <2>1, <2>3
<1>4. ASSUME NEW s \in SUBSET (1..n), s # {}
      PROVE  Max(s) \in 1..n /\ s \ {Max(s)} \in SUBSET (1..n)
  <2>1. Max(s) \in s
    BY <1>4, MaxIsGreatest
  <2> QED BY <2>1
<1>5. ASSUME NEW s \in SUBSET (1..n) PROVE g[s] = KeepBody(g, files, s)
  <2>1. CASE s = {}
    BY <1>3, <2>1 DEF IsLoop, KeepBody
  <2>2. CASE s # {}
    <3>1. PICK m : m = Max(s)
      OBVIOUS
    <3>2. g[s] = op[m][g[s \ {m}]] /\ m \in 1..n /\ g[s \ {m}] \in Seq(F)
      BY <1>3, <1>4, <2>2, <3>1 DEF IsLoop
    <3>3. g[s] = Keep(g[s \ {m}], files[m])
      BY <3>2
    <3> QED BY <2>2, <3>1, <3>3 DEF KeepBody
  <2> QED BY <2>1, <2>2
<1>6. g = [s \in SUBSET DOMAIN files |-> KeepBody(g, files, s)]
  BY <1>3, <1>5 DEF IsLoop
<1>7. run = [s \in SUBSET (1..n) |-> KeepBody(run, files, s)]
  BY <1>6
<1>8. Extracted(files) = run[1..n]
  BY KeptUnfolded
<1> HIDE DEF run
<1>9. run[{}] = <<>>
  BY <1>7 DEF KeepBody
<1>10. ASSUME NEW s \in SUBSET (1..n), s # {}
       PROVE  run[s] = Keep(run[s \ {Max(s)}], files[Max(s)])
  BY <1>7, <1>10 DEF KeepBody
<1>11. ASSUME NEW s \in SUBSET (1..n), s # {}, run[s \ {Max(s)}] \in Seq(F)
       PROVE  run[s] = op[Max(s)][run[s \ {Max(s)}]]
  <2>1. PICK m, r : m = Max(s) /\ r = run[s \ {m}]
    OBVIOUS
  <2>2. m \in 1..n /\ r \in Seq(F) /\ run[s] = Keep(r, files[m])
    BY <1>4, <1>10, <1>11, <2>1
  <2>3. op[m][r] = Keep(r, files[m])
    BY <2>2
  <2> QED BY <2>1, <2>2, <2>3
<1>12. PICK st : AreStates(st, n, Seq(F), op, <<>>, Extracted(files))
  <2>1. PICK h, o, V : h = run /\ o = op /\ V = Seq(F)
    OBVIOUS
  <2>2. o \in [1..n -> [V -> V]]
    BY <1>1, <2>1
  <2>3. TakesSteps(h, n, V, o)
    BY <1>11, <2>1 DEF TakesSteps
  <2>4. h[{}] \in V
    BY <1>2, <1>9, <2>1
  <2>5. \E st : AreStates(st, n, V, o, h[{}], h[1..n])
    BY <2>2, <2>3, <2>4, LoopStates
  <2> QED BY <1>8, <1>9, <2>1, <2>5
<1>13. ASSUME NEW k \in Nat, k + 1 <= n PROVE st[k + 1] = Keep(st[k], files[k + 1])
  <2>1. PICK i, r, V : i = k + 1 /\ r = st[k] /\ V = Seq(F)
    OBVIOUS
  <2>2. i \in 1..n /\ k \in 0..n /\ st \in [0..n -> V] /\ st[k + 1] = op[i][r]
    <3>1. i \in 1..n /\ k \in 0..n
      BY <1>13, <2>1
    <3>2. st \in [0..n -> V]
      BY <1>12, <2>1 DEF AreStates
    <3>3. st[k + 1] = op[k + 1][st[k]]
      <4> HIDE DEF op
      <4> QED BY <1>12, <1>13 DEF AreStates
    <3> QED BY <2>1, <3>1, <3>2, <3>3
  <2>3. r \in Seq(F)
    BY <2>1, <2>2
  <2>4. op[i][r] = Keep(r, files[i])
    BY <2>2, <2>3
  <2> QED BY <2>1, <2>2, <2>4
<1>14. ASSUME NEW k \in 0..n PROVE st[k] \in Seq(F)
  <2>1. PICK V : V = Seq(F)
    OBVIOUS
  <2>2. st \in [0..n -> V]
    BY <1>12, <2>1 DEF AreStates
  <2> QED BY <2>1, <2>2
<1> QED BY <1>12, <1>13, <1>14 DEF AreStates, KeptStates

-----------------------------------------------------------------------------
(* An archive with one file more.                                          *)

(* The list t is s with e after its first p elements.                      *)
IsInserted(s, t, p, e) ==
  /\ p \in 0..Len(s) /\ Len(t) = Len(s) + 1
  /\ \A i \in 1..p : t[i] = s[i]
  /\ t[p + 1] = e
  /\ \A i \in (p + 1)..Len(s) : t[i + 1] = s[i]

SameOrInserted(s, t, e) == t = s \/ \E p \in Nat : IsInserted(s, t, p, e)

(* The list c is a followed by b.                                          *)
IsJoin(c, a, b) == c = a \o b

JoinParts(c, a, b, F) ==
  /\ c \in Seq(F) /\ Len(c) = Len(a) + Len(b)
  /\ \A i \in 1..Len(a) : c[i] = a[i]
  /\ \A i \in 1..Len(b) : c[Len(a) + i] = b[i]

(* The elements of a followed by b.                                       *)
LEMMA JoinHas ==
  ASSUME NEW F, NEW a \in Seq(F), NEW b \in Seq(F), NEW c, IsJoin(c, a, b)
  PROVE  JoinParts(c, a, b, F)
BY Joined DEF IsJoin, JoinParts

(* A list between whose halves one element is put.                         *)
LEMMA InsertedBetween ==
  ASSUME NEW F, NEW before \in Seq(F), NEW one \in Seq(F), NEW after \in Seq(F), Len(one) = 1,
         NEW head, IsJoin(head, before, one),
         NEW s, IsJoin(s, before, after), NEW t, IsJoin(t, head, after)
  PROVE  s \in Seq(F) /\ t \in Seq(F) /\ IsInserted(s, t, Len(before), one[1])
<1>1. PICK m \in Nat, n \in Nat : m = Len(before) /\ n = Len(after)
  OBVIOUS
<1>2. /\ head \in Seq(F) /\ Len(head) = m + 1
      /\ \A i \in 1..m : head[i] = before[i]
      /\ head[m + 1] = one[1]
  <2>1. JoinParts(head, before, one, F)
    BY JoinHas
  <2> QED BY <1>1, <2>1 DEF JoinParts
<1>3. /\ s \in Seq(F) /\ Len(s) = m + n
      /\ \A i \in 1..m : s[i] = before[i]
      /\ \A i \in 1..n : s[m + i] = after[i]
  <2>1. JoinParts(s, before, after, F)
    BY JoinHas
  <2> QED BY <1>1, <2>1 DEF JoinParts
<1>4. /\ t \in Seq(F) /\ Len(t) = m + 1 + n
      /\ \A i \in 1..(m + 1) : t[i] = head[i]
      /\ \A i \in 1..n : t[m + 1 + i] = after[i]
  <2>1. head \in Seq(F)
    BY <1>2
  <2>2. JoinParts(t, head, after, F)
    BY <2>1, JoinHas
  <2> QED BY <1>1, <1>2, <2>2 DEF JoinParts
<1>5. ASSUME NEW i \in (m + 1)..(m + n) PROVE t[i + 1] = s[i]
  <2>1. PICK j : j = i - m
    OBVIOUS
  <2>2. j \in 1..n /\ i = m + j /\ i + 1 = m + 1 + j
    BY <1>1, <2>1
  <2>3. s[m + j] = after[j] /\ t[m + 1 + j] = after[j]
    BY <1>3, <1>4, <2>2
  <2> QED BY <2>2, <2>3
<1>6. \A i \in 1..m : t[i] = s[i]
  BY <1>1, <1>2, <1>3, <1>4
<1>7. t[m + 1] = one[1]
  BY <1>1, <1>2, <1>4
<1>8. Len(t) = Len(s) + 1 /\ m \in 0..Len(s) /\ Len(s) = m + n
  BY <1>1, <1>3, <1>4
<1> QED BY <1>1, <1>3, <1>4, <1>5, <1>6, <1>7, <1>8 DEF IsInserted

(* One more element makes a list longer by one.                           *)
LEMMA InsertedKeepsLength ==
  ASSUME NEW F, NEW s \in Seq(F), NEW t \in Seq(F), NEW e, SameOrInserted(s, t, e)
  PROVE  Len(s) <= Len(t) /\ Len(t) <= Len(s) + 1
BY DEF SameOrInserted, IsInserted

(* Appending the same element to both keeps the one that was inserted.    *)
LEMMA InsertedAppends ==
  ASSUME NEW F, NEW s \in Seq(F), NEW t \in Seq(F), NEW e, NEW f \in F,
         SameOrInserted(s, t, e)
  PROVE  SameOrInserted(Append(s, f), Append(t, f), e)
<1>1. CASE t = s
  BY <1>1 DEF SameOrInserted
<1>2. CASE t # s
  <2>1. PICK p \in Nat : IsInserted(s, t, p, e)
    BY <1>2 DEF SameOrInserted
  <2>2. PICK m \in Nat : Len(s) = m /\ Len(t) = m + 1 /\ p \in 0..m
    BY <2>1 DEF IsInserted
  <2>3. PICK u, v : u = Append(s, f) /\ v = Append(t, f)
    OBVIOUS
  <2>4. /\ Len(u) = m + 1 /\ Len(v) = m + 2
        /\ \A i \in 1..m : u[i] = s[i]
        /\ \A i \in 1..(m + 1) : v[i] = t[i]
        /\ u[m + 1] = f /\ v[m + 2] = f
    BY <2>2, <2>3
  <2>5. ASSUME NEW i \in (p + 1)..(m + 1) PROVE v[i + 1] = u[i]
    <3>1. CASE i = m + 1
      BY <2>2, <2>4, <3>1
    <3>2. CASE i # m + 1
      <4>1. i \in (p + 1)..m /\ i \in 1..m /\ i + 1 \in 1..(m + 1)
        BY <2>2, <3>2
      <4>2. t[i + 1] = s[i]
        BY <2>1, <2>2, <4>1 DEF IsInserted
      <4> QED BY <2>4, <4>1, <4>2
    <3> QED BY <3>1, <3>2
  <2>6. \A i \in 1..p : v[i] = u[i]
    <3>1. ASSUME NEW i \in 1..p PROVE v[i] = u[i]
      <4>1. i \in 1..m /\ i \in 1..(m + 1)
        BY <2>2
      <4> QED BY <2>1, <2>4, <4>1 DEF IsInserted
    <3> QED BY <3>1
  <2>7. v[p + 1] = e /\ p \in 0..(m + 1) /\ m + 2 = m + 1 + 1
    <3>1. p + 1 \in 1..(m + 1)
      BY <2>2
    <3> QED BY <2>1, <2>2, <2>4, <3>1 DEF IsInserted
  <2>8. IsInserted(u, v, p, e)
    BY <2>4, <2>5, <2>6, <2>7 DEF IsInserted
  <2> QED BY <2>3, <2>8 DEF SameOrInserted
<1> QED BY <1>1, <1>2

(* Appending is inserting at the end.                                     *)
LEMMA InsertedAtEnd ==
  ASSUME NEW F, NEW s \in Seq(F), NEW e \in F
  PROVE  SameOrInserted(s, Append(s, e), e)
<1>1. IsInserted(s, Append(s, e), Len(s), e)
  BY DEF IsInserted
<1> QED BY <1>1 DEF SameOrInserted

(* As long as fewer files are kept than may be, extract keeps the same     *)
(* files of an archive with one more, and this one if it is interesting.   *)
LEMMA KeptWithOneMore ==
  ASSUME NEW F, NEW s \in Seq(F), NEW t \in Seq(F), NEW p \in Nat, NEW e,
         IsInserted(s, t, p, e), Len(Extracted(s)) < MaxArchiveFiles
  PROVE  /\ Extracted(s) \in Seq(F) /\ Extracted(t) \in Seq(F)
         /\ SameOrInserted(Extracted(s), Extracted(t), e)
<1>0. MaxArchiveFiles \in Nat
  BY BoundsAssumption
<1>1. PICK n \in Nat : /\ Len(s) = n /\ Len(t) = n + 1 /\ p \in 0..n
                       /\ DOMAIN s = 1..n /\ DOMAIN t = 1..(n + 1)
  BY DEF IsInserted
<1>2. PICK a : KeptStates(a, s, n, F)
  <2>1. \A i \in 1..n : s[i] \in F
    BY <1>1
  <2> QED BY <1>1, <2>1, FilesAreKept
<1>3. PICK b : KeptStates(b, t, n + 1, F)
  <2>1. \A i \in 1..(n + 1) : t[i] \in F
    BY <1>1
  <2>2. n + 1 \in Nat
    OBVIOUS
  <2> QED BY <1>1, <2>1, <2>2, FilesAreKept
<1> USE DEF KeptStates
<1>4. a[p] = b[p]
  <2> DEFINE K == {k \in Nat : k <= p => a[k] = b[k]}
  <2>1. 0 \in K
    BY <1>2, <1>3
  <2>2. ASSUME NEW k \in Nat, k \in K PROVE k + 1 \in K
    <3> SUFFICES ASSUME k + 1 <= p PROVE a[k + 1] = b[k + 1]
      OBVIOUS
    <3>1. a[k] = b[k] /\ k + 1 <= n /\ k + 1 <= n + 1 /\ k + 1 \in 1..p
      BY <1>1, <2>2
    <3>2. t[k + 1] = s[k + 1]
      BY <3>1 DEF IsInserted
    <3> QED BY <1>2, <1>3, <3>1, <3>2
  <2>3. Nat \subseteq K
    <3> HIDE DEF K
    <3> QED BY <2>1, <2>2, NatInd
  <2> QED BY <2>3
<1>5. ASSUME NEW i \in 0..n PROVE a[i] \in Seq(F) /\ b[i + 1] \in Seq(F)
  <2>1. i + 1 \in 0..(n + 1)
    OBVIOUS
  <2> QED BY <1>2, <1>3, <2>1
<1> DEFINE K == {k \in Nat : p + k <= n /\ Len(a[p + k]) < MaxArchiveFiles =>
                              SameOrInserted(a[p + k], b[p + k + 1], e)}
<1>6. 0 \in K
  <2>1. PICK u : u = a[p]
    OBVIOUS
  <2>2. u \in Seq(F) /\ t[p + 1] = e /\ e \in F
    <3>1. p + 1 \in 1..(n + 1)
      BY <1>1
    <3>2. t[p + 1] = e
      BY DEF IsInserted
    <3> QED BY <1>1, <1>5, <2>1, <3>1, <3>2
  <2>3. b[p + 1] = Keep(u, e)
    BY <1>1, <1>3, <1>4, <2>1, <2>2
  <2>4. b[p + 1] = u \/ b[p + 1] = Append(u, e)
    BY <2>3 DEF Keep
  <2>5. SameOrInserted(u, b[p + 1], e)
    BY <2>2, <2>4, InsertedAtEnd DEF SameOrInserted
  <2> QED BY <2>1, <2>5
<1>7. ASSUME NEW k \in Nat, k \in K PROVE k + 1 \in K
  <2> SUFFICES ASSUME p + k + 1 <= n, Len(a[p + k + 1]) < MaxArchiveFiles
               PROVE  SameOrInserted(a[p + k + 1], b[p + k + 2], e)
    OBVIOUS
  <2>1. PICK i \in Nat : i = p + k
    OBVIOUS
  <2>2. i + 1 <= n /\ i \in 0..n /\ i + 1 \in (p + 1)..n /\ i + 1 \in 1..n
    BY <2>1
  <2>3. PICK u, v, f : u = a[i] /\ v = b[i + 1] /\ f = s[i + 1]
    OBVIOUS
  <2>4. u \in Seq(F) /\ v \in Seq(F) /\ f \in F
    BY <1>1, <1>5, <2>2, <2>3
  <2>5. a[i + 1] = Keep(u, f)
    BY <1>2, <2>2, <2>3
  <2>6. b[i + 2] = Keep(v, f)
    <3>1. i + 1 \in Nat /\ i + 1 + 1 <= n + 1 /\ i + 1 + 1 = i + 2
      BY <2>2
    <3>2. t[i + 1 + 1] = f
      BY <1>1, <2>2, <2>3 DEF IsInserted
    <3>3. b[i + 1 + 1] = Keep(b[i + 1], t[i + 1 + 1])
      BY <1>3, <3>1
    <3> QED BY <2>3, <3>1, <3>2, <3>3
  <2>7. Len(u) \in Nat /\ Len(v) \in Nat /\ Len(Append(u, f)) = Len(u) + 1
    BY <2>4
  <2>8. Len(Keep(u, f)) < MaxArchiveFiles
    BY <2>1, <2>5
  <2>9. Len(u) < MaxArchiveFiles
    BY <1>0, <2>7, <2>8 DEF Keep
  <2>10. SameOrInserted(u, v, e)
    BY <1>7, <2>1, <2>2, <2>3, <2>9
  <2>11. CASE f.kind = "other"
    BY <2>1, <2>5, <2>6, <2>10, <2>11 DEF Keep
  <2>12. CASE f.kind # "other"
    <3>1. Keep(u, f) = Append(u, f)
      BY <1>0, <2>7, <2>9, <2>12 DEF Keep
    <3>2. Len(v) <= Len(u) + 1 /\ Len(u) + 1 < MaxArchiveFiles
      BY <2>4, <2>7, <2>8, <2>10, <3>1, InsertedKeepsLength
    <3>3. Keep(v, f) = Append(v, f)
      BY <1>0, <2>7, <2>12, <3>2 DEF Keep
    <3> QED BY <2>1, <2>4, <2>5, <2>6, <2>10, <3>1, <3>3, InsertedAppends
  <2> QED BY <2>11, <2>12
<1>8. n - p \in K
  <2>1. n - p \in Nat
    BY <1>1
  <2>2. Nat \subseteq K
    <3> HIDE DEF K
    <3> QED BY <1>6, <1>7, NatInd
  <2> QED BY <2>1, <2>2
<1>9. p + (n - p) = n
  BY <1>1
<1>10. SameOrInserted(a[n], b[n + 1], e)
  BY <1>2, <1>8, <1>9
<1>11. a[n] \in Seq(F) /\ b[n + 1] \in Seq(F)
  <2>1. n \in 0..n
    OBVIOUS
  <2> QED BY <1>5, <2>1
<1> QED BY <1>2, <1>3, <1>10, <1>11

-----------------------------------------------------------------------------
(* What analyzeFiles finds in files, it finds in those and one more.       *)
LEMMA ScoredWithOneMore ==
  ASSUME NEW F, \A f \in F : AreHooks(f.hooks),
         NEW s \in Seq(F), NEW t \in Seq(F), NEW e, SameOrInserted(s, t, e)
  PROVE  /\ ReadAll(s) \in ScoreState /\ ReadAll(t) \in ScoreState
         /\ AtMost(ReadAll(s), ReadAll(t))
<1>1. PICK n \in Nat : Len(s) = n /\ DOMAIN s = 1..n
  OBVIOUS
<1>2. PICK a : ScoredStates(a, s, n)
  <2>1. \A i \in 1..n : AreHooks(s[i].hooks)
    <3>1. ASSUME NEW i \in 1..n PROVE AreHooks(s[i].hooks)
      <4>1. s[i] \in F
        BY <1>1
      <4> QED BY <4>1
    <3> QED BY <3>1
  <2> QED BY <1>1, <2>1, FilesAreScored
<1>3. ReadAll(s) \in ScoreState /\ AtMost(ReadAll(s), ReadAll(s))
  <2>1. ReadAll(s) \in ScoreState
    BY <1>2 DEF ScoredStates
  <2> QED BY <2>1 DEF AtMost, ScoreState
<1>4. CASE t = s
  BY <1>3, <1>4
<1>5. CASE t # s
  <2>1. PICK p \in Nat : IsInserted(s, t, p, e)
    BY <1>5 DEF SameOrInserted
  <2>2. /\ p \in 0..n /\ Len(t) = n + 1 /\ DOMAIN t = 1..(n + 1)
        /\ \A i \in 1..p : t[i] = s[i]
        /\ \A i \in (p + 1)..n : t[i + 1] = s[i]
    BY <1>1, <2>1 DEF IsInserted
  <2>3. ASSUME NEW i \in 1..(n + 1) PROVE t[i] \in F /\ AreHooks(t[i].hooks)
    <3>1. t[i] \in F
      BY <2>2
    <3> QED BY <3>1
  <2>4. PICK b : ScoredStates(b, t, n + 1)
    <3>1. n + 1 \in Nat
      OBVIOUS
    <3> QED BY <2>2, <2>3, <3>1, FilesAreScored
  <2> DEFINE K == {k \in Nat : k <= p => b[k] = a[k]}
             L == {k \in Nat : p + k <= n => AtMost(a[p + k], b[p + k + 1])}
  <2>5. p \in K
    <3>1. 0 \in K
      BY <1>2, <2>4 DEF ScoredStates
    <3>2. ASSUME NEW k \in Nat, k \in K PROVE k + 1 \in K
      <4> SUFFICES ASSUME k + 1 <= p PROVE b[k + 1] = a[k + 1]
        OBVIOUS
      <4>1. b[k] = a[k] /\ k + 1 <= n /\ k + 1 <= n + 1 /\ k + 1 \in 1..p
        BY <2>2, <3>2
      <4>2. t[k + 1] = s[k + 1]
        BY <2>2, <4>1
      <4>3. a[k + 1] = AnalyzeFile(a[k], s[k + 1]) /\ b[k + 1] = AnalyzeFile(b[k], t[k + 1])
        BY <1>2, <2>4, <4>1 DEF ScoredStates
      <4> QED BY <4>1, <4>2, <4>3
    <3>3. Nat \subseteq K
      <4> HIDE DEF K
      <4> QED BY <3>1, <3>2, NatInd
    <3> QED BY <3>3
  <2>6. 0 \in L
    <3>1. PICK r, f : r = a[p] /\ f = t[p + 1]
      OBVIOUS
    <3>2. r \in ScoreState /\ AreHooks(f.hooks)
      <4>1. p + 1 \in 1..(n + 1)
        BY <2>2
      <4> QED BY <1>2, <2>2, <2>3, <3>1, <4>1 DEF ScoredStates
    <3>3. b[p + 1] = AnalyzeFile(r, f)
      BY <2>2, <2>4, <2>5, <3>1 DEF ScoredStates
    <3>4. AtMost(r, r)
      BY <3>2 DEF AtMost, ScoreState
    <3>5. AtMost(r, AnalyzeFile(r, f))
      BY <3>2, <3>4, FileKeepsOrder
    <3> QED BY <3>1, <3>3, <3>5
  <2>7. ASSUME NEW k \in Nat, k \in L PROVE k + 1 \in L
    <3> SUFFICES ASSUME p + (k + 1) <= n
                 PROVE  AtMost(a[p + (k + 1)], b[p + (k + 1) + 1])
      OBVIOUS
    <3>1. PICK i \in Nat : i = p + k
      OBVIOUS
    <3>2. i + 1 \in 1..n /\ i + 1 + 1 \in 1..(n + 1) /\ i \in 0..n /\ i + 1 \in (p + 1)..n
          /\ i + 1 \in 0..(n + 1) /\ i + 1 + 1 <= n + 1 /\ i + 1 <= n
          /\ p + (k + 1) = i + 1
      BY <3>1
    <3>3. PICK r, q, f : r = a[i] /\ q = b[i + 1] /\ f = s[i + 1]
      OBVIOUS
    <3>4. r \in ScoreState /\ q \in ScoreState
      BY <1>2, <2>4, <3>2, <3>3 DEF ScoredStates
    <3>5. AreHooks(f.hooks)
      <4>1. t[i + 1 + 1] = f
        BY <2>2, <3>2, <3>3
      <4> QED BY <2>3, <3>2, <4>1
    <3>6. AtMost(r, q)
      BY <2>7, <3>1, <3>2, <3>3
    <3>7. a[i + 1] = AnalyzeFile(r, f)
      BY <1>2, <3>2, <3>3 DEF ScoredStates
    <3>8. b[i + 1 + 1] = AnalyzeFile(q, f)
      <4>1. t[i + 1 + 1] = f
        BY <2>2, <3>2, <3>3
      <4>2. i + 1 \in Nat
        OBVIOUS
      <4>3. b[i + 1 + 1] = AnalyzeFile(b[i + 1], t[i + 1 + 1])
        BY <2>4, <3>2, <4>2 DEF ScoredStates
      <4> QED BY <3>3, <4>1, <4>3
    <3>9. AtMost(AnalyzeFile(r, f), AnalyzeFile(q, f))
      BY <3>4, <3>5, <3>6, FileKeepsOrder
    <3> QED BY <3>2, <3>7, <3>8, <3>9
  <2>8. n - p \in L
    <3>1. n - p \in Nat
      BY <2>2
    <3>2. Nat \subseteq L
      <4> HIDE DEF L
      <4> QED BY <2>6, <2>7, NatInd
    <3> QED BY <3>1, <3>2
  <2>9. AtMost(a[n], b[n + 1])
    <3>1. p + (n - p) = n
      BY <2>2
    <3> QED BY <2>8, <3>1
  <2>10. b[n + 1] \in ScoreState
    <3>1. n + 1 \in 0..(n + 1)
      OBVIOUS
    <3> QED BY <2>4, <3>1 DEF ScoredStates
  <2> QED BY <1>2, <1>3, <2>4, <2>9, <2>10 DEF ScoredStates
<1> QED BY <1>4, <1>5

(* The sum of one weight.                                                  *)
LEMMA TotalOfOne ==
  ASSUME NEW p \in DOMAIN Weight
  PROVE  Total({p}) = Weight[p]
<1> DEFINE body(g, s) == IF s = {} THEN 0
                         ELSE Weight[CHOOSE x \in s : TRUE] + g[s \ {CHOOSE x \in s : TRUE}]
           sum == CHOOSE g : g = [s \in SUBSET {p} |-> body(g, s)]
<1>1. PICK g : g = [s \in SUBSET {p} |-> IF s = {} THEN 0 ELSE Weight[p]]
  OBVIOUS
<1>2. g = [s \in SUBSET {p} |-> body(g, s)]
  <2>1. ASSUME NEW s \in SUBSET {p} PROVE g[s] = body(g, s)
    <3>1. CASE s = {}
      BY <1>1, <3>1
    <3>2. CASE s # {}
      <4>1. s = {p} /\ (CHOOSE x \in s : TRUE) = p /\ s \ {p} = {}
        BY <3>2
      <4>2. g[{}] = 0 /\ g[s] = Weight[p] /\ Weight[p] \in Nat
        BY <1>1, <4>1, WeightsAreNumbers
      <4>3. body(g, s) = Weight[p] + g[{}]
        BY <3>2, <4>1
      <4> QED BY <4>2, <4>3
    <3> QED BY <3>1, <3>2
  <2> HIDE DEF body
  <2> QED BY <1>1, <2>1
<1>3. sum = [s \in SUBSET {p} |-> body(sum, s)]
  <2> HIDE DEF body
  <2> QED BY <1>2
<1>4. Total({p}) = sum[{p}]
  BY TotalUnfolded
<1>5. sum[{}] = 0
  BY <1>3
<1>6. sum[{p}] = Weight[p] + sum[{}]
  <2>1. (CHOOSE x \in {p} : TRUE) = p /\ {p} \ {p} = {} /\ {p} # {}
    OBVIOUS
  <2>2. sum[{p}] = body(sum, {p})
    <3> HIDE DEF body, sum
    <3> QED BY <1>3
  <2> HIDE DEF sum
  <2> QED BY <2>1, <2>2
<1>7. Weight[p] \in Nat
  BY WeightsAreNumbers
<1> HIDE DEF sum
<1> QED BY <1>4, <1>5, <1>6, <1>7

(* The finding of a missing README adds just its points and severity.      *)
LEMMA ReadmeIsMissed ==
  ASSUME NEW r \in ScoreState, NEW missed \in BOOLEAN,
         NEW w, w = AddFindings(r, IF missed THEN {"noReadme"} ELSE {})
  PROVE  /\ w \in [score : Nat, findings : SUBSET Severity, count : Nat]
         /\ w.score = r.score + (IF missed THEN 5 ELSE 0)
         /\ w.findings = r.findings \cup (IF missed THEN {"info"} ELSE {})
<1>1. PICK score, findings, count : r = [score |-> score, findings |-> findings, count |-> count]
        /\ score \in Nat /\ findings \in SUBSET FileSeverity /\ count \in Nat
  BY DEF ScoreState
<1>2. PICK patterns, t, words : /\ patterns = IF missed THEN {"noReadme"} ELSE {}
                                /\ t = Total(patterns)
                                /\ words = {SeverityOf[p] : p \in patterns}
  OBVIOUS
<1>3. t = IF missed THEN 5 ELSE 0
  <2>1. CASE missed
    <3>1. "noReadme" \in DOMAIN Weight /\ Weight["noReadme"] = 5
      BY DEF Weight
    <3>2. Total({"noReadme"}) = 5
      BY <3>1, TotalOfOne
    <3> QED BY <1>2, <2>1, <3>2
  <2>2. CASE ~missed
    <3>1. Total({}) = 0
      BY TotalIsNumber, FS_EmptySet
    <3> QED BY <1>2, <2>2, <3>1
  <2> QED BY <2>1, <2>2
<1>4. words = IF missed THEN {"info"} ELSE {}
  BY <1>2 DEF SeverityOf
<1>5. w = [score |-> score + t, findings |-> findings \cup words, count |-> count]
  <2>1. w = [r EXCEPT !.score = @ + t, !.findings = @ \cup words]
    BY <1>2 DEF AddFindings
  <2> QED BY <1>1, <2>1
<1>6. FileSeverity \subseteq Severity /\ "info" \in Severity
  BY DEF FileSeverity, Severity
<1> QED BY <1>1, <1>3, <1>4, <1>5, <1>6

(* Numbers that differ by so much at most still do when they are capped.   *)
LEMMA CapKeepsOrder ==
  ASSUME NEW i \in Nat, NEW j \in Nat, NEW k \in Nat, i <= j + k
  PROVE  Min({i, 100}) <= Min({j, 100}) + k
<1>1. PICK I, J, u, v : I = {i, 100} /\ J = {j, 100} /\ u = Min(I) /\ v = Min(J)
  OBVIOUS
<1>2. I \in SUBSET Nat /\ I # {} /\ J \in SUBSET Nat /\ J # {}
  BY <1>1
<1>3. u \in I /\ (\A y \in I : u <= y) /\ v \in J
  BY <1>1, <1>2, LeastOf
<1>4. u <= i /\ u <= 100 /\ u \in Nat /\ (v = j \/ v = 100)
  BY <1>1, <1>3
<1> QED BY <1>1, <1>4

(* A binary more and the cap keep the order, and so does a README that was *)
(* there before; the first one takes its note and its points away.         *)
LEMMA AnalysisKeepsOrder ==
  ASSUME NEW F, \A f \in F : AreHooks(f.hooks),
         NEW s \in Seq(F), NEW t \in Seq(F), NEW e, SameOrInserted(s, t, e),
         NEW had \in BOOLEAN, NEW has \in BOOLEAN, had => has,
         NEW fewer \in BOOLEAN, NEW binary \in BOOLEAN, fewer => binary,
         NEW less, less = AnalyzeFiles(s, had, fewer),
         NEW more, more = AnalyzeFiles(t, has, binary)
  PROVE  /\ less.score <= more.score + (IF has /\ ~had THEN 5 ELSE 0)
         /\ less.findings \subseteq more.findings \cup (IF has /\ ~had THEN {"info"} ELSE {})
         /\ has => "info" \notin more.findings
<1>1. PICK r, q : r = ReadAll(s) /\ q = ReadAll(t)
  OBVIOUS
<1>2. r \in ScoreState /\ q \in ScoreState /\ AtMost(r, q)
  BY <1>1, ScoredWithOneMore
<1>3. PICK m, n, a, b : /\ m = (IF fewer THEN {"binary"} ELSE {})
                        /\ n = (IF binary THEN {"binary"} ELSE {})
                        /\ a = AddFindings(r, m) /\ b = AddFindings(q, n)
  OBVIOUS
<1>4. AtMost(a, b) /\ a \in ScoreState /\ b \in ScoreState
  <2>1. m \in SUBSET FilePattern /\ n \in SUBSET FilePattern /\ (m = n \/ m = {})
    BY <1>3 DEF FilePattern, Weight
  <2> QED BY <1>2, <1>3, <2>1, FindingsAdd, FindingsKeepOrder
<1>5. ASSUME s # <<>> PROVE t # <<>>
  <2>1. Len(s) > 0
    BY <1>5
  <2>2. Len(s) \in Nat /\ Len(t) \in Nat /\ Len(s) <= Len(t)
    BY InsertedKeepsLength
  <2>3. Len(t) > 0
    BY <2>1, <2>2
  <2> QED BY <2>3
<1>6. PICK x \in BOOLEAN, y \in BOOLEAN :
        (x <=> ~had /\ s # <<>>) /\ (y <=> ~has /\ t # <<>>)
  OBVIOUS
<1>7. x => y \/ (has /\ ~had)
  BY <1>5, <1>6
<1>8. PICK c, d : /\ c = AddFindings(a, IF x THEN {"noReadme"} ELSE {})
                  /\ d = AddFindings(b, IF y THEN {"noReadme"} ELSE {})
  OBVIOUS
<1>9. /\ c \in [score : Nat, findings : SUBSET Severity, count : Nat]
      /\ d \in [score : Nat, findings : SUBSET Severity, count : Nat]
      /\ c.score = a.score + (IF x THEN 5 ELSE 0) /\ d.score = b.score + (IF y THEN 5 ELSE 0)
      /\ c.findings = a.findings \cup (IF x THEN {"info"} ELSE {})
      /\ d.findings = b.findings \cup (IF y THEN {"info"} ELSE {})
  BY <1>4, <1>8, ReadmeIsMissed
<1>10. less = [c EXCEPT !.score = Min({@, 100})] /\ more = [d EXCEPT !.score = Min({@, 100})]
  BY <1>1, <1>3, <1>6, <1>8 DEF AnalyzeFiles, ReadAll
<1>11. /\ less.score = Min({c.score, 100}) /\ more.score = Min({d.score, 100})
       /\ less.findings = c.findings /\ more.findings = d.findings
  BY <1>9, <1>10
<1>12. /\ a.score \in Nat /\ b.score \in Nat /\ a.score <= b.score
       /\ a.findings \subseteq b.findings /\ "info" \notin b.findings
  BY <1>4 DEF AtMost, ScoreState, FileSeverity
<1>13. PICK i \in Nat, j \in Nat, k \in Nat :
         /\ i = c.score /\ j = d.score /\ k = (IF has /\ ~had THEN 5 ELSE 0) /\ i <= j + k
  <2>1. PICK h, l, k : h = a.score /\ l = b.score /\ k = (IF has /\ ~had THEN 5 ELSE 0)
    OBVIOUS
  <2>2. h \in Nat /\ l \in Nat /\ h <= l
    BY <1>12, <2>1
  <2>3. c.score = h + (IF x THEN 5 ELSE 0) /\ d.score = l + (IF y THEN 5 ELSE 0)
    BY <1>9, <2>1
  <2>4. k \in Nat /\ h + (IF x THEN 5 ELSE 0) <= l + (IF y THEN 5 ELSE 0) + k
    BY <1>7, <2>1, <2>2
  <2> QED BY <1>9, <2>1, <2>3, <2>4
<1>14. less.score <= more.score + (IF has /\ ~had THEN 5 ELSE 0)
  <2>1. i \in Nat /\ j \in Nat /\ k \in Nat /\ i <= j + k
    BY <1>13
  <2>2. Min({i, 100}) <= Min({j, 100}) + k
    BY <2>1, CapKeepsOrder
  <2>3. less.score = Min({i, 100}) /\ more.score = Min({j, 100})
        /\ k = (IF has /\ ~had THEN 5 ELSE 0)
    BY <1>11, <1>13
  <2> QED BY <2>2, <2>3
<1>15. less.findings \subseteq more.findings \cup (IF has /\ ~had THEN {"info"} ELSE {})
  BY <1>7, <1>9, <1>11, <1>12
<1>16. has => "info" \notin more.findings
  BY <1>6, <1>9, <1>11, <1>12
<1> QED BY <1>14, <1>15, <1>16

(* An archive with one more entry has a README or a binary, if it had one  *)
(* or if that entry is one.                                                *)
LEMMA MarksOfOneMore ==
  ASSUME NEW F, \A f \in F : f.readme \in BOOLEAN /\ f.binary \in BOOLEAN,
         NEW s \in Seq(F), NEW t \in Seq(F), NEW p \in Nat, NEW e \in F, IsInserted(s, t, p, e)
  PROVE  /\ HasReadme(t) <=> HasReadme(s) \/ e.readme
         /\ HasBinary(t) <=> HasBinary(s) \/ e.binary
<1>1. PICK n \in Nat : /\ Len(s) = n /\ Len(t) = n + 1 /\ p \in 0..n
                       /\ DOMAIN s = 1..n /\ DOMAIN t = 1..(n + 1)
  BY DEF IsInserted
<1>2. /\ p + 1 \in DOMAIN t /\ t[p + 1] = e
      /\ \A i \in DOMAIN s : \E j \in DOMAIN t : t[j] = s[i]
  <2>1. ASSUME NEW i \in DOMAIN s PROVE \E j \in DOMAIN t : t[j] = s[i]
    <3>1. CASE i \in 1..p
      BY <1>1, <3>1 DEF IsInserted
    <3>2. CASE i \in (p + 1)..n
      <4>1. i + 1 \in DOMAIN t /\ t[i + 1] = s[i]
        BY <1>1, <3>2 DEF IsInserted
      <4> QED BY <4>1
    <3> QED BY <1>1, <3>1, <3>2
  <2> QED BY <1>1, <2>1 DEF IsInserted
<1>3. \A j \in DOMAIN t : t[j] = e \/ \E i \in DOMAIN s : s[i] = t[j]
  <2>1. ASSUME NEW j \in DOMAIN t, j # p + 1 PROVE \E i \in DOMAIN s : s[i] = t[j]
    <3>1. CASE j \in 1..p
      BY <1>1, <3>1 DEF IsInserted
    <3>2. CASE j \notin 1..p
      <4>1. PICK i \in (p + 1)..n : j = i + 1
        <5>1. j - 1 \in (p + 1)..n /\ j = (j - 1) + 1
          BY <1>1, <2>1, <3>2
        <5> QED BY <5>1
      <4>2. i \in DOMAIN s /\ t[i + 1] = s[i]
        BY <1>1, <4>1 DEF IsInserted
      <4> QED BY <4>1, <4>2
    <3> QED BY <3>1, <3>2
  <2> QED BY <1>2, <2>1
<1>4. HasReadme(t) <=> HasReadme(s) \/ e.readme
  BY <1>2, <1>3 DEF HasReadme
<1>5. HasBinary(t) <=> HasBinary(s) \/ e.binary
  BY <1>2, <1>3 DEF HasBinary
<1> QED BY <1>4, <1>5

(* For archives of any length, with any files, and whatever is added to    *)
(* them and where: more files never have a lower score nor fewer           *)
(* severities, but for what the lack of a README gave, which the first one *)
(* takes away; unless as many files as may be are read already (extract,   *)
(* tgzHasReadme, analyzeFiles).                                            *)
THEOREM MoreCodeAlwaysScoresMore == AlgorithmsSpec => []MoreCodeScoresMore
<1>1. AlgorithmsInv => MoreCodeScoresMore
  <2> SUFFICES ASSUME AlgorithmsInv, done, task = "heuristics",
                      Len(Extracted(input.before \o input.after)) < MaxArchiveFiles,
                      NEW first,
                      first = (input.extra.readme /\ ~HasReadme(input.before \o input.after))
               PROVE  /\ output.less.score
                           <= output.more.score + (IF first THEN Weight.noReadme ELSE 0)
                      /\ output.less.findings \subseteq
                           output.more.findings
                             \cup (IF first THEN {SeverityOf.noReadme} ELSE {})
                      /\ input.extra.readme =>
                           SeverityOf.noReadme \notin output.more.findings
    BY DEF MoreCodeScoresMore, Done
  <2>1. output = [less |-> AnalyzeFull(Archive(input.before \o input.after)),
                  more |-> AnalyzeFull(
                             Archive(input.before \o <<input.extra>> \o input.after))]
    BY DEF AlgorithmsInv, Computed
  <2>2. PICK before \in Seq(ArchiveFiles), after \in Seq(ArchiveFiles),
             one \in Seq(ArchiveFiles), e \in ArchiveFiles :
          /\ input.before = before /\ input.after = after
          /\ <<input.extra>> = one /\ input.extra = e
    <3>1. input.before \in Seq(ArchiveFiles) /\ input.after \in Seq(ArchiveFiles)
          /\ input.extra \in ArchiveFiles
      <4>1. input \in [before : BoundedSeq(ArchiveFiles, MaxFiles), extra : ArchiveFiles,
                        after : BoundedSeq(ArchiveFiles, MaxFiles)]
        BY InputsAre
      <4>2. BoundedSeq(ArchiveFiles, MaxFiles) \subseteq Seq(ArchiveFiles)
        BY BoundsAssumption, BoundedAreSequences
      <4> QED BY <4>1, <4>2
    <3>2. <<input.extra>> \in Seq(ArchiveFiles)
      BY <3>1
    <3> QED BY <3>1, <3>2
  <2>3. PICK head, s, t : head = before \o one /\ s = before \o after /\ t = head \o after
    OBVIOUS
  <2>4. one \in Seq(ArchiveFiles) /\ Len(one) = 1 /\ one[1] = e
    BY <2>2
  <2>5. PICK p \in Nat : s \in Seq(ArchiveFiles) /\ t \in Seq(ArchiveFiles)
                         /\ IsInserted(s, t, p, e)
    <3>1. IsJoin(head, before, one) /\ IsJoin(s, before, after) /\ IsJoin(t, head, after)
      BY <2>3 DEF IsJoin
    <3>2. s \in Seq(ArchiveFiles) /\ t \in Seq(ArchiveFiles)
          /\ IsInserted(s, t, Len(before), one[1])
      BY <2>4, <3>1, InsertedBetween
    <3> QED BY <2>4, <3>2
  <2>6. Len(Extracted(s)) < MaxArchiveFiles
    BY <2>2, <2>3
  <2>7. PICK u, v : u = Extracted(s) /\ v = Extracted(t)
    OBVIOUS
  <2>8. u \in Seq(ArchiveFiles) /\ v \in Seq(ArchiveFiles) /\ SameOrInserted(u, v, e)
    BY <2>5, <2>6, <2>7, KeptWithOneMore
  <2>9. PICK had \in BOOLEAN, has \in BOOLEAN, fewer \in BOOLEAN, binary \in BOOLEAN :
          /\ had = HasReadme(s) /\ has = HasReadme(t)
          /\ fewer = HasBinary(s) /\ binary = HasBinary(t)
    BY DEF HasReadme, HasBinary
  <2>10. e.readme \in BOOLEAN /\ (has <=> had \/ e.readme) /\ (fewer => binary)
    <3>1. \A f \in ArchiveFiles : f.readme \in BOOLEAN /\ f.binary \in BOOLEAN
      BY FilesAssumption
    <3>2. /\ HasReadme(t) <=> HasReadme(s) \/ e.readme
          /\ HasBinary(t) <=> HasBinary(s) \/ e.binary
      BY <2>5, <3>1, MarksOfOneMore
    <3> QED BY <2>9, <3>1, <3>2
  <2>11. PICK less, more : less = output.less /\ more = output.more
    OBVIOUS
  <2>12. less = AnalyzeFiles(u, had, fewer) /\ more = AnalyzeFiles(v, has, binary)
    <3>1. output.less = AnalyzeFull(Archive(s)) /\ output.more = AnalyzeFull(Archive(t))
      BY <2>1, <2>2, <2>3
    <3> QED BY <2>7, <2>9, <2>11, <3>1 DEF AnalyzeFull, Archive
  <2>13. \A f \in ArchiveFiles : AreHooks(f.hooks)
    BY FilesAssumption DEF AreHooks
  <2>14. /\ less.score <= more.score + (IF has /\ ~had THEN 5 ELSE 0)
         /\ less.findings \subseteq more.findings \cup (IF has /\ ~had THEN {"info"} ELSE {})
         /\ has => "info" \notin more.findings
    BY <2>8, <2>10, <2>12, <2>13, AnalysisKeepsOrder
  <2>15. (first <=> has /\ ~had) /\ (input.extra.readme => has)
    BY <2>2, <2>3, <2>9, <2>10
  <2>16. Weight.noReadme = 5 /\ SeverityOf.noReadme = "info"
    BY DEF Weight, SeverityOf
  <2> QED BY <2>11, <2>14, <2>15, <2>16
<1> QED BY <1>1, AlgorithmsInvariant, PTL

-----------------------------------------------------------------------------
(* The table of editDistance.                                              *)

(* A set of cells with the edges of a grid, that three neighbours add the  *)
(* fourth to.                                                              *)
IsGridSet(P, m, n) ==
  /\ \A j \in 0..n : <<0, j>> \in P
  /\ \A i \in 0..m : <<i, 0>> \in P
  /\ \A i, j \in Nat :
       i + 1 <= m /\ j + 1 <= n /\ {<<i, j>>, <<i + 1, j>>, <<i, j + 1>>} \subseteq P =>
         <<i + 1, j + 1>> \in P

(* It is the whole grid.                                                   *)
LEMMA GridInd ==
  ASSUME NEW m \in Nat, NEW n \in Nat, NEW P, IsGridSet(P, m, n)
  PROVE  \A i \in 0..m, j \in 0..n : <<i, j>> \in P
<1> USE DEF IsGridSet
<1> DEFINE K == {i \in Nat : i <= m => \A j \in 0..n : <<i, j>> \in P}
<1>1. 0 \in K
  OBVIOUS
<1>2. ASSUME NEW i \in Nat, i \in K PROVE i + 1 \in K
  <2> SUFFICES ASSUME i + 1 <= m PROVE \A j \in 0..n : <<i + 1, j>> \in P
    OBVIOUS
  <2>1. \A j \in 0..n : <<i, j>> \in P
    BY <1>2
  <2> DEFINE L == {j \in Nat : j <= n => <<i + 1, j>> \in P}
  <2>2. 0 \in L
    OBVIOUS
  <2>3. ASSUME NEW j \in Nat, j \in L PROVE j + 1 \in L
    <3> SUFFICES ASSUME j + 1 <= n PROVE <<i + 1, j + 1>> \in P
      OBVIOUS
    <3>1. j \in 0..n /\ j + 1 \in 0..n
      OBVIOUS
    <3>2. <<i, j>> \in P /\ <<i, j + 1>> \in P
      BY <2>1, <3>1
    <3>3. <<i + 1, j>> \in P
      BY <2>3
    <3> QED BY <3>2, <3>3
  <2>4. Nat \subseteq L
    <3> HIDE DEF L
    <3> QED BY <2>2, <2>3, NatInd
  <2> QED BY <2>4
<1>3. Nat \subseteq K
  <2> HIDE DEF K
  <2> QED BY <1>1, <1>2, NatInd
<1>4. ASSUME NEW i \in 0..m, NEW j \in 0..n PROVE <<i, j>> \in P
  <2>1. i \in K /\ i <= m
    BY <1>3
  <2> QED BY <2>1
<1> QED BY <1>4

(* One cell of the table, from the cells before it.                        *)
Cell(g, a, b, p) ==
  IF p[1] = 0 THEN p[2] ELSE IF p[2] = 0 THEN p[1]
  ELSE IF a[p[1]] = b[p[2]] THEN g[<<p[1] - 1, p[2] - 1>>]
  ELSE 1 + Min({g[<<p[1] - 1, p[2]>>], g[<<p[1], p[2] - 1>>], g[<<p[1] - 1, p[2] - 1>>]})

(* The pairs that the table is indexed by.                                 *)
Cells(a, b) == (0..Len(a)) \X (0..Len(b))

(* The table that the recursion defines.                                   *)
TableOf(a, b) == CHOOSE g : g = [p \in Cells(a, b) |-> Cell(g, a, b, p)]

(* The distance is the table's last cell.                                  *)
LEMMA DistanceUnfolded ==
  ASSUME NEW a, NEW b
  PROVE  EditDistance(a, b) = TableOf(a, b)[<<Len(a), Len(b)>>]
BY DEF EditDistance, TableOf, Cells, Cell

(* The least of three numbers.                                             *)
LEMMA LeastOfThree ==
  ASSUME NEW x \in Nat, NEW y \in Nat, NEW z \in Nat, NEW l, l = Min({x, y, z})
  PROVE  l \in {x, y, z} /\ l \in Nat /\ l <= x /\ l <= y /\ l <= z
<1>1. PICK S : S = {x, y, z}
  OBVIOUS
<1>2. S \in SUBSET Nat /\ S # {} /\ l = Min(S)
  BY <1>1
<1>3. Min(S) \in S /\ \A u \in S : Min(S) <= u
  BY <1>2, LeastOf
<1> QED BY <1>1, <1>2, <1>3

(* The cells that a cell is computed from.                                 *)
LEMMA CellsBefore ==
  ASSUME NEW a, NEW b, Len(a) \in Nat, Len(b) \in Nat, NEW p \in Cells(a, b)
  PROVE  \E i \in 0..Len(a), j \in 0..Len(b) :
           /\ p = <<i, j>> /\ p[1] = i /\ p[2] = j
           /\ i # 0 /\ j # 0 =>
                /\ <<i - 1, j - 1>> \in Cells(a, b) /\ <<i, j - 1>> \in Cells(a, b)
                /\ <<i - 1, j>> \in Cells(a, b)
<1>1. PICK m \in Nat, n \in Nat : m = Len(a) /\ n = Len(b) /\ Cells(a, b) = (0..m) \X (0..n)
  BY DEF Cells
<1>2. PICK i \in 0..m, j \in 0..n : p = <<i, j>>
  BY <1>1
<1>3. p[1] = i /\ p[2] = j
  BY <1>2
<1>4. i # 0 /\ j # 0 => i - 1 \in 0..m /\ j - 1 \in 0..n
  OBVIOUS
<1> QED BY <1>1, <1>2, <1>3, <1>4

(* Numbers before a cell make it a number.                                 *)
LEMMA CellIsNumber ==
  ASSUME NEW a, NEW b, Len(a) \in Nat, Len(b) \in Nat,
         NEW g \in [Cells(a, b) -> Nat], NEW p \in Cells(a, b)
  PROVE  Cell(g, a, b, p) \in Nat
<1>1. PICK i \in 0..Len(a), j \in 0..Len(b) :
           /\ p = <<i, j>> /\ p[1] = i /\ p[2] = j
           /\ i # 0 /\ j # 0 =>
                /\ <<i - 1, j - 1>> \in Cells(a, b) /\ <<i, j - 1>> \in Cells(a, b)
                /\ <<i - 1, j>> \in Cells(a, b)
  BY CellsBefore
<1>2. CASE i = 0 \/ j = 0
  BY <1>1, <1>2 DEF Cell
<1>3. CASE i # 0 /\ j # 0
  <2>1. PICK x, y, z : /\ x = g[<<i - 1, j>>] /\ y = g[<<i, j - 1>>] /\ z = g[<<i - 1, j - 1>>]
                       /\ x \in Nat /\ y \in Nat /\ z \in Nat
    BY <1>1, <1>3
  <2>2. PICK l : l = Min({x, y, z})
    OBVIOUS
  <2>3. l \in Nat
    <3>1. x \in Nat /\ y \in Nat /\ z \in Nat
      BY <2>1
    <3> QED BY <2>2, <3>1, LeastOfThree
  <2>4. Cell(g, a, b, p) = IF a[i] = b[j] THEN z ELSE 1 + l
    BY <1>1, <1>3, <2>1, <2>2 DEF Cell
  <2> QED BY <2>1, <2>3, <2>4
<1> QED BY <1>2, <1>3

(* The recursion of the table has a solution.                              *)
LEMMA TableRuns ==
  ASSUME NEW a, NEW b, Len(a) \in Nat, Len(b) \in Nat
  PROVE  /\ TableOf(a, b) = [p \in Cells(a, b) |-> Cell(TableOf(a, b), a, b, p)]
<1> DEFINE D == Cells(a, b)
           K == {k \in Nat : \E g \in [D -> Nat] : \A p \in D :
                   p[1] + p[2] < k => g[p] = Cell(g, a, b, p)}
<1>1. 0 \in K
  <2>1. [p \in D |-> 0] \in [D -> Nat]
    OBVIOUS
  <2>2. \A p \in D : ~(p[1] + p[2] < 0)
    BY DEF Cells
  <2> QED BY <2>1, <2>2
<1>2. ASSUME NEW k \in Nat, k \in K PROVE k + 1 \in K
  <2>1. PICK g \in [D -> Nat] : \A p \in D : p[1] + p[2] < k => g[p] = Cell(g, a, b, p)
    BY <1>2
  <2>2. PICK h : h = [p \in D |-> Cell(g, a, b, p)]
    OBVIOUS
  <2>3. h \in [D -> Nat]
    BY <2>2, CellIsNumber
  <2>4. ASSUME NEW p \in D, p[1] + p[2] < k + 1 PROVE h[p] = Cell(h, a, b, p)
    <3>1. PICK i \in 0..Len(a), j \in 0..Len(b) :
           /\ p = <<i, j>> /\ p[1] = i /\ p[2] = j
           /\ i # 0 /\ j # 0 =>
                /\ <<i - 1, j - 1>> \in D /\ <<i, j - 1>> \in D /\ <<i - 1, j>> \in D
      BY CellsBefore
    <3>2. CASE i = 0 \/ j = 0
      BY <2>2, <3>1, <3>2 DEF Cell
    <3>3. CASE i # 0 /\ j # 0
      <4>1. PICK x, y, z : x = <<i - 1, j>> /\ y = <<i, j - 1>> /\ z = <<i - 1, j - 1>>
        OBVIOUS
      <4>2. /\ x \in D /\ x[1] + x[2] < k /\ y \in D /\ y[1] + y[2] < k
            /\ z \in D /\ z[1] + z[2] < k
        BY <2>4, <3>1, <3>3, <4>1
      <4>3. h[x] = g[x] /\ h[y] = g[y] /\ h[z] = g[z]
        BY <2>1, <2>2, <4>2
      <4>4. h[p] = Cell(g, a, b, p)
        BY <2>2
      <4>5. Cell(g, a, b, p) = IF a[i] = b[j] THEN g[z] ELSE 1 + Min({g[x], g[y], g[z]})
        BY <3>1, <3>3, <4>1 DEF Cell
      <4>6. Cell(h, a, b, p) = IF a[i] = b[j] THEN h[z] ELSE 1 + Min({h[x], h[y], h[z]})
        BY <3>1, <3>3, <4>1 DEF Cell
      <4> QED BY <4>3, <4>4, <4>5, <4>6
    <3> QED BY <3>2, <3>3
  <2> QED BY <2>3, <2>4
<1>3. PICK k \in Nat : k = Len(a) + Len(b) + 1
  OBVIOUS
<1>4. k \in K
  <2>1. Nat \subseteq K
    <3> HIDE DEF K
    <3> QED BY <1>1, <1>2, NatInd
  <2> QED BY <1>3, <2>1
<1>5. \A p \in D : p[1] + p[2] < k
  BY <1>3 DEF Cells
<1>6. PICK g \in [D -> Nat] : \A p \in D : g[p] = Cell(g, a, b, p)
  BY <1>4, <1>5
<1>7. g = [p \in D |-> Cell(g, a, b, p)]
  BY <1>6
<1> QED BY <1>7 DEF TableOf

-----------------------------------------------------------------------------
(* How far two cells next to each other are apart.                         *)

(* The number after the least of three.                                    *)
OneMore(u, x, y, z) ==
  /\ u <= x + 1 /\ u <= y + 1 /\ u <= z + 1
  /\ u = x + 1 \/ u = y + 1 \/ u = z + 1

(* The table row by row, with m letters of a and n of b.                   *)
IsTable(c, a, b, m, n) ==
  /\ \A i \in 0..m, j \in 0..n : c[i][j] \in Nat
  /\ \A j \in 0..n : c[0][j] = j
  /\ \A i \in 0..m : c[i][0] = i
  /\ \A i, j \in Nat : i + 1 <= m /\ j + 1 <= n =>
       /\ a[i + 1] = b[j + 1] => c[i + 1][j + 1] = c[i][j]
       /\ a[i + 1] # b[j + 1] => OneMore(c[i + 1][j + 1], c[i][j + 1], c[i + 1][j], c[i][j])

(* editDistance fills such a table and returns its last cell.              *)
LEMMA TableIs ==
  ASSUME NEW a, NEW b, NEW m \in Nat, NEW n \in Nat, Len(a) = m, Len(b) = n
  PROVE  \E c : IsTable(c, a, b, m, n) /\ EditDistance(a, b) = c[m][n]
<1>1. PICK t : t = TableOf(a, b)
  OBVIOUS
<1>2. ASSUME NEW i \in 0..m, NEW j \in 0..n PROVE t[<<i, j>>] = Cell(t, a, b, <<i, j>>)
  <2>1. <<i, j>> \in Cells(a, b)
    BY DEF Cells
  <2>2. t = [p \in Cells(a, b) |-> Cell(t, a, b, p)]
    BY <1>1, TableRuns
  <2> QED BY <2>1, <2>2
<1>3. \A j \in 0..n : t[<<0, j>>] = j
  <2>1. ASSUME NEW j \in 0..n PROVE t[<<0, j>>] = j
    <3>1. t[<<0, j>>] = Cell(t, a, b, <<0, j>>)
      BY <1>2
    <3> QED BY <3>1 DEF Cell
  <2> QED BY <2>1
<1>4. \A i \in 0..m : t[<<i, 0>>] = i
  <2>1. ASSUME NEW i \in 0..m PROVE t[<<i, 0>>] = i
    <3>1. t[<<i, 0>>] = Cell(t, a, b, <<i, 0>>)
      BY <1>2
    <3> QED BY <3>1 DEF Cell
  <2> QED BY <2>1
<1>5. ASSUME NEW i \in Nat, NEW j \in Nat, i + 1 <= m, j + 1 <= n
      PROVE  t[<<i + 1, j + 1>>] =
               IF a[i + 1] = b[j + 1] THEN t[<<i, j>>]
               ELSE 1 + Min({t[<<i, j + 1>>], t[<<i + 1, j>>], t[<<i, j>>]})
  <2>1. PICK p : p = <<i + 1, j + 1>>
    OBVIOUS
  <2>2. t[p] = Cell(t, a, b, p)
    BY <1>2, <1>5, <2>1
  <2>3. /\ p[1] = i + 1 /\ p[2] = j + 1 /\ p[1] # 0 /\ p[2] # 0
        /\ p[1] - 1 = i /\ p[2] - 1 = j
    BY <2>1
  <2>4. Cell(t, a, b, p) =
          IF a[i + 1] = b[j + 1] THEN t[<<i, j>>]
          ELSE 1 + Min({t[<<i, j + 1>>], t[<<i + 1, j>>], t[<<i, j>>]})
    BY <2>3 DEF Cell
  <2> QED BY <2>1, <2>2, <2>4
<1>6. \A i \in 0..m, j \in 0..n : t[<<i, j>>] \in Nat
  <2> DEFINE P == {p \in (0..m) \X (0..n) : t[p] \in Nat}
  <2>0. 0 \in 0..m /\ 0 \in 0..n /\ 0..m \subseteq Nat /\ 0..n \subseteq Nat
    OBVIOUS
  <2>1. ASSUME NEW j \in 0..n PROVE <<0, j>> \in P
    <3>1. t[<<0, j>>] = j /\ j \in Nat /\ <<0, j>> \in (0..m) \X (0..n)
      BY <1>3, <2>0
    <3> QED BY <3>1
  <2>2. ASSUME NEW i \in 0..m PROVE <<i, 0>> \in P
    <3>1. t[<<i, 0>>] = i /\ i \in Nat /\ <<i, 0>> \in (0..m) \X (0..n)
      BY <1>4, <2>0
    <3> QED BY <3>1
  <2>3. ASSUME NEW i \in Nat, NEW j \in Nat, i + 1 <= m, j + 1 <= n,
               {<<i, j>>, <<i + 1, j>>, <<i, j + 1>>} \subseteq P
        PROVE  <<i + 1, j + 1>> \in P
    <3>1. PICK x, y, z : /\ x = t[<<i, j + 1>>] /\ y = t[<<i + 1, j>>] /\ z = t[<<i, j>>]
                         /\ x \in Nat /\ y \in Nat /\ z \in Nat
      BY <2>3
    <3>2. PICK l : l = Min({x, y, z})
      OBVIOUS
    <3>3. l \in Nat
      <4>1. x \in Nat /\ y \in Nat /\ z \in Nat
        BY <3>1
      <4> QED BY <3>2, <4>1, LeastOfThree
    <3>4. t[<<i + 1, j + 1>>] = IF a[i + 1] = b[j + 1] THEN z ELSE 1 + l
      BY <1>5, <2>3, <3>1, <3>2
    <3>5. t[<<i + 1, j + 1>>] \in Nat
      BY <3>1, <3>3, <3>4
    <3>6. <<i + 1, j + 1>> \in (0..m) \X (0..n)
      BY <2>3
    <3> QED BY <3>5, <3>6
  <2>4. \A i \in 0..m, j \in 0..n : <<i, j>> \in P
    <3> HIDE DEF P
    <3>1. IsGridSet(P, m, n)
      BY <2>1, <2>2, <2>3 DEF IsGridSet
    <3> QED BY <3>1, GridInd
  <2> QED BY <2>4
<1>7. PICK c : c = [i \in 0..m |-> [j \in 0..n |-> t[<<i, j>>]]]
  OBVIOUS
<1>8. \A i \in 0..m, j \in 0..n : c[i][j] = t[<<i, j>>]
  BY <1>7
<1>9. ASSUME NEW i \in Nat, NEW j \in Nat, i + 1 <= m, j + 1 <= n
      PROVE  /\ a[i + 1] = b[j + 1] => c[i + 1][j + 1] = c[i][j]
             /\ a[i + 1] # b[j + 1] =>
                  OneMore(c[i + 1][j + 1], c[i][j + 1], c[i + 1][j], c[i][j])
  <2>1. i \in 0..m /\ i + 1 \in 0..m /\ j \in 0..n /\ j + 1 \in 0..n
    BY <1>9
  <2>2. PICK u, x, y, z :
          /\ u = c[i + 1][j + 1] /\ x = c[i][j + 1] /\ y = c[i + 1][j] /\ z = c[i][j]
    OBVIOUS
  <2>3. /\ u = t[<<i + 1, j + 1>>] /\ x = t[<<i, j + 1>>] /\ y = t[<<i + 1, j>>]
        /\ z = t[<<i, j>>]
    BY <1>8, <2>1, <2>2
  <2>4. x \in Nat /\ y \in Nat /\ z \in Nat
    BY <1>6, <2>1, <2>3
  <2>5. PICK l : l = Min({x, y, z})
    OBVIOUS
  <2>6. l \in {x, y, z} /\ l \in Nat /\ l <= x /\ l <= y /\ l <= z
    BY <2>4, <2>5, LeastOfThree
  <2>7. u = IF a[i + 1] = b[j + 1] THEN z ELSE 1 + l
    BY <1>5, <1>9, <2>3, <2>5
  <2>8. a[i + 1] # b[j + 1] => OneMore(u, x, y, z)
    BY <2>4, <2>6, <2>7 DEF OneMore
  <2> QED BY <2>2, <2>7, <2>8
<1>10. IsTable(c, a, b, m, n)
  <2>1. \A i \in 0..m, j \in 0..n : c[i][j] \in Nat
    BY <1>6, <1>8
  <2>0. 0 \in 0..m /\ 0 \in 0..n
    OBVIOUS
  <2>2. \A j \in 0..n : c[0][j] = j
    BY <1>3, <1>8, <2>0
  <2>3. \A i \in 0..m : c[i][0] = i
    BY <1>4, <1>8, <2>0
  <2> QED BY <1>9, <2>1, <2>2, <2>3 DEF IsTable
<1>11. EditDistance(a, b) = c[m][n]
  <2>1. m \in 0..m /\ n \in 0..n
    OBVIOUS
  <2>2. EditDistance(a, b) = t[<<m, n>>]
    BY <1>1, DistanceUnfolded
  <2> QED BY <1>8, <2>1, <2>2
<1> QED BY <1>10, <1>11

(* Two distances that differ by at most one.                               *)
Apart(x, y) == x <= y + 1 /\ y <= x + 1

(* Two neighbours are at most one apart.                                   *)
LEMMA NeighboursAreClose ==
  ASSUME NEW m \in Nat, NEW n \in Nat, NEW a, NEW b, NEW c, IsTable(c, a, b, m, n)
  PROVE  /\ \A i \in Nat, j \in 0..n : i + 1 <= m => Apart(c[i][j], c[i + 1][j])
         /\ \A i \in 0..m, j \in Nat : j + 1 <= n => Apart(c[i][j], c[i][j + 1])
<1> DEFINE P == {p \in (0..m) \X (0..n) :
                   /\ p[1] > 0 => Apart(c[p[1] - 1][p[2]], c[p[1]][p[2]])
                   /\ p[2] > 0 => Apart(c[p[1]][p[2] - 1], c[p[1]][p[2]])}
<1>1. ASSUME NEW j \in 0..n PROVE <<0, j>> \in P
  <2>1. j > 0 => c[0][j - 1] = j - 1 /\ c[0][j] = j
    BY DEF IsTable
  <2> QED BY <2>1 DEF Apart
<1>2. ASSUME NEW i \in 0..m PROVE <<i, 0>> \in P
  <2>1. i > 0 => c[i - 1][0] = i - 1 /\ c[i][0] = i
    BY DEF IsTable
  <2> QED BY <2>1 DEF Apart
<1>3. ASSUME NEW i \in Nat, NEW j \in Nat, i + 1 <= m, j + 1 <= n,
             {<<i, j>>, <<i + 1, j>>, <<i, j + 1>>} \subseteq P
      PROVE  <<i + 1, j + 1>> \in P
  <2>1. i \in 0..m /\ i + 1 \in 0..m /\ j \in 0..n /\ j + 1 \in 0..n
        /\ i + 1 - 1 = i /\ j + 1 - 1 = j
    BY <1>3
  <2>2. PICK u, x, y, z :
          /\ u = c[i + 1][j + 1] /\ x = c[i][j + 1] /\ y = c[i + 1][j] /\ z = c[i][j]
    OBVIOUS
  <2>3. u \in Nat /\ x \in Nat /\ y \in Nat /\ z \in Nat
    BY <2>1, <2>2 DEF IsTable
  <2>4. Apart(z, x) /\ Apart(z, y)
    <3>1. PICK p, q : p = <<i + 1, j>> /\ q = <<i, j + 1>>
      OBVIOUS
    <3>2. p[1] = i + 1 /\ p[2] = j /\ q[1] = i /\ q[2] = j + 1 /\ p[1] > 0 /\ q[2] > 0
      BY <3>1
    <3>3. p \in P /\ q \in P
      BY <1>3, <3>1
    <3>4. Apart(c[p[1] - 1][p[2]], c[p[1]][p[2]]) /\ Apart(c[q[1]][q[2] - 1], c[q[1]][q[2]])
      BY <3>2, <3>3
    <3> QED BY <2>1, <2>2, <3>2, <3>4
  <2>5. u = z \/ OneMore(u, x, y, z)
    BY <1>3, <2>2 DEF IsTable
  <2>6. Apart(x, u) /\ Apart(y, u)
    BY <2>3, <2>4, <2>5 DEF Apart, OneMore
  <2>7. PICK p : p = <<i + 1, j + 1>>
    OBVIOUS
  <2>8. p[1] = i + 1 /\ p[2] = j + 1 /\ p \in (0..m) \X (0..n)
    BY <2>1, <2>7
  <2>9. p \in P
    BY <2>1, <2>2, <2>6, <2>8
  <2> QED BY <2>7, <2>9
<1>4. \A i \in 0..m, j \in 0..n : <<i, j>> \in P
  <2> HIDE DEF P
  <2>1. IsGridSet(P, m, n)
    BY <1>1, <1>2, <1>3 DEF IsGridSet
  <2> QED BY <2>1, GridInd
<1>5. ASSUME NEW i \in 0..m, NEW j \in 0..n
      PROVE  /\ i > 0 => Apart(c[i - 1][j], c[i][j])
             /\ j > 0 => Apart(c[i][j - 1], c[i][j])
  <2>1. PICK p : p = <<i, j>>
    OBVIOUS
  <2>2. p \in P /\ p[1] = i /\ p[2] = j
    BY <1>4, <2>1
  <2> QED BY <2>2
<1>6. ASSUME NEW i \in Nat, NEW j \in 0..n, i + 1 <= m PROVE Apart(c[i][j], c[i + 1][j])
  <2>1. i + 1 \in 0..m /\ i + 1 > 0 /\ i + 1 - 1 = i
    BY <1>6
  <2> QED BY <1>5, <2>1
<1>7. ASSUME NEW i \in 0..m, NEW j \in Nat, j + 1 <= n PROVE Apart(c[i][j], c[i][j + 1])
  <2>1. j + 1 \in 0..n /\ j + 1 > 0 /\ j + 1 - 1 = j
    BY <1>7
  <2> QED BY <1>5, <2>1
<1> QED BY <1>6, <1>7

-----------------------------------------------------------------------------
(* One edit moves the distance by at most one.                             *)

(* The one cell after three others.                                        *)
LEMMA CellIs ==
  ASSUME NEW m \in Nat, NEW n \in Nat, NEW a, NEW b, NEW c, IsTable(c, a, b, m, n),
         NEW i \in Nat, NEW j \in Nat, i + 1 <= m, j + 1 <= n
  PROVE  /\ c[i + 1][j + 1] \in Nat /\ c[i][j + 1] \in Nat /\ c[i + 1][j] \in Nat
         /\ c[i][j] \in Nat
         /\ a[i + 1] = b[j + 1] => c[i + 1][j + 1] = c[i][j]
         /\ a[i + 1] # b[j + 1] => OneMore(c[i + 1][j + 1], c[i][j + 1], c[i + 1][j], c[i][j])
         /\ Apart(c[i][j], c[i][j + 1]) /\ Apart(c[i][j], c[i + 1][j])
<1>1. i \in 0..m /\ i + 1 \in 0..m /\ j \in 0..n /\ j + 1 \in 0..n
  OBVIOUS
<1>2. Apart(c[i][j], c[i][j + 1]) /\ Apart(c[i][j], c[i + 1][j])
  BY <1>1, NeighboursAreClose
<1> QED BY <1>1, <1>2 DEF IsTable

(* The columns of the letters that two words begin with are the same.      *)
LEMMA PrefixesAgree ==
  ASSUME NEW m \in Nat, NEW k \in Nat, NEW n \in Nat, NEW a, NEW u, NEW v, NEW c, NEW d,
         IsTable(c, a, u, m, k), IsTable(d, a, v, m, n),
         NEW p \in Nat, p <= k, p <= n, \A j \in 1..p : u[j] = v[j]
  PROVE  \A i \in 0..m, j \in 0..p : c[i][j] = d[i][j]
<1> DEFINE P == {q \in (0..m) \X (0..p) : c[q[1]][q[2]] = d[q[1]][q[2]]}
<1>0. 0 \in 0..m /\ 0 \in 0..p /\ 0..p \subseteq 0..k /\ 0..p \subseteq 0..n
  OBVIOUS
<1>1. ASSUME NEW j \in 0..p PROVE <<0, j>> \in P
  <2>1. c[0][j] = j /\ d[0][j] = j /\ <<0, j>> \in (0..m) \X (0..p)
    BY <1>0 DEF IsTable
  <2> QED BY <2>1
<1>2. ASSUME NEW i \in 0..m PROVE <<i, 0>> \in P
  <2>1. c[i][0] = i /\ d[i][0] = i /\ <<i, 0>> \in (0..m) \X (0..p)
    BY <1>0 DEF IsTable
  <2> QED BY <2>1
<1>3. ASSUME NEW i \in Nat, NEW j \in Nat, i + 1 <= m, j + 1 <= p,
             {<<i, j>>, <<i + 1, j>>, <<i, j + 1>>} \subseteq P
      PROVE  <<i + 1, j + 1>> \in P
  <2>1. <<i + 1, j + 1>> \in (0..m) \X (0..p) /\ j + 1 \in 1..p /\ j + 1 <= k /\ j + 1 <= n
    BY <1>3
  <2>2. PICK s, x, y, z, t :
          /\ s = c[i + 1][j + 1] /\ x = c[i][j + 1] /\ y = c[i + 1][j] /\ z = c[i][j]
          /\ t = d[i + 1][j + 1]
    OBVIOUS
  <2>3. x = d[i][j + 1] /\ y = d[i + 1][j] /\ z = d[i][j]
    BY <1>3, <2>2
  <2>4. u[j + 1] = v[j + 1]
    BY <2>1
  <2>5. s \in Nat /\ x \in Nat /\ y \in Nat /\ z \in Nat /\ t \in Nat
    BY <1>3, <2>1, <2>2, CellIs
  <2>6. /\ a[i + 1] = u[j + 1] => s = z
        /\ a[i + 1] # u[j + 1] => OneMore(s, x, y, z)
    BY <1>3, <2>1, <2>2, CellIs
  <2>7. /\ a[i + 1] = v[j + 1] => t = z
        /\ a[i + 1] # v[j + 1] => OneMore(t, x, y, z)
    BY <1>3, <2>1, <2>2, <2>3, CellIs
  <2>8. s = t
    BY <2>4, <2>5, <2>6, <2>7 DEF OneMore
  <2> QED BY <2>1, <2>2, <2>8
<1>4. \A i \in 0..m, j \in 0..p : <<i, j>> \in P
  <2> HIDE DEF P
  <2>1. IsGridSet(P, m, p)
    BY <1>1, <1>2, <1>3 DEF IsGridSet
  <2> QED BY <2>1, GridInd
<1> QED BY <1>4

(* A letter more, wherever it is.                                          *)
LEMMA InsertingIsClose ==
  ASSUME NEW m \in Nat, NEW n \in Nat, NEW a, NEW u, NEW v, NEW c, NEW d, NEW p, NEW e,
         Len(u) = n, IsInserted(u, v, p, e),
         IsTable(c, a, u, m, n), IsTable(d, a, v, m, n + 1)
  PROVE  Apart(c[m][n], d[m][n + 1])
<1>1. PICK k \in Nat : p + k = n /\ p \in Nat
  <2>1. p \in 0..n
    BY DEF IsInserted
  <2> QED BY <2>1
<1> DEFINE P == {q \in (0..m) \X (0..k) : Apart(c[q[1]][p + q[2]], d[q[1]][p + q[2] + 1])}
<1>0. 0 \in 0..m /\ 0 \in 0..k
  OBVIOUS
<1>2. PICK o \in Nat : o = n + 1 /\ IsTable(d, a, v, m, o)
  OBVIOUS
<1>3. ASSUME NEW j \in 0..k PROVE <<0, j>> \in P
  <2>1. p + j \in 0..n /\ p + j + 1 \in 0..(n + 1) /\ <<0, j>> \in (0..m) \X (0..k)
    BY <1>1, <1>0
  <2>2. c[0][p + j] = p + j /\ d[0][p + j + 1] = p + j + 1
    BY <2>1 DEF IsTable
  <2>3. Apart(p + j, p + j + 1)
    BY <1>1 DEF Apart
  <2> QED BY <2>1, <2>2, <2>3
<1>4. ASSUME NEW i \in 0..m PROVE <<i, 0>> \in P
  <2>1. p \in 0..p /\ p <= n /\ p <= n + 1 /\ <<i, 0>> \in (0..m) \X (0..k) /\ p + 0 = p
    BY <1>1, <1>0
  <2>2. \A j \in 1..p : u[j] = v[j]
    BY DEF IsInserted
  <2>3. c[i][p] = d[i][p]
    <3>1. p <= n /\ p <= o /\ p \in Nat /\ p \in 0..p
      BY <1>1, <1>2
    <3> QED BY <1>2, <2>2, <3>1, PrefixesAgree
  <2>4. Apart(d[i][p], d[i][p + 1])
    <3>1. p + 1 <= n + 1
      BY <1>1
    <3> QED BY <1>0, <1>1, <3>1, NeighboursAreClose
  <2> QED BY <2>1, <2>3, <2>4
<1>5. ASSUME NEW i \in Nat, NEW j \in Nat, i + 1 <= m, j + 1 <= k,
             {<<i, j>>, <<i + 1, j>>, <<i, j + 1>>} \subseteq P
      PROVE  <<i + 1, j + 1>> \in P
  <2>0. i + 1 <= m
    BY <1>5
  <2>1. PICK l \in Nat : l = p + j
    BY <1>1
  <2>2. /\ <<i + 1, j + 1>> \in (0..m) \X (0..k) /\ l + 1 <= n /\ l + 1 + 1 <= n + 1
        /\ l + 1 \in (p + 1)..n /\ p + (j + 1) = l + 1 /\ l + 1 \in Nat
    BY <1>1, <1>5, <2>1
  <2>3. v[l + 1 + 1] = u[l + 1]
    BY <2>2 DEF IsInserted
  <2>4. PICK s, x, y, z :
          /\ s = c[i + 1][l + 1] /\ x = c[i][l + 1] /\ y = c[i + 1][l] /\ z = c[i][l]
    OBVIOUS
  <2>5. PICK s2, x2, y2, z2 :
          /\ s2 = d[i + 1][l + 1 + 1] /\ x2 = d[i][l + 1 + 1] /\ y2 = d[i + 1][l + 1]
          /\ z2 = d[i][l + 1]
    OBVIOUS
  <2>6. Apart(x, x2) /\ Apart(y, y2) /\ Apart(z, z2)
    BY <1>5, <2>1, <2>2, <2>4, <2>5
  <2>7. /\ s \in Nat /\ x \in Nat /\ y \in Nat /\ z \in Nat
        /\ a[i + 1] = u[l + 1] => s = z
        /\ a[i + 1] # u[l + 1] => OneMore(s, x, y, z)
    BY <2>0, <2>2, <2>4, CellIs
  <2>8. /\ s2 \in Nat /\ x2 \in Nat /\ y2 \in Nat /\ z2 \in Nat
        /\ a[i + 1] = v[l + 1 + 1] => s2 = z2
        /\ a[i + 1] # v[l + 1 + 1] => OneMore(s2, x2, y2, z2)
    <3>1. PICK r \in Nat : r = l + 1 /\ r + 1 <= o
      BY <1>2, <2>2
    <3> QED BY <1>2, <2>0, <2>5, <3>1, CellIs
  <2>9. Apart(s, s2)
    BY <2>3, <2>6, <2>7, <2>8 DEF OneMore, Apart
  <2> QED BY <2>2, <2>4, <2>5, <2>9
<1>6. \A i \in 0..m, j \in 0..k : <<i, j>> \in P
  <2> HIDE DEF P
  <2>1. IsGridSet(P, m, k)
    BY <1>3, <1>4, <1>5 DEF IsGridSet
  <2> QED BY <2>1, GridInd
<1>7. <<m, k>> \in P
  BY <1>6
<1> QED BY <1>1, <1>7

(* A letter replaced by another.                                           *)
LEMMA ReplacingIsClose ==
  ASSUME NEW m \in Nat, NEW n \in Nat, NEW a, NEW u, NEW v, NEW c, NEW d, NEW p \in 1..n,
         \A j \in 1..n : j # p => u[j] = v[j],
         IsTable(c, a, u, m, n), IsTable(d, a, v, m, n)
  PROVE  Apart(c[m][n], d[m][n])
<1> DEFINE P == {q \in (0..m) \X (0..n) : Apart(c[q[1]][q[2]], d[q[1]][q[2]])}
<1>0. 0 \in 0..m /\ 0 \in 0..n
  OBVIOUS
<1>1. ASSUME NEW j \in 0..n PROVE <<0, j>> \in P
  <2>1. c[0][j] = j /\ d[0][j] = j /\ <<0, j>> \in (0..m) \X (0..n) /\ Apart(j, j)
    BY <1>0 DEF IsTable, Apart
  <2> QED BY <2>1
<1>2. ASSUME NEW i \in 0..m PROVE <<i, 0>> \in P
  <2>1. c[i][0] = i /\ d[i][0] = i /\ <<i, 0>> \in (0..m) \X (0..n) /\ Apart(i, i)
    BY <1>0 DEF IsTable, Apart
  <2> QED BY <2>1
<1>3. \A i \in 0..m, j \in 0..(p - 1) : c[i][j] = d[i][j]
  <2>1. PICK r \in Nat : r = p - 1
    OBVIOUS
  <2>2. r <= n /\ \A j \in 1..r : u[j] = v[j]
    BY <2>1
  <2>3. \A i \in 0..m, j \in 0..r : c[i][j] = d[i][j]
    BY <2>2, PrefixesAgree
  <2> QED BY <2>1, <2>3
<1>4. ASSUME NEW i \in Nat, NEW j \in Nat, i + 1 <= m, j + 1 <= n,
             {<<i, j>>, <<i + 1, j>>, <<i, j + 1>>} \subseteq P
      PROVE  <<i + 1, j + 1>> \in P
  <2>1. <<i + 1, j + 1>> \in (0..m) \X (0..n) /\ j + 1 \in 1..n
        /\ i \in 0..m /\ i + 1 \in 0..m
    BY <1>4
  <2>2. PICK s, x, y, z :
          /\ s = c[i + 1][j + 1] /\ x = c[i][j + 1] /\ y = c[i + 1][j] /\ z = c[i][j]
    OBVIOUS
  <2>3. PICK s2, x2, y2, z2 :
          /\ s2 = d[i + 1][j + 1] /\ x2 = d[i][j + 1] /\ y2 = d[i + 1][j] /\ z2 = d[i][j]
    OBVIOUS
  <2>4. Apart(x, x2) /\ Apart(y, y2) /\ Apart(z, z2)
    BY <1>4, <2>2, <2>3
  <2>5. /\ s \in Nat /\ x \in Nat /\ y \in Nat /\ z \in Nat
        /\ a[i + 1] = u[j + 1] => s = z
        /\ a[i + 1] # u[j + 1] => OneMore(s, x, y, z)
        /\ Apart(z, x) /\ Apart(z, y)
    BY <1>4, <2>2, CellIs
  <2>6. /\ s2 \in Nat /\ x2 \in Nat /\ y2 \in Nat /\ z2 \in Nat
        /\ a[i + 1] = v[j + 1] => s2 = z2
        /\ a[i + 1] # v[j + 1] => OneMore(s2, x2, y2, z2)
        /\ Apart(z2, x2) /\ Apart(z2, y2)
    BY <1>4, <2>3, CellIs
  <2>7. Apart(s, s2)
    <3>1. CASE j + 1 # p
      <4>1. u[j + 1] = v[j + 1]
        BY <2>1, <3>1
      <4> QED BY <2>4, <2>5, <2>6, <4>1 DEF OneMore, Apart
    <3>2. CASE j + 1 = p
      <4>1. j \in 0..(p - 1)
        BY <3>2
      <4>2. y = y2 /\ z = z2
        BY <1>3, <2>1, <2>2, <2>3, <4>1
      <4> QED BY <2>4, <2>5, <2>6, <4>2 DEF OneMore, Apart
    <3> QED BY <3>1, <3>2
  <2> QED BY <2>1, <2>2, <2>3, <2>7
<1>5. \A i \in 0..m, j \in 0..n : <<i, j>> \in P
  <2> HIDE DEF P
  <2>1. IsGridSet(P, m, n)
    BY <1>1, <1>2, <1>4 DEF IsGridSet
  <2> QED BY <2>1, GridInd
<1>6. <<m, n>> \in P
  BY <1>5
<1> QED BY <1>6

(* A word has no distance from itself.                                     *)
LEMMA NoEditIsNoDistance ==
  ASSUME NEW a, NEW m \in Nat, Len(a) = m
  PROVE  EditDistance(a, a) = 0
<1>1. PICK c : IsTable(c, a, a, m, m) /\ EditDistance(a, a) = c[m][m]
  BY TableIs
<1> DEFINE K == {i \in Nat : i <= m => c[i][i] = 0}
<1>2. 0 \in K
  BY <1>1 DEF IsTable
<1>3. ASSUME NEW i \in Nat, i \in K PROVE i + 1 \in K
  BY <1>1, <1>3 DEF IsTable
<1>4. Nat \subseteq K
  <2> HIDE DEF K
  <2> QED BY <1>2, <1>3, NatInd
<1> QED BY <1>1, <1>4

-----------------------------------------------------------------------------
(* The words that are one edit away.                                       *)

(* A list cut in two.                                                      *)
LEMMA CutIs ==
  ASSUME NEW F, NEW s \in Seq(F), NEW p \in 0..Len(s), NEW r \in p..Len(s),
         NEW head, NEW tail, head = SubSeq(s, 1, p), tail = SubSeq(s, r + 1, Len(s))
  PROVE  /\ head \in Seq(F) /\ Len(head) = p
         /\ \A i \in 1..p : head[i] = s[i]
         /\ tail \in Seq(F) /\ Len(tail) = Len(s) - r
         /\ \A i \in 1..(Len(s) - r) : tail[i] = s[r + i]
<1>1. PICK n \in Nat : n = Len(s)
  OBVIOUS
<1>2. /\ SubSeq(s, 1, p) \in Seq(F) /\ Len(SubSeq(s, 1, p)) = p
      /\ \A i \in 1..p : SubSeq(s, 1, p)[i] = s[i]
  OBVIOUS
<1>3. PICK m : m = r + 1
  OBVIOUS
<1>4. /\ SubSeq(s, m, n) \in Seq(F) /\ Len(SubSeq(s, m, n)) = n - r
      /\ \A i \in 1..(n - r) : SubSeq(s, m, n)[i] = s[r + i]
  BY <1>1, <1>3
<1> QED BY <1>1, <1>2, <1>3, <1>4

(* A letter is removed.                                                    *)
LEMMA RemovedIs ==
  ASSUME NEW F, NEW u \in Seq(F), NEW i \in DOMAIN u, NEW v, v = RemoveAt(u, i)
  PROVE  v \in Seq(F) /\ IsInserted(v, u, i - 1, u[i])
<1>1. PICK n \in Nat : n = Len(u) /\ i \in 1..n
  OBVIOUS
<1>2. PICK head, tail : head = SubSeq(u, 1, i - 1) /\ tail = SubSeq(u, i + 1, Len(u))
  OBVIOUS
<1>3. PICK p, r : p = i - 1 /\ r = i /\ p \in 0..n /\ r \in p..n
  BY <1>1
<1>4. /\ head \in Seq(F) /\ Len(head) = p
      /\ \A j \in 1..p : head[j] = u[j]
      /\ tail \in Seq(F) /\ Len(tail) = n - r
      /\ \A j \in 1..(n - r) : tail[j] = u[r + j]
  <2>1. /\ head = SubSeq(u, 1, p) /\ tail = SubSeq(u, r + 1, Len(u))
        /\ p \in 0..Len(u) /\ r \in p..Len(u)
    BY <1>1, <1>2, <1>3
  <2>2. /\ head \in Seq(F) /\ Len(head) = p
        /\ \A j \in 1..p : head[j] = u[j]
        /\ tail \in Seq(F) /\ Len(tail) = Len(u) - r
        /\ \A j \in 1..(Len(u) - r) : tail[j] = u[r + j]
    BY <2>1, CutIs
  <2> QED BY <1>1, <2>2
<1>5. JoinParts(v, head, tail, F)
  <2>1. IsJoin(v, head, tail)
    BY <1>2 DEF IsJoin, RemoveAt
  <2>2. head \in Seq(F) /\ tail \in Seq(F)
    BY <1>4
  <2> QED BY <2>1, <2>2, JoinHas
<1>6. v \in Seq(F) /\ Len(v) = n - 1 /\ \A j \in 1..p : v[j] = u[j]
  BY <1>1, <1>3, <1>4, <1>5 DEF JoinParts
<1>7. ASSUME NEW j \in (p + 1)..(n - 1) PROVE u[j + 1] = v[j]
  <2>1. PICK k : k = j - p
    OBVIOUS
  <2>2. k \in 1..(n - r) /\ j = p + k /\ j + 1 = r + k
    BY <1>1, <1>3, <2>1
  <2>3. v[p + k] = tail[k] /\ tail[k] = u[r + k]
    BY <1>4, <1>5, <2>2 DEF JoinParts
  <2> QED BY <2>2, <2>3
<1>8. IsInserted(v, u, p, u[i])
  <2>1. p \in 0..(n - 1) /\ n = n - 1 + 1 /\ p + 1 = i /\ Len(v) = n - 1 /\ Len(u) = n
    BY <1>1, <1>3, <1>6
  <2> QED BY <1>6, <1>7, <2>1 DEF IsInserted
<1> QED BY <1>3, <1>6, <1>8

(* A letter is inserted.                                                   *)
LEMMA InsertedIs ==
  ASSUME NEW F, NEW u \in Seq(F), NEW i \in 1..(Len(u) + 1), NEW e \in F,
         NEW v, v = InsertAt(u, i, e)
  PROVE  v \in Seq(F) /\ IsInserted(u, v, i - 1, e)
<1>1. PICK n \in Nat : n = Len(u) /\ i \in 1..(n + 1)
  OBVIOUS
<1>2. PICK head, tail, one, front :
        /\ head = SubSeq(u, 1, i - 1) /\ tail = SubSeq(u, i, Len(u))
        /\ one = <<e>> /\ front = head \o one
  OBVIOUS
<1>3. PICK p : p = i - 1 /\ p \in 0..n /\ i = p + 1
  BY <1>1
<1>4. /\ head \in Seq(F) /\ Len(head) = p
      /\ \A j \in 1..p : head[j] = u[j]
      /\ tail \in Seq(F) /\ Len(tail) = n - p
      /\ \A j \in 1..(n - p) : tail[j] = u[p + j]
  <2>1. head = SubSeq(u, 1, p) /\ tail = SubSeq(u, p + 1, Len(u)) /\ p \in p..n
    BY <1>2, <1>3
  <2> QED BY <1>1, <1>3, <2>1, CutIs
<1>5. one \in Seq(F) /\ Len(one) = 1 /\ one[1] = e
  BY <1>2
<1>6. head \o tail = u
  <2>1. PICK w : w = head \o tail
    OBVIOUS
  <2>2. JoinParts(w, head, tail, F)
    <3>1. IsJoin(w, head, tail)
      BY <2>1 DEF IsJoin
    <3>2. head \in Seq(F) /\ tail \in Seq(F)
      BY <1>4
    <3> QED BY <3>1, <3>2, JoinHas
  <2>3. w \in Seq(F) /\ Len(w) = n
    BY <1>3, <1>4, <2>2 DEF JoinParts
  <2>4. ASSUME NEW j \in 1..n PROVE w[j] = u[j]
    <3>1. CASE j \in 1..p
      BY <1>4, <2>2, <3>1 DEF JoinParts
    <3>2. CASE j \notin 1..p
      <4>1. PICK k \in 1..(n - p) : j = p + k
        BY <1>3, <3>2
      <4> QED BY <1>4, <2>2, <4>1 DEF JoinParts
    <3> QED BY <3>1, <3>2
  <2>5. w = u
    BY <1>1, <2>3, <2>4, SeqEqual
  <2> QED BY <2>1, <2>5
<1>7. v = front \o tail
  BY <1>2 DEF InsertAt
<1>8. v \in Seq(F) /\ IsInserted(u, v, Len(head), one[1])
  <2>1. IsJoin(front, head, one) /\ IsJoin(u, head, tail) /\ IsJoin(v, front, tail)
    BY <1>2, <1>6, <1>7 DEF IsJoin
  <2>2. head \in Seq(F) /\ tail \in Seq(F) /\ one \in Seq(F) /\ Len(one) = 1
    BY <1>4, <1>5
  <2> QED BY <2>1, <2>2, InsertedBetween
<1> QED BY <1>3, <1>4, <1>5, <1>8

(* There is one list with an element less, and one with an element more.   *)
LEMMA InsertedOnce ==
  ASSUME NEW F, NEW s \in Seq(F), NEW t \in Seq(F), NEW s2 \in Seq(F), NEW t2 \in Seq(F),
         NEW p, NEW e, NEW e2
  PROVE  /\ IsInserted(s, t, p, e) /\ IsInserted(s2, t, p, e2) => s = s2
         /\ IsInserted(s, t, p, e) /\ IsInserted(s, t2, p, e) => t = t2
<1>1. ASSUME IsInserted(s, t, p, e), IsInserted(s2, t, p, e2) PROVE s = s2
  <2>1. PICK n \in Nat : Len(s) = n /\ Len(s2) = n /\ p \in 0..n
    BY <1>1 DEF IsInserted
  <2>2. ASSUME NEW i \in 1..n PROVE s[i] = s2[i]
    <3>1. i \in 1..p \/ i \in (p + 1)..n
      BY <2>1
    <3> QED BY <1>1, <2>1, <3>1 DEF IsInserted
  <2> QED BY <2>1, <2>2, SeqEqual
<1>2. ASSUME IsInserted(s, t, p, e), IsInserted(s, t2, p, e) PROVE t = t2
  <2>1. PICK n \in Nat : Len(s) = n /\ Len(t) = n + 1 /\ Len(t2) = n + 1 /\ p \in 0..n
    BY <1>2 DEF IsInserted
  <2>2. ASSUME NEW i \in 1..(n + 1) PROVE t[i] = t2[i]
    <3>1. CASE i \in 1..p
      BY <1>2, <3>1 DEF IsInserted
    <3>2. CASE i = p + 1
      BY <1>2, <3>2 DEF IsInserted
    <3>3. CASE i \notin 1..p /\ i # p + 1
      <4>1. PICK k : k = i - 1
        OBVIOUS
      <4>2. k \in (p + 1)..n /\ i = k + 1
        BY <2>1, <3>3, <4>1
      <4> QED BY <1>2, <2>1, <4>2 DEF IsInserted
    <3> QED BY <3>1, <3>2, <3>3
  <2> QED BY <2>1, <2>2, SeqEqual
<1> QED BY <1>1, <1>2

(* The three edits, by the letters that stay.                              *)
Edited(u, v) ==
  \/ \E p \in Nat, e \in Letters : IsInserted(v, u, p, e)
  \/ \E p \in Nat, e \in Letters : IsInserted(u, v, p, e)
  \/ \E i \in DOMAIN u, l \in Letters : v = [u EXCEPT ![i] = l]

(* What OneEdit gives, position by position.                               *)
LEMMA OneEditIs ==
  ASSUME NEW u \in Seq(Letters), NEW v
  PROVE  v \in OneEdit(u) <=> v \in Seq(Letters) /\ Edited(u, v)
<1>1. ASSUME v \in OneEdit(u) PROVE v \in Seq(Letters) /\ Edited(u, v)
  <2>1. CASE \E i \in DOMAIN u : v = RemoveAt(u, i)
    <3>1. PICK i \in DOMAIN u : v = RemoveAt(u, i)
      BY <2>1
    <3>2. v \in Seq(Letters) /\ IsInserted(v, u, i - 1, u[i])
      BY <3>1, RemovedIs
    <3>3. i - 1 \in Nat /\ u[i] \in Letters
      OBVIOUS
    <3> QED BY <3>2, <3>3 DEF Edited
  <2>2. CASE \E i \in DOMAIN u, l \in Letters : v = ReplaceAt(u, i, l)
    <3>1. PICK i \in DOMAIN u, l \in Letters : v = [u EXCEPT ![i] = l]
      BY <2>2 DEF ReplaceAt
    <3>2. v \in Seq(Letters)
      BY <3>1
    <3> QED BY <3>1, <3>2 DEF Edited
  <2>3. CASE \E i \in 1..(Len(u) + 1), l \in Letters : v = InsertAt(u, i, l)
    <3>1. PICK i \in 1..(Len(u) + 1), l \in Letters : v = InsertAt(u, i, l)
      BY <2>3
    <3>2. v \in Seq(Letters) /\ IsInserted(u, v, i - 1, l)
      BY <3>1, InsertedIs
    <3>3. i - 1 \in Nat
      OBVIOUS
    <3> QED BY <3>2, <3>3 DEF Edited
  <2> QED BY <1>1, <2>1, <2>2, <2>3 DEF OneEdit
<1>2. ASSUME v \in Seq(Letters), Edited(u, v) PROVE v \in OneEdit(u)
  <2>1. CASE \E p \in Nat, e \in Letters : IsInserted(v, u, p, e)
    <3>1. PICK p \in Nat, e \in Letters : IsInserted(v, u, p, e)
      BY <2>1
    <3>2. PICK i \in DOMAIN u : i = p + 1 /\ i - 1 = p
      BY <1>2, <3>1 DEF IsInserted
    <3>3. PICK w : w = RemoveAt(u, i)
      OBVIOUS
    <3>4. w \in Seq(Letters) /\ IsInserted(w, u, i - 1, u[i])
      BY <3>3, RemovedIs
    <3>5. v = w
      BY <1>2, <3>1, <3>2, <3>4, InsertedOnce
    <3> QED BY <3>3, <3>5 DEF OneEdit
  <2>2. CASE \E p \in Nat, e \in Letters : IsInserted(u, v, p, e)
    <3>1. PICK p \in Nat, e \in Letters : IsInserted(u, v, p, e)
      BY <2>2
    <3>2. PICK i \in 1..(Len(u) + 1) : i = p + 1 /\ i - 1 = p
      BY <3>1 DEF IsInserted
    <3>3. PICK w : w = InsertAt(u, i, e)
      OBVIOUS
    <3>4. w \in Seq(Letters) /\ IsInserted(u, w, i - 1, e)
      BY <3>3, InsertedIs
    <3>5. v = w
      BY <1>2, <3>1, <3>2, <3>4, InsertedOnce
    <3> QED BY <3>3, <3>5 DEF OneEdit
  <2>3. CASE \E i \in DOMAIN u, l \in Letters : v = [u EXCEPT ![i] = l]
    <3>1. PICK i \in DOMAIN u, l \in Letters : v = [u EXCEPT ![i] = l]
      BY <2>3
    <3>2. v = ReplaceAt(u, i, l)
      BY <3>1 DEF ReplaceAt
    <3> QED BY <3>2 DEF OneEdit
  <2> QED BY <1>2, <2>1, <2>2, <2>3 DEF Edited
<1> QED BY <1>1, <1>2

-----------------------------------------------------------------------------
(* The words within n edits, edit by edit.                                 *)

(* The words of a set and those one edit from them.                        *)
Wider(S) == S \cup UNION {OneEdit(v) : v \in S}

(* The function that Within defines, up to n.                              *)
IsBall(g, w, n) == \A k \in 0..n : g[k] = IF k = 0 THEN {w} ELSE Wider(g[k - 1])

(* The recursion of Within.                                                *)
LEMMA WithinUnfolded ==
  ASSUME NEW w, NEW n
  PROVE  Within(w, n) =
    (CHOOSE g : g = [k \in 0..n |-> IF k = 0 THEN {w} ELSE Wider(g[k - 1])])[n]
BY DEF Within, Wider

(* The recursion has a solution.                                           *)
LEMMA BallRuns ==
  ASSUME NEW w, NEW n \in Nat
  PROVE  \E g : g = [k \in 0..n |-> IF k = 0 THEN {w} ELSE Wider(g[k - 1])]
<1> DEFINE K == {m \in Nat : \E g : IsBall(g, w, m)}
<1>1. 0 \in K
  <2>1. IsBall([k \in {0} |-> {w}], w, 0)
    BY DEF IsBall
  <2> QED BY <2>1
<1>2. ASSUME NEW m \in Nat, m \in K PROVE m + 1 \in K
  <2>1. PICK g : IsBall(g, w, m)
    BY <1>2
  <2>2. PICK h : h = [k \in 0..(m + 1) |-> IF k = m + 1 THEN Wider(g[m]) ELSE g[k]]
    OBVIOUS
  <2>3. ASSUME NEW k \in 0..(m + 1)
        PROVE  h[k] = IF k = 0 THEN {w} ELSE Wider(h[k - 1])
    <3>1. CASE k = 0
      BY <2>1, <2>2, <3>1 DEF IsBall
    <3>2. CASE k # 0
      <4>1. k - 1 \in 0..m /\ k - 1 \in 0..(m + 1) /\ k - 1 # m + 1
        BY <3>2
      <4>2. h[k - 1] = g[k - 1]
        BY <2>2, <4>1
      <4>3. h[k] = Wider(g[k - 1])
        <5>1. CASE k = m + 1
          BY <2>2, <5>1
        <5>2. CASE k # m + 1
          <6>1. k \in 0..m /\ h[k] = g[k]
            BY <2>2, <5>2
          <6> QED BY <2>1, <3>2, <6>1 DEF IsBall
        <5> QED BY <5>1, <5>2
      <4> QED BY <3>2, <4>2, <4>3
    <3> QED BY <3>1, <3>2
  <2>4. IsBall(h, w, m + 1)
    BY <2>3 DEF IsBall
  <2> QED BY <2>4
<1>3. PICK g : IsBall(g, w, n)
  <2>1. Nat \subseteq K
    <3> HIDE DEF K
    <3> QED BY <1>1, <1>2, NatInd
  <2> QED BY <2>1
<1>4. PICK h : h = [k \in 0..n |-> g[k]]
  OBVIOUS
<1>5. ASSUME NEW k \in 0..n PROVE h[k] = IF k = 0 THEN {w} ELSE Wider(h[k - 1])
  <2>1. k # 0 => k - 1 \in 0..n
    OBVIOUS
  <2> QED BY <1>3, <1>4, <2>1 DEF IsBall
<1>6. h = [k \in 0..n |-> IF k = 0 THEN {w} ELSE Wider(h[k - 1])]
  BY <1>4, <1>5
<1> QED BY <1>6

(* Within is the end of such a function.                                   *)
LEMMA WithinIsBall ==
  ASSUME NEW w, NEW n \in Nat
  PROVE  \E g : IsBall(g, w, n) /\ Within(w, n) = g[n]
<1> DEFINE ball == CHOOSE g : g = [k \in 0..n |-> IF k = 0 THEN {w} ELSE Wider(g[k - 1])]
<1>1. PICK g : g = [k \in 0..n |-> IF k = 0 THEN {w} ELSE Wider(g[k - 1])]
  BY BallRuns
<1>2. ball = [k \in 0..n |-> IF k = 0 THEN {w} ELSE Wider(ball[k - 1])]
  BY <1>1
<1>3. Within(w, n) = ball[n]
  BY WithinUnfolded
<1> HIDE DEF ball
<1>4. IsBall(ball, w, n)
  BY <1>2 DEF IsBall
<1> QED BY <1>3, <1>4

(* Each edit more widens what is within reach.                             *)
LEMMA WithinIs ==
  ASSUME NEW w
  PROVE  Within(w, 0) = {w} /\ \A n \in Nat : Within(w, n + 1) = Wider(Within(w, n))
<1>1. Within(w, 0) = {w}
  <2>1. PICK g : IsBall(g, w, 0) /\ Within(w, 0) = g[0]
    BY WithinIsBall
  <2>2. 0 \in 0..0
    OBVIOUS
  <2> QED BY <2>1, <2>2 DEF IsBall
<1>2. ASSUME NEW n \in Nat PROVE Within(w, n + 1) = Wider(Within(w, n))
  <2>1. PICK g : IsBall(g, w, n) /\ Within(w, n) = g[n]
    BY WithinIsBall
  <2>2. PICK h : IsBall(h, w, n + 1) /\ Within(w, n + 1) = h[n + 1]
    <3>1. n + 1 \in Nat
      OBVIOUS
    <3> QED BY <3>1, WithinIsBall
  <2> DEFINE K == {k \in Nat : k <= n => g[k] = h[k]}
  <2>3. 0 \in K
    BY <2>1, <2>2 DEF IsBall
  <2>4. ASSUME NEW k \in Nat, k \in K PROVE k + 1 \in K
    <3> SUFFICES ASSUME k + 1 <= n PROVE g[k + 1] = h[k + 1]
      OBVIOUS
    <3>1. k + 1 \in 0..n /\ k + 1 \in 0..(n + 1) /\ k + 1 # 0 /\ k + 1 - 1 = k
      OBVIOUS
    <3>2. g[k + 1] = Wider(g[k]) /\ h[k + 1] = Wider(h[k])
      BY <2>1, <2>2, <3>1 DEF IsBall
    <3> QED BY <2>4, <3>2
  <2>5. g[n] = h[n]
    <3>1. Nat \subseteq K
      <4> HIDE DEF K
      <4> QED BY <2>3, <2>4, NatInd
    <3> QED BY <3>1
  <2>6. h[n + 1] = Wider(h[n])
    <3>1. n + 1 \in 0..(n + 1) /\ n + 1 # 0 /\ n + 1 - 1 = n
      OBVIOUS
    <3> QED BY <2>2, <3>1 DEF IsBall
  <2> QED BY <2>1, <2>2, <2>5, <2>6
<1> QED BY <1>1, <1>2

(* One edit after n, one edit before n, and no edit at all.                *)
LEMMA WithinWidens ==
  ASSUME NEW n \in Nat
  PROVE  /\ \A w, v : v \in Within(w, n) => v \in Within(w, n + 1)
         /\ \A w, u, v : u \in Within(w, n) /\ v \in OneEdit(u) => v \in Within(w, n + 1)
         /\ \A w, u, v : u \in OneEdit(w) /\ v \in Within(u, n) => v \in Within(w, n + 1)
<1>1. ASSUME NEW k \in Nat
      PROVE  /\ \A w, v : v \in Within(w, k) => v \in Within(w, k + 1)
             /\ \A w, u, v : u \in Within(w, k) /\ v \in OneEdit(u) => v \in Within(w, k + 1)
  <2>1. \A w : Within(w, k + 1) = Wider(Within(w, k))
    BY WithinIs
  <2> QED BY <2>1 DEF Wider
<1> DEFINE K == {k \in Nat : \A w, u, v :
                   u \in OneEdit(w) /\ v \in Within(u, k) => v \in Within(w, k + 1)}
<1>2. 0 \in K
  <2> SUFFICES ASSUME NEW w, NEW u, NEW v, u \in OneEdit(w), v \in Within(u, 0)
               PROVE  v \in Within(w, 0 + 1)
    OBVIOUS
  <2>1. v = u /\ w \in Within(w, 0)
    BY WithinIs
  <2> QED BY <1>1, <2>1
<1>3. ASSUME NEW k \in Nat, k \in K PROVE k + 1 \in K
  <2> SUFFICES ASSUME NEW w, NEW u, NEW v, u \in OneEdit(w), v \in Within(u, k + 1)
               PROVE  v \in Within(w, k + 1 + 1)
    OBVIOUS
  <2>1. v \in Wider(Within(u, k)) /\ k + 1 \in Nat
    <3>1. Within(u, k + 1) = Wider(Within(u, k))
      BY WithinIs
    <3> QED BY <3>1
  <2>2. CASE v \in Within(u, k)
    <3>1. v \in Within(w, k + 1)
      BY <1>3, <2>2
    <3> QED BY <1>1, <2>1, <3>1
  <2>3. CASE v \notin Within(u, k)
    <3>1. PICK x \in Within(u, k) : v \in OneEdit(x)
      BY <2>1, <2>3 DEF Wider
    <3>2. x \in Within(w, k + 1)
      BY <1>3, <3>1
    <3> QED BY <1>1, <2>1, <3>1, <3>2
  <2> QED BY <2>2, <2>3
<1>4. n \in K
  <2> HIDE DEF K
  <2> QED BY <1>2, <1>3, NatInd
<1> QED BY <1>1, <1>4

(* The words within reach of a word are words.                             *)
LEMMA WithinAreWords ==
  ASSUME NEW w \in Seq(Letters), NEW n \in Nat
  PROVE  Within(w, n) \subseteq Seq(Letters)
<1> DEFINE K == {k \in Nat : Within(w, k) \subseteq Seq(Letters)}
<1>1. 0 \in K
  BY WithinIs
<1>2. ASSUME NEW k \in Nat, k \in K PROVE k + 1 \in K
  <2>1. \A u \in Seq(Letters) : OneEdit(u) \subseteq Seq(Letters)
    BY OneEditIs
  <2>2. Within(w, k + 1) = Wider(Within(w, k))
    BY WithinIs
  <2> QED BY <1>2, <2>1, <2>2 DEF Wider
<1>3. Nat \subseteq K
  <2> HIDE DEF K
  <2> QED BY <1>1, <1>2, NatInd
<1> QED BY <1>3

-----------------------------------------------------------------------------
(* The distance counts edits.                                              *)

(* An edit moves the distance from any word by at most one.                *)
LEMMA EditIsClose ==
  ASSUME NEW a \in Seq(Letters), NEW u \in Seq(Letters), NEW v \in OneEdit(u)
  PROVE  /\ EditDistance(a, u) \in Nat /\ EditDistance(a, v) \in Nat
         /\ Apart(EditDistance(a, u), EditDistance(a, v))
<1>1. v \in Seq(Letters) /\ Edited(u, v)
  BY OneEditIs
<1>2. PICK m \in Nat, k \in Nat, n \in Nat : m = Len(a) /\ k = Len(u) /\ n = Len(v)
  BY <1>1
<1>3. PICK c : IsTable(c, a, u, m, k) /\ EditDistance(a, u) = c[m][k]
  BY <1>2, TableIs
<1>4. PICK d : IsTable(d, a, v, m, n) /\ EditDistance(a, v) = d[m][n]
  BY <1>2, TableIs
<1>5. c[m][k] \in Nat /\ d[m][n] \in Nat
  <2>1. m \in 0..m /\ k \in 0..k /\ n \in 0..n
    OBVIOUS
  <2> QED BY <1>3, <1>4, <2>1 DEF IsTable
<1>6. CASE \E p \in Nat, e \in Letters : IsInserted(v, u, p, e)
  <2>1. PICK p \in Nat, e \in Letters : IsInserted(v, u, p, e)
    BY <1>6
  <2>2. k = n + 1
    BY <1>2, <2>1 DEF IsInserted
  <2>3. Apart(d[m][n], c[m][k])
    BY <1>2, <1>3, <1>4, <2>1, <2>2, InsertingIsClose
  <2> QED BY <1>3, <1>4, <1>5, <2>3 DEF Apart
<1>7. CASE \E p \in Nat, e \in Letters : IsInserted(u, v, p, e)
  <2>1. PICK p \in Nat, e \in Letters : IsInserted(u, v, p, e)
    BY <1>7
  <2>2. n = k + 1
    BY <1>2, <2>1 DEF IsInserted
  <2>3. Apart(c[m][k], d[m][n])
    BY <1>2, <1>3, <1>4, <2>1, <2>2, InsertingIsClose
  <2> QED BY <1>3, <1>4, <1>5, <2>3
<1>8. CASE \E i \in DOMAIN u, l \in Letters : v = [u EXCEPT ![i] = l]
  <2>1. PICK i \in DOMAIN u, l \in Letters : v = [u EXCEPT ![i] = l]
    BY <1>8
  <2>2. n = k /\ i \in 1..k /\ \A j \in 1..k : j # i => u[j] = v[j]
    BY <1>2, <2>1
  <2>3. Apart(c[m][k], d[m][k])
    BY <1>3, <1>4, <2>2, ReplacingIsClose
  <2> QED BY <1>3, <1>4, <1>5, <2>2, <2>3
<1> QED BY <1>1, <1>3, <1>4, <1>5, <1>6, <1>7, <1>8 DEF Edited

(* A word within n edits has at most the distance n.                       *)
LEMMA EditsAreCounted ==
  ASSUME NEW a \in Seq(Letters), NEW n \in Nat, NEW v \in Within(a, n)
  PROVE  EditDistance(a, v) \in Nat /\ EditDistance(a, v) <= n
<1> DEFINE K == {k \in Nat : \A x \in Within(a, k) :
                   EditDistance(a, x) \in Nat /\ EditDistance(a, x) <= k}
<1>1. 0 \in K
  <2>1. EditDistance(a, a) = 0
    BY NoEditIsNoDistance
  <2>2. Within(a, 0) = {a}
    BY WithinIs
  <2> QED BY <2>1, <2>2
<1>2. ASSUME NEW k \in Nat, k \in K PROVE k + 1 \in K
  <2> SUFFICES ASSUME NEW x \in Within(a, k + 1)
               PROVE  EditDistance(a, x) \in Nat /\ EditDistance(a, x) <= k + 1
    OBVIOUS
  <2>1. x \in Within(a, k) \/ \E u \in Within(a, k) : x \in OneEdit(u)
    BY WithinIs DEF Wider
  <2>2. CASE x \in Within(a, k)
    BY <1>2, <2>2
  <2>3. CASE \E u \in Within(a, k) : x \in OneEdit(u)
    <3>1. PICK u \in Within(a, k) : x \in OneEdit(u)
      BY <2>3
    <3>2. EditDistance(a, u) <= k
      BY <1>2, <3>1
    <3>3. u \in Seq(Letters)
      BY <3>1, WithinAreWords
    <3>4. /\ EditDistance(a, u) \in Nat /\ EditDistance(a, x) \in Nat
          /\ Apart(EditDistance(a, u), EditDistance(a, x))
      BY <3>1, <3>3, EditIsClose
    <3> QED BY <3>2, <3>4 DEF Apart
  <2> QED BY <2>1, <2>2, <2>3
<1>3. Nat \subseteq K
  <2> HIDE DEF K
  <2> QED BY <1>1, <1>2, NatInd
<1> QED BY <1>3

-----------------------------------------------------------------------------
(* The edits that the table chooses.                                       *)

(* An edit stays one when both words go on with the same letter.           *)
LEMMA EditBeforeLetter ==
  ASSUME NEW u \in Seq(Letters), NEW v \in OneEdit(u), NEW l \in Letters
  PROVE  Append(v, l) \in OneEdit(Append(u, l))
<1>1. v \in Seq(Letters) /\ Edited(u, v)
  BY OneEditIs
<1>2. PICK s, t : s = Append(u, l) /\ t = Append(v, l)
  OBVIOUS
<1>3. s \in Seq(Letters) /\ t \in Seq(Letters) /\ Len(s) = Len(u) + 1 /\ Len(t) = Len(v) + 1
  BY <1>1, <1>2
<1>4. ASSUME \E p \in Nat, e \in Letters : IsInserted(v, u, p, e) PROVE Edited(s, t)
  <2>1. PICK p \in Nat, e \in Letters : IsInserted(v, u, p, e)
    BY <1>4
  <2>2. SameOrInserted(v, u, e)
    BY <2>1 DEF SameOrInserted
  <2>3. SameOrInserted(t, s, e)
    BY <1>1, <1>2, <2>2, InsertedAppends
  <2>4. Len(s) # Len(t)
    <3>1. Len(u) = Len(v) + 1 /\ Len(v) \in Nat
      BY <1>1, <2>1 DEF IsInserted
    <3> QED BY <1>3, <3>1
  <2> QED BY <2>3, <2>4 DEF SameOrInserted, Edited
<1>5. ASSUME \E p \in Nat, e \in Letters : IsInserted(u, v, p, e) PROVE Edited(s, t)
  <2>1. PICK p \in Nat, e \in Letters : IsInserted(u, v, p, e)
    BY <1>5
  <2>2. SameOrInserted(u, v, e)
    BY <2>1 DEF SameOrInserted
  <2>3. SameOrInserted(s, t, e)
    BY <1>1, <1>2, <2>2, InsertedAppends
  <2>4. Len(s) # Len(t)
    <3>1. Len(v) = Len(u) + 1 /\ Len(u) \in Nat
      BY <1>1, <2>1 DEF IsInserted
    <3> QED BY <1>3, <3>1
  <2> QED BY <2>3, <2>4 DEF SameOrInserted, Edited
<1>6. ASSUME \E i \in DOMAIN u, x \in Letters : v = [u EXCEPT ![i] = x] PROVE Edited(s, t)
  <2>1. PICK i \in DOMAIN u, x \in Letters : v = [u EXCEPT ![i] = x]
    BY <1>6
  <2>2. PICK n \in Nat : n = Len(u) /\ i \in 1..n
    OBVIOUS
  <2>3. Len(v) = n /\ Len(s) = n + 1 /\ Len(t) = n + 1 /\ i \in DOMAIN s
        /\ \A j \in 1..n : s[j] = u[j] /\ t[j] = v[j] /\ v[j] = IF j = i THEN x ELSE u[j]
    BY <1>1, <1>2, <1>3, <2>1, <2>2
  <2>4. s[n + 1] = l /\ t[n + 1] = l
    BY <1>1, <1>2, <2>2, <2>3
  <2>5. PICK w : w = [s EXCEPT ![i] = x]
    OBVIOUS
  <2>6. /\ w \in Seq(Letters) /\ Len(w) = n + 1
        /\ \A j \in 1..(n + 1) : w[j] = IF j = i THEN x ELSE s[j]
    BY <1>3, <2>3, <2>5
  <2>7. ASSUME NEW j \in 1..(n + 1) PROVE w[j] = t[j]
    <3>1. CASE j \in 1..n
      BY <2>3, <2>6, <3>1
    <3>2. CASE j \notin 1..n
      <4>1. j = n + 1 /\ j # i
        BY <2>2, <3>2
      <4> QED BY <2>4, <2>6, <4>1
    <3> QED BY <3>1, <3>2
  <2>8. w = t
    BY <1>3, <2>3, <2>6, <2>7, SeqEqual
  <2> QED BY <2>3, <2>5, <2>8 DEF Edited
<1>7. Edited(s, t)
  BY <1>1, <1>4, <1>5, <1>6 DEF Edited
<1> QED BY <1>2, <1>3, <1>7, OneEditIs

(* So do any number of edits.                                              *)
LEMMA WithinBeforeLetter ==
  ASSUME NEW u \in Seq(Letters), NEW n \in Nat, NEW v \in Within(u, n), NEW l \in Letters
  PROVE  Append(v, l) \in Within(Append(u, l), n)
<1>1. PICK s : s = Append(u, l)
  OBVIOUS
<1> DEFINE K == {k \in Nat : \A x \in Within(u, k) : Append(x, l) \in Within(s, k)}
<1>2. 0 \in K
  <2>1. Within(u, 0) = {u} /\ Within(s, 0) = {s}
    BY WithinIs
  <2> QED BY <1>1, <2>1
<1>3. ASSUME NEW k \in Nat, k \in K PROVE k + 1 \in K
  <2> SUFFICES ASSUME NEW x \in Within(u, k + 1) PROVE Append(x, l) \in Within(s, k + 1)
    OBVIOUS
  <2>1. Within(u, k + 1) = Wider(Within(u, k)) /\ Within(s, k + 1) = Wider(Within(s, k))
    BY WithinIs
  <2>2. CASE x \in Within(u, k)
    BY <1>3, <2>1, <2>2 DEF Wider
  <2>3. CASE x \notin Within(u, k)
    <3>1. PICK y \in Within(u, k) : x \in OneEdit(y)
      BY <2>1, <2>3 DEF Wider
    <3>2. y \in Seq(Letters)
      BY <3>1, WithinAreWords
    <3>3. PICK q, r : q = Append(y, l) /\ r = Append(x, l)
      OBVIOUS
    <3>4. q \in Within(s, k)
      BY <1>3, <3>1, <3>3
    <3>5. r \in OneEdit(q)
      BY <3>1, <3>2, <3>3, EditBeforeLetter
    <3> QED BY <2>1, <3>3, <3>4, <3>5 DEF Wider
  <2> QED BY <2>2, <2>3
<1>4. Nat \subseteq K
  <2> HIDE DEF K
  <2> QED BY <1>2, <1>3, NatInd
<1> QED BY <1>1, <1>4

(* Edits of the last letter.                                               *)
LEMMA EditsOfLastLetter ==
  ASSUME NEW u \in Seq(Letters), NEW l \in Letters, NEW x \in Letters
  PROVE  /\ Append(u, l) \in OneEdit(u) /\ u \in OneEdit(Append(u, l))
         /\ Append(u, x) \in OneEdit(Append(u, l))
<1>1. PICK s, t : s = Append(u, l) /\ t = Append(u, x)
  OBVIOUS
<1>2. PICK n \in Nat : n = Len(u)
  OBVIOUS
<1>3. /\ s \in Seq(Letters) /\ Len(s) = n + 1 /\ s[n + 1] = l
      /\ t \in Seq(Letters) /\ Len(t) = n + 1 /\ t[n + 1] = x
      /\ \A j \in 1..n : s[j] = u[j] /\ t[j] = u[j]
  BY <1>1, <1>2
<1>4. IsInserted(u, s, n, l)
  BY <1>2, <1>3 DEF IsInserted
<1>5. Edited(u, s) /\ Edited(s, u)
  BY <1>4 DEF Edited
<1>6. Edited(s, t)
  <2>1. PICK w : w = [s EXCEPT ![n + 1] = x]
    OBVIOUS
  <2>2. n + 1 \in DOMAIN s
    BY <1>3
  <2>3. /\ w \in Seq(Letters) /\ Len(w) = n + 1
        /\ \A j \in 1..(n + 1) : w[j] = IF j = n + 1 THEN x ELSE s[j]
    BY <1>3, <2>1, <2>2
  <2>4. ASSUME NEW j \in 1..(n + 1) PROVE w[j] = t[j]
    <3>1. CASE j = n + 1
      BY <1>3, <2>3, <3>1
    <3>2. CASE j # n + 1
      <4>1. j \in 1..n
        BY <3>2
      <4> QED BY <1>3, <2>3, <3>2, <4>1
    <3> QED BY <3>1, <3>2
  <2>5. w = t
    BY <1>3, <2>3, <2>4, SeqEqual
  <2> QED BY <2>1, <2>2, <2>5 DEF Edited
<1> QED BY <1>1, <1>3, <1>5, <1>6, OneEditIs

(* The words of the first i letters.                                       *)
Pre(a, i) == SubSeq(a, 1, i)

(* The beginnings of a word, letter by letter.                             *)
LEMMA PreIs ==
  ASSUME NEW a \in Seq(Letters), NEW m \in Nat, Len(a) = m
  PROVE  /\ Pre(a, 0) = <<>> /\ Pre(a, m) = a
         /\ \A i \in 0..m : Pre(a, i) \in Seq(Letters)
         /\ \A i \in Nat : i + 1 <= m =>
              a[i + 1] \in Letters /\ Pre(a, i + 1) = Append(Pre(a, i), a[i + 1])
<1>1. Pre(a, 0) = <<>>
  BY DEF Pre
<1>2. Pre(a, m) = a
  BY DEF Pre
<1>3. ASSUME NEW i \in 0..m
      PROVE  /\ Pre(a, i) \in Seq(Letters) /\ Len(Pre(a, i)) = i
             /\ \A j \in 1..i : Pre(a, i)[j] = a[j]
  BY DEF Pre
<1>4. ASSUME NEW i \in Nat, i + 1 <= m
      PROVE  a[i + 1] \in Letters /\ Pre(a, i + 1) = Append(Pre(a, i), a[i + 1])
  <2>1. a[i + 1] \in Letters
    BY <1>4
  <2>2. PICK s, t, l : s = Pre(a, i) /\ t = Pre(a, i + 1) /\ l = a[i + 1]
    OBVIOUS
  <2>3. /\ s \in Seq(Letters) /\ Len(s) = i /\ \A j \in 1..i : s[j] = a[j]
    BY <1>3, <1>4, <2>2
  <2>4. /\ t \in Seq(Letters) /\ Len(t) = i + 1 /\ \A j \in 1..(i + 1) : t[j] = a[j]
    <3>1. i + 1 \in 0..m
      BY <1>4
    <3> QED BY <1>3, <2>2, <3>1
  <2>5. PICK w : w = Append(s, l)
    OBVIOUS
  <2>6. /\ w \in Seq(Letters) /\ Len(w) = i + 1 /\ w[i + 1] = l
        /\ \A j \in 1..i : w[j] = s[j]
    BY <2>1, <2>2, <2>3, <2>5
  <2>7. ASSUME NEW j \in 1..(i + 1) PROVE t[j] = w[j]
    <3>1. CASE j = i + 1
      BY <2>2, <2>4, <2>6, <3>1
    <3>2. CASE j # i + 1
      <4>1. j \in 1..i
        BY <3>2
      <4> QED BY <2>3, <2>4, <2>6, <4>1
    <3> QED BY <3>1, <3>2
  <2>8. t = w
    BY <2>4, <2>6, <2>7, SeqEqual
  <2> QED BY <2>1, <2>2, <2>5, <2>8
<1> QED BY <1>1, <1>2, <1>3, <1>4

(* A word of so many letters.                                              *)
IsWord(a, m) == a \in Seq(Letters) /\ Len(a) = m

(* Each cell of the table counts edits that lead there.                    *)
LEMMA CellsCountEdits ==
  ASSUME NEW m \in Nat, NEW n \in Nat, NEW a, NEW b, IsWord(a, m), IsWord(b, n),
         NEW c, IsTable(c, a, b, m, n)
  PROVE  b \in Within(a, c[m][n])
<1> DEFINE P == {q \in (0..m) \X (0..n) : Pre(b, q[2]) \in Within(Pre(a, q[1]), c[q[1]][q[2]])}
<1>0. 0 \in 0..m /\ 0 \in 0..n /\ Pre(a, 0) = <<>> /\ Pre(b, 0) = <<>> /\ <<>> \in Seq(Letters)
  BY PreIs DEF IsWord
<1>A. /\ \A i \in 0..m : Pre(a, i) \in Seq(Letters)
      /\ \A i \in Nat : i + 1 <= m =>
           a[i + 1] \in Letters /\ Pre(a, i + 1) = Append(Pre(a, i), a[i + 1])
      /\ Pre(a, m) = a
  BY PreIs DEF IsWord
<1>B. /\ \A i \in 0..n : Pre(b, i) \in Seq(Letters)
      /\ \A i \in Nat : i + 1 <= n =>
           b[i + 1] \in Letters /\ Pre(b, i + 1) = Append(Pre(b, i), b[i + 1])
      /\ Pre(b, n) = b
  BY PreIs DEF IsWord
<1>1. ASSUME NEW j \in 0..n PROVE <<0, j>> \in P
  <2> DEFINE K == {k \in Nat : k <= n => Pre(b, k) \in Within(<<>>, k)}
  <2>1. 0 \in K
    BY <1>0, WithinIs
  <2>2. ASSUME NEW k \in Nat, k \in K PROVE k + 1 \in K
    <3> SUFFICES ASSUME k + 1 <= n PROVE Pre(b, k + 1) \in Within(<<>>, k + 1)
      OBVIOUS
    <3>1. PICK u, l : u = Pre(b, k) /\ l = b[k + 1]
      OBVIOUS
    <3>2. u \in Within(<<>>, k)
      BY <2>2, <3>1
    <3>3. u \in Seq(Letters) /\ l \in Letters /\ Pre(b, k + 1) = Append(u, l)
      <4> HIDE DEF P, K
      <4>1. k \in 0..n
        OBVIOUS
      <4>2. Pre(b, k) \in Seq(Letters)
        BY <4>1, <1>B
      <4>3. b[k + 1] \in Letters /\ Pre(b, k + 1) = Append(Pre(b, k), b[k + 1])
        BY <1>B
      <4> QED BY <3>1, <4>2, <4>3
    <3>4. Append(u, l) \in OneEdit(u)
      BY <3>3, EditsOfLastLetter
    <3> QED BY <3>2, <3>3, <3>4, WithinWidens
  <2>3. Nat \subseteq K
    <3> HIDE DEF K
    <3> QED BY <2>1, <2>2, NatInd
  <2>4. Pre(b, j) \in Within(<<>>, j)
    BY <2>3
  <2>5. c[0][j] = j /\ <<0, j>> \in (0..m) \X (0..n)
    BY <1>0 DEF IsTable
  <2> QED BY <1>0, <2>4, <2>5
<1>2. ASSUME NEW i \in 0..m PROVE <<i, 0>> \in P
  <2> DEFINE K == {k \in Nat : k <= m => <<>> \in Within(Pre(a, k), k)}
  <2>1. 0 \in K
    BY <1>0, WithinIs
  <2>2. ASSUME NEW k \in Nat, k \in K PROVE k + 1 \in K
    <3> SUFFICES ASSUME k + 1 <= m PROVE <<>> \in Within(Pre(a, k + 1), k + 1)
      OBVIOUS
    <3>1. PICK u, l : u = Pre(a, k) /\ l = a[k + 1]
      OBVIOUS
    <3>2. <<>> \in Within(u, k)
      BY <2>2, <3>1
    <3>3. u \in Seq(Letters) /\ l \in Letters /\ Pre(a, k + 1) = Append(u, l)
      <4> HIDE DEF P, K
      <4>1. k \in 0..m
        OBVIOUS
      <4>2. Pre(a, k) \in Seq(Letters)
        BY <4>1, <1>A
      <4>3. a[k + 1] \in Letters /\ Pre(a, k + 1) = Append(Pre(a, k), a[k + 1])
        BY <1>A
      <4> QED BY <3>1, <4>2, <4>3
    <3>4. u \in OneEdit(Append(u, l))
      BY <3>3, EditsOfLastLetter
    <3> QED BY <3>2, <3>3, <3>4, WithinWidens
  <2>3. Nat \subseteq K
    <3> HIDE DEF K
    <3> QED BY <2>1, <2>2, NatInd
  <2>4. <<>> \in Within(Pre(a, i), i)
    BY <2>3
  <2>5. c[i][0] = i /\ <<i, 0>> \in (0..m) \X (0..n)
    BY <1>0 DEF IsTable
  <2> QED BY <1>0, <2>4, <2>5
<1>3. ASSUME NEW i \in Nat, NEW j \in Nat, i + 1 <= m, j + 1 <= n,
             {<<i, j>>, <<i + 1, j>>, <<i, j + 1>>} \subseteq P
      PROVE  <<i + 1, j + 1>> \in P
  <2>1. PICK u, v, l, e : u = Pre(a, i) /\ v = Pre(b, j) /\ l = a[i + 1] /\ e = b[j + 1]
    OBVIOUS
  <2>2. u \in Seq(Letters) /\ l \in Letters /\ Pre(a, i + 1) = Append(u, l)
    BY <1>A, <1>3, <2>1
  <2>3. v \in Seq(Letters) /\ e \in Letters /\ Pre(b, j + 1) = Append(v, e)
    BY <1>B, <1>3, <2>1
  <2>4. PICK s, x, y, z :
          /\ s = c[i + 1][j + 1] /\ x = c[i][j + 1] /\ y = c[i + 1][j] /\ z = c[i][j]
    OBVIOUS
  <2>5. PICK ul, ve, vl : ul = Append(u, l) /\ ve = Append(v, e) /\ vl = Append(v, l)
    OBVIOUS
  <2>6. v \in Within(u, z) /\ v \in Within(ul, y) /\ ve \in Within(u, x)
    BY <1>3, <2>1, <2>2, <2>3, <2>4, <2>5
  <2>7. /\ s \in Nat /\ x \in Nat /\ y \in Nat /\ z \in Nat
        /\ l = e => s = z
        /\ l # e => s = x + 1 \/ s = y + 1 \/ s = z + 1
    <3>1. i + 1 <= m /\ j + 1 <= n
      BY <1>3
    <3> HIDE DEF P
    <3>2. /\ s \in Nat /\ x \in Nat /\ y \in Nat /\ z \in Nat
          /\ l = e => s = z
          /\ l # e => OneMore(s, x, y, z)
      <4>1. l = a[i + 1] /\ e = b[j + 1]
        BY <2>1
      <4>2. /\ c[i + 1][j + 1] \in Nat /\ c[i][j + 1] \in Nat /\ c[i + 1][j] \in Nat
            /\ c[i][j] \in Nat
            /\ a[i + 1] = b[j + 1] => c[i + 1][j + 1] = c[i][j]
            /\ a[i + 1] # b[j + 1] =>
                 OneMore(c[i + 1][j + 1], c[i][j + 1], c[i + 1][j], c[i][j])
        BY <3>1, CellIs
      <4> QED BY <2>4, <4>1, <4>2
    <3> QED BY <3>2 DEF OneMore
  <2>8. vl \in Within(ul, z)
    BY <2>2, <2>5, <2>6, <2>7, WithinBeforeLetter
  <2>9. u \in OneEdit(ul) /\ ve \in OneEdit(v) /\ ve \in OneEdit(vl)
    BY <2>2, <2>3, <2>5, EditsOfLastLetter
  <2>10. ve \in Within(ul, s)
    <3>1. CASE s = z /\ l = e
      BY <2>5, <2>8, <3>1
    <3>2. CASE s = x + 1
      BY <2>6, <2>7, <2>9, <3>2, WithinWidens
    <3>3. CASE s = y + 1
      BY <2>6, <2>7, <2>9, <3>3, WithinWidens
    <3>4. CASE s = z + 1
      BY <2>7, <2>8, <2>9, <3>4, WithinWidens
    <3> QED BY <2>7, <3>1, <3>2, <3>3, <3>4
  <2>11. <<i + 1, j + 1>> \in (0..m) \X (0..n)
    BY <1>3
  <2> QED BY <2>2, <2>3, <2>4, <2>5, <2>10, <2>11
<1>4. \A i \in 0..m, j \in 0..n : <<i, j>> \in P
  <2> HIDE DEF P
  <2>1. IsGridSet(P, m, n)
    BY <1>1, <1>2, <1>3 DEF IsGridSet
  <2> QED BY <2>1, GridInd
<1>5. <<m, n>> \in P
  BY <1>4
<1> QED BY <1>A, <1>B, <1>5

-----------------------------------------------------------------------------
(* What the distance means for the name check.                             *)

(* More edits reach no fewer words.                                        *)
LEMMA MoreEditsReachMore ==
  ASSUME NEW w, NEW k \in Nat, NEW n \in Nat, k <= n
  PROVE  Within(w, k) \subseteq Within(w, n)
<1> DEFINE K == {d \in Nat : Within(w, k) \subseteq Within(w, k + d)}
<1>1. 0 \in K
  OBVIOUS
<1>2. ASSUME NEW d \in Nat, d \in K PROVE d + 1 \in K
  <2>1. PICK l \in Nat : l = k + d /\ k + (d + 1) = l + 1
    OBVIOUS
  <2>2. Within(w, k) \subseteq Within(w, l)
    BY <1>2, <2>1
  <2>3. Within(w, l) \subseteq Within(w, l + 1)
    BY WithinWidens
  <2> QED BY <2>1, <2>2, <2>3
<1>3. Nat \subseteq K
  <2> HIDE DEF K
  <2> QED BY <1>1, <1>2, NatInd
<1>4. PICK d \in Nat : n = k + d
  <2>1. n - k \in Nat /\ n = k + (n - k)
    OBVIOUS
  <2> QED BY <2>1
<1> QED BY <1>3, <1>4

(* editDistance returns the least number of letters to insert, remove or   *)
(* replace, for words of any length: it is at most n just if n such edits  *)
(* reach the other word (badlist.go, editDistance).                        *)
THEOREM EditDistanceCountsEdits ==
  \A a, b \in Seq(Letters), n \in Nat :
    /\ EditDistance(a, b) \in Nat
    /\ EditDistance(a, b) <= n <=> b \in Within(a, n)
<1> SUFFICES ASSUME NEW a \in Seq(Letters), NEW b \in Seq(Letters), NEW n \in Nat
             PROVE  /\ EditDistance(a, b) \in Nat
                    /\ EditDistance(a, b) <= n <=> b \in Within(a, n)
  OBVIOUS
<1>1. PICK k \in Nat, l \in Nat : Len(a) = k /\ Len(b) = l /\ IsWord(a, k) /\ IsWord(b, l)
  BY DEF IsWord
<1>2. PICK c : IsTable(c, a, b, k, l) /\ EditDistance(a, b) = c[k][l]
  BY <1>1, TableIs
<1>3. PICK d : d = EditDistance(a, b)
  OBVIOUS
<1>4. d \in Nat
  <2>1. k \in 0..k /\ l \in 0..l
    OBVIOUS
  <2>2. c[k][l] \in Nat
    BY <1>2, <2>1 DEF IsTable
  <2> QED BY <1>2, <1>3, <2>2
<1>5. b \in Within(a, d)
  <2>1. b \in Within(a, c[k][l])
    BY <1>1, <1>2, CellsCountEdits
  <2> QED BY <1>2, <1>3, <2>1
<1>6. d <= n => b \in Within(a, n)
  BY <1>4, <1>5, MoreEditsReachMore
<1>7. b \in Within(a, n) => d <= n
  BY <1>3, EditsAreCounted
<1> QED BY <1>3, <1>4, <1>6, <1>7

(* A name is a typo of a popular one just if few edits lead to one.        *)
LEMMA TyposAreNear ==
  ASSUME NEW name \in Seq(Letters), NEW popular \in SUBSET Seq(Letters),
         NEW n \in {1, 2}
  PROVE  TyposquatDistance(name, popular) <= n <=>
           name \notin popular /\ popular \cap Within(name, n) # {}
<1>1. CASE name \in popular
  BY <1>1 DEF TyposquatDistance
<1>2. CASE name \notin popular
  <2>1. PICK S : S = {99} \cup {EditDistance(name, p) : p \in popular}
    OBVIOUS
  <2>2. S \in SUBSET Nat /\ S # {}
    BY <2>1, EditDistanceCountsEdits
  <2>3. PICK d \in Nat : d = Min(S) /\ d \in S /\ \A y \in S : d <= y
    BY <2>2, LeastOf
  <2>4. TyposquatDistance(name, popular) = d
    BY <1>2, <2>1, <2>3 DEF TyposquatDistance
  <2>5. d <= n <=> \E p \in popular : EditDistance(name, p) <= n
    <3>1. ASSUME d <= n PROVE \E p \in popular : EditDistance(name, p) <= n
      <4>1. d # 99
        BY <3>1
      <4> QED BY <2>1, <2>3, <3>1, <4>1
    <3>2. ASSUME NEW p \in popular, EditDistance(name, p) <= n PROVE d <= n
      <4>1. PICK e \in Nat : e = EditDistance(name, p) /\ e \in S
        BY <2>1, EditDistanceCountsEdits
      <4>2. d <= e /\ e <= n
        BY <2>3, <3>2, <4>1
      <4> QED BY <4>2
    <3> QED BY <3>1, <3>2
  <2>6. \A p \in popular : EditDistance(name, p) <= n <=> p \in Within(name, n)
    BY EditDistanceCountsEdits
  <2> QED BY <1>2, <2>4, <2>5, <2>6
<1> QED BY <1>1, <1>2

(* A popular name is as near as the name's length allows.                  *)
IsTypo(name, popular) ==
  /\ name \notin popular
  /\ Len(name) >= MinTypoLength
  /\ popular \cap Within(name, IF Len(name) < LongName THEN 1 ELSE 2) # {}

(* The findings of the entries that match, or of the typo.                 *)
FoundIn(matching, name, popular) ==
  IF matching = {} THEN IF IsTypo(name, popular) THEN {"high"} ELSE {}
  ELSE {MapSev(e.severity) : e \in matching}

(* What the check finds without an entry, and with one.                    *)
LEMMA KnownBadFinds ==
  ASSUME NEW entries, NEW popular \in SUBSET Seq(Letters), NEW name \in Seq(Letters),
         NEW version
  PROVE  KnownBadAnalyze(entries, popular, name, version) =
           FoundIn(Matches(entries, name, version), name, popular)
<1>1. PICK M : M = Matches(entries, name, version)
  OBVIOUS
<1>2. PICK hits : hits = {MapSev(e.severity) : e \in M} /\ (hits = {} <=> M = {})
  <2>1. PICK H : H = {MapSev(e.severity) : e \in M}
    OBVIOUS
  <2>2. \A e \in M : MapSev(e.severity) \in H
    BY <2>1
  <2>3. H # {} => M # {}
    BY <2>1
  <2> QED BY <2>1, <2>2, <2>3
<1>3. PICK n \in {1, 2} : n = MaxTypoDistance(name)
                          /\ n = IF Len(name) < LongName THEN 1 ELSE 2
  BY DEF MaxTypoDistance
<1>4. TyposquatDistance(name, popular) <= n <=>
        name \notin popular /\ popular \cap Within(name, n) # {}
  BY TyposAreNear
<1>5. IsTypo(name, popular) <=>
        /\ Len(name) >= MinTypoLength
        /\ TyposquatDistance(name, popular) <= MaxTypoDistance(name)
  BY <1>3, <1>4 DEF IsTypo
<1>6. KnownBadAnalyze(entries, popular, name, version) =
        IF hits = {} /\ IsTypo(name, popular) THEN {"high"} ELSE hits
  BY <1>1, <1>2, <1>5 DEF KnownBadAnalyze
<1> QED BY <1>1, <1>2, <1>6 DEF FoundIn

(* A download check sees no entry that the name check would not see, and   *)
(* without an entry the name is refused just if a popular one is as near   *)
(* as its length allows (badlistAnalyzer.Analyze, editDistance).           *)
THEOREM NameCheckIsAlwaysSound == AlgorithmsSpec => []NameCheckIsSound
<1>1. AlgorithmsInv => NameCheckIsSound
  <2> SUFFICES ASSUME AlgorithmsInv, done, task = "badlist"
               PROVE  NameCheckIsSound
    BY DEF NameCheckIsSound, Done
  <2>1. PICK entries, popular, name, version :
          /\ entries = input.entries /\ popular = input.popular
          /\ name = input.name /\ version = input.version
    OBVIOUS
  <2>2. name \in Seq(Letters) /\ popular \in SUBSET Seq(Letters)
    <3>1. input \in [entries : SUBSET Entries, popular : {{}} \cup {{p} : p \in Words},
                     name : Words, version : Versions]
      BY InputsAre
    <3>2. Words \subseteq Seq(Letters)
      BY BoundsAssumption, BoundedAreSequences DEF Words
    <3> QED BY <2>1, <3>1, <3>2
  <2>3. PICK near \in BOOLEAN : near = IsTypo(name, popular)
    BY DEF IsTypo
  <2>4. PICK all, here : /\ all = Matches(entries, name, EmptyVersion)
                         /\ here = Matches(entries, name, version)
    OBVIOUS
  <2>5. /\ output.download = IF here = {} THEN IF near THEN {"high"} ELSE {}
                             ELSE {MapSev(e.severity) : e \in here}
        /\ output.byName = IF all = {} THEN IF near THEN {"high"} ELSE {}
                           ELSE {MapSev(e.severity) : e \in all}
    <3>1. /\ output.download = KnownBadAnalyze(entries, popular, name, version)
          /\ output.byName = KnownBadAnalyze(entries, popular, name, EmptyVersion)
      BY <2>1 DEF AlgorithmsInv, Computed
    <3>2. /\ KnownBadAnalyze(entries, popular, name, version) = FoundIn(here, name, popular)
          /\ KnownBadAnalyze(entries, popular, name, EmptyVersion) =
               FoundIn(all, name, popular)
      BY <2>2, <2>4, KnownBadFinds
    <3> QED BY <2>3, <3>1, <3>2 DEF FoundIn
  <2>6. here \subseteq all
    BY <2>4 DEF Matches
  <2>7. /\ here # {} => output.download \subseteq output.byName
        /\ here = {} => output.download = IF near THEN {"high"} ELSE {}
        /\ all = {} => output.byName = output.download
    BY <2>5, <2>6
  <2>8. /\ here = {e \in input.entries :
                     /\ Lowered(e.name) = Lowered(input.name)
                     /\ version = EmptyVersion
                        \/ e.version \in {version, AnyVersion, EmptyVersion}}
        /\ all = {e \in input.entries :
                    /\ Lowered(e.name) = Lowered(input.name)
                    /\ EmptyVersion = EmptyVersion
                       \/ e.version \in {EmptyVersion, AnyVersion, EmptyVersion}}
    BY <2>1, <2>4 DEF Matches
  <2> QED BY <2>1, <2>3, <2>7, <2>8 DEF NameCheckIsSound, IsTypo
<1> QED BY <1>1, AlgorithmsInvariant, PTL
=============================================================================
