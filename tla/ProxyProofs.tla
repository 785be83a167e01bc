----------------------------- MODULE ProxyProofs -----------------------------
(***************************************************************************)
(* The safety properties of the proxy, for any number of requests, packages*)
(* and exceptions, in both binaries.  The proxy runs the pipeline, so that *)
(* the invariant of PipelineProofs holds under it; on top of that one      *)
(* stands what the proxy knows of exceptions and of its own answers.       *)
(***************************************************************************)
EXTENDS Proxy, PipelineProofs

-----------------------------------------------------------------------------
(* The inductive invariant.                                                *)

(* Every exception that is in force anywhere was granted once.             *)
GrantedInv ==
  exceptions \cup serverExceptions \cup synced \subseteq granted

(* What an exception answered, it covered.                                 *)
ExceptedInv ==
  \A c \in Call : source[c] = "exception" =>
    \E g \in granted : Covers(g, pkg[c])

(* A download is of one version.                                           *)
DownloadInv == \A c \in Call : kind[c] = "download" => pkg[c].version # NoVersion

(* Analyze had answered before the client was, and a download went through *)
(* only with another verdict than block, or because of an exception.       *)
ForwardedInv ==
  \A c \in Call : kind[c] = "download" /\ response[c] = "forwarded" =>
    /\ pc[c] = "done"
    /\ Modes = {"enforce"} =>
         result[c].verdict # "block" \/ \E g \in granted : Covers(g, pkg[c])

ProxyInv ==
  /\ IInv /\ ProxyTypeOK
  /\ GrantedInv /\ ExceptedInv /\ DownloadInv /\ ForwardedInv
  /\ RefusedForAFinding

-----------------------------------------------------------------------------
(* The pipeline below the proxy.                                           *)

(* A step of the proxy is one of the pipeline, or leaves the pipeline alone*)
LEMMA ProxyStepIsPipelineStep == [ProxyNext]_allVars => [Next]_vars
BY DEF ProxyNext, allVars, FetchFails, FetchNotOK, Intercept, Refuse, Forward,
  RefuseName, ForwardMeta, ReportNameBlock, Lookup, Analysis, Refresh,
  Housekeeping, ProxyRestart, ServerAdds, ServerDeletes, Sync, Next

(* A call that an exception answers asks for one at that moment.           *)
LEMMA ExceptionIsAsked ==
  ASSUME IInv, [Next]_vars, NEW c \in Call,
         source'[c] = "exception", source[c] # "exception"
  PROVE  Excepted(c)
<1>1. ~(RefreshList \/ Restart \/ Environment \/ UNCHANGED vars)
  BY DEF RefreshList, Restart, Environment, vars, callVars
<1>2. PICK d \in Call : Begin(d) \/ Advance(d) \/ Deadline(d)
  BY <1>1 DEF Next
<1>3. c = d
  BY <1>2, Others DEF IInv
<1> QED BY <1>2, <1>3 DEF Begin, Advance, Deadline, CacheHit, CacheMiss, CacheFails,
  NotExcepted, ExceptionFails, Badlist, CVE, CVEFails, Heuristic, HeuristicFails,
  NoHeuristic, Claude, ClaudeFails, NoClaude, BuildResult, Save, SaveFails, Answer,
  IInv, TypeOK

(* The exception table changes by what the administrator does to it, which *)
(* the proxy's Housekeeping records.                                       *)
LEMMA ExceptionsGranted ==
  ASSUME GrantedInv, [ProxyNext]_allVars
  PROVE  exceptions' \subseteq granted' /\ granted \subseteq granted'
<1>1. ASSUME NEW c \in Call, Begin(c) \/ Advance(c) \/ Deadline(c)
      PROVE  exceptions' = exceptions
  <2>1. CASE Save(c)
    BY <2>1 DEF Save, SaveResult
  <2>2. CASE ~Save(c)
    BY <1>1, <2>2, CallWrites DEF storeVars
  <2> QED BY <2>1, <2>2
<1> QED BY <1>1 DEF GrantedInv, ProxyNext, allVars, vars, proxyVars, storeVars,
  FetchFails, FetchNotOK, Intercept, Refuse, Forward, RefuseName, ForwardMeta,
  ReportNameBlock, Lookup, Analysis, Refresh, RefreshList, Housekeeping,
  ProxyRestart, Restart, ServerAdds, ServerDeletes, Sync

-----------------------------------------------------------------------------
(* The steps.                                                              *)

(* The variables of the proxy keep their types.                            *)
LEMMA ProxyTypeStep ==
  ASSUME ProxyInv, [ProxyNext]_allVars
  PROVE  ProxyTypeOK'
<1>1. IInv'
  BY ProxyStepIsPipelineStep, InvStep DEF ProxyInv
<1> USE DEF ProxyInv, ProxyTypeOK, Respond, Response
<1>2. TypeOK'
  BY <1>1 DEF IInv
<1>3. CASE \E c \in Call : FetchFails(c) \/ FetchNotOK(c) \/ ForwardMeta(c)
  BY <1>2, <1>3 DEF FetchFails, FetchNotOK, ForwardMeta
<1>4. CASE \E c \in Call : Refuse(c) \/ Forward(c)
  BY <1>2, <1>4 DEF Refuse, Forward, Reports, Send, Message
<1>5. CASE \E c \in Call : RefuseName(c) \/ ReportNameBlock(c)
  BY <1>2, <1>5 DEF RefuseName, ReportNameBlock, Send, Message
<1>6. CASE \/ \E c \in Call : Intercept(c) \/ Lookup(c)
           \/ Analysis \/ Refresh
  BY <1>2, <1>6 DEF Intercept, Lookup, Analysis, Refresh, proxyVars
<1>7. CASE Housekeeping
  <2>1. exceptions' \subseteq Exception
    BY <1>2 DEF TypeOK, StoreTypeOK
  <2> QED BY <1>2, <1>7, <2>1 DEF Housekeeping
<1>8. CASE ProxyRestart
  BY <1>2, <1>8 DEF ProxyRestart
<1>9. CASE ServerAdds
  BY <1>2, <1>9 DEF ServerAdds, ServerException
<1>10. CASE ServerDeletes \/ Sync
  BY <1>2, <1>10 DEF ServerDeletes, Sync
<1>11. CASE UNCHANGED allVars
  BY <1>2, <1>11 DEF allVars, proxyVars
<1> QED BY <1>3, <1>4, <1>5, <1>6, <1>7, <1>8, <1>9, <1>10, <1>11 DEF ProxyNext

(* No list holds an exception that was never granted.                      *)
LEMMA GrantedStep ==
  ASSUME ProxyInv, [ProxyNext]_allVars
  PROVE  GrantedInv'
<1>1. exceptions' \subseteq granted' /\ granted \subseteq granted'
  BY ExceptionsGranted DEF ProxyInv
<1>2. serverExceptions' \subseteq serverExceptions \cup granted'
  BY DEF ProxyNext, allVars, proxyVars, FetchFails, FetchNotOK, Intercept, Refuse,
    Forward, RefuseName, ForwardMeta, ReportNameBlock, Lookup, Analysis, Refresh,
    Housekeeping, ProxyRestart, ServerAdds, ServerDeletes, Sync
<1>3. synced' \subseteq synced \cup serverExceptions
  BY DEF ProxyNext, allVars, proxyVars, FetchFails, FetchNotOK, Intercept, Refuse,
    Forward, RefuseName, ForwardMeta, ReportNameBlock, Lookup, Analysis, Refresh,
    Housekeeping, ProxyRestart, ServerAdds, ServerDeletes, Sync
<1> QED BY <1>1, <1>2, <1>3 DEF ProxyInv, GrantedInv

(* What an exception answers is covered by it, when it is asked for and    *)
(* after it is gone.                                                       *)
LEMMA ExceptedStep ==
  ASSUME ProxyInv, [ProxyNext]_allVars
  PROVE  ExceptedInv'
<1> SUFFICES ASSUME NEW c \in Call, source'[c] = "exception"
             PROVE  \E g \in granted' : Covers(g, pkg'[c])
  BY DEF ExceptedInv, Covers
<1>1. IInv /\ [Next]_vars /\ granted \subseteq granted' /\ pkg' = pkg
  BY ProxyStepIsPipelineStep, ExceptionsGranted, CallsAreFixed DEF ProxyInv
<1>2. CASE source[c] = "exception"
  BY <1>1, <1>2 DEF ProxyInv, ExceptedInv
<1>3. CASE source[c] # "exception"
  <2>1. Excepted(c)
    BY <1>1, <1>3, ExceptionIsAsked
  <2>2. PICK e \in exceptions : e.name = pkg[c].name /\ e.version \in {pkg[c].version, NoVersion}
    BY <2>1 DEF Excepted, MatchingExceptions
  <2>3. e \in granted' /\ Covers(e, pkg'[c])
    BY <1>1, <2>2 DEF ProxyInv, GrantedInv, Covers
  <2> QED BY <2>3
<1> QED BY <1>2, <1>3

(* The kinds of the requests are fixed.                                    *)
LEMMA KindIsFixed == [ProxyNext]_allVars => kind' = kind
BY DEF ProxyNext, allVars, proxyVars, FetchFails, FetchNotOK, Intercept, Refuse,
  Forward, RefuseName, ForwardMeta, ReportNameBlock, Lookup, Analysis, Refresh,
  Housekeeping, ProxyRestart, ServerAdds, ServerDeletes, Sync

(* A download is forwarded after its answer: one that does not block, or   *)
(* with an exception of that very version, since the download names one.   *)
LEMMA ForwardKeeps ==
  ASSUME ProxyInv, NEW c \in Call, Forward(c), Modes = {"enforce"}
  PROVE  result[c].verdict # "block" \/ \E g \in granted : Covers(g, pkg[c])
<1>1. CASE ~Blocks(c)
  BY <1>1 DEF Blocks, ProxyInv, IInv
<1>2. CASE IsExcepted(pkg[c])
  <2>1. PICK e \in synced :
          /\ e.name = pkg[c].name
          /\ e.version = NoVersion \/ pkg[c].version = NoVersion \/ e.version = pkg[c].version
    BY <1>2 DEF IsExcepted
  <2>2. pkg[c].version # NoVersion
    BY DEF Forward, Waiting, ProxyInv, DownloadInv
  <2> QED BY <2>1, <2>2 DEF Covers, ProxyInv, GrantedInv
<1> QED BY <1>1, <1>2 DEF Forward

(* Nothing but Forward makes a forwarded download.                         *)
LEMMA ForwardedByForward ==
  ASSUME ProxyInv, [ProxyNext]_allVars, NEW c \in Call,
         kind[c] = "download", response[c] # "forwarded", response'[c] = "forwarded"
  PROVE  Forward(c)
BY DEF ProxyInv, ProxyTypeOK, ProxyNext, allVars, proxyVars, FetchFails, FetchNotOK,
  Intercept, Refuse, Forward, RefuseName, ForwardMeta, ReportNameBlock, Lookup,
  Analysis, Refresh, Housekeeping, ProxyRestart, ServerAdds, ServerDeletes, Sync,
  Waiting, Respond

(* Nothing but Refuse makes a forbidden download.                          *)
LEMMA ForbiddenByRefuse ==
  ASSUME ProxyInv, [ProxyNext]_allVars, NEW c \in Call,
         kind[c] = "download", response[c] # "forbidden", response'[c] = "forbidden"
  PROVE  Refuse(c)
BY DEF ProxyInv, ProxyTypeOK, ProxyNext, allVars, proxyVars, FetchFails, FetchNotOK,
  Intercept, Refuse, Forward, RefuseName, ForwardMeta, ReportNameBlock, Lookup,
  Analysis, Refresh, Housekeeping, ProxyRestart, ServerAdds, ServerDeletes, Sync,
  Waiting, Respond

(* What was forwarded stays forwarded for its reason.                      *)
LEMMA ForwardedStep ==
  ASSUME ProxyInv, [ProxyNext]_allVars
  PROVE  ForwardedInv'
<1> SUFFICES ASSUME NEW c \in Call, kind'[c] = "download", response'[c] = "forwarded"
             PROVE  /\ pc'[c] = "done"
                    /\ Modes = {"enforce"} => \/ result'[c].verdict # "block"
                                              \/ \E g \in granted' : Covers(g, pkg'[c])
  BY DEF ForwardedInv, Covers
<1>1. /\ [Next]_vars /\ granted \subseteq granted' /\ pkg' = pkg
      /\ kind[c] = "download"
  BY ProxyStepIsPipelineStep, ExceptionsGranted, CallsAreFixed, KindIsFixed DEF ProxyInv
<1>2. /\ pc[c] = "done"
      /\ Modes = {"enforce"} =>
           result[c].verdict # "block" \/ \E g \in granted : Covers(g, pkg[c])
  <2>1. CASE response[c] = "forwarded"
    BY <1>1, <2>1 DEF ProxyInv, ForwardedInv
  <2>2. CASE response[c] # "forwarded"
    <3>1. Forward(c)
      BY <1>1, <2>2, ForwardedByForward
    <3> QED BY <3>1, ForwardKeeps DEF Forward
  <2> QED BY <2>1, <2>2
<1>3. pc'[c] = "done" /\ result'[c] = result[c]
  BY <1>1, <1>2, AnswerIsFinal DEF ProxyInv
<1> QED BY <1>1, <1>2, <1>3

(* What was refused was refused for a finding, and reported.               *)
LEMMA RefusedStep ==
  ASSUME ProxyInv, [ProxyNext]_allVars
  PROVE  RefusedForAFinding'
<1> SUFFICES ASSUME NEW c \in Call, kind'[c] = "download", response'[c] = "forbidden"
             PROVE  /\ pc'[c] = "done" /\ HasCriticalOrBlock(result'[c].findings)
                    /\ HasServer => \A w \in {"result", "download"} :
                         [call |-> c, what |-> w] \in outbox'
  BY DEF RefusedForAFinding, HasCriticalOrBlock
<1>1. [Next]_vars /\ kind[c] = "download"
  BY ProxyStepIsPipelineStep, KindIsFixed
<1>2. outbox \subseteq outbox'
  BY DEF ProxyNext, allVars, proxyVars, FetchFails, FetchNotOK, Intercept, Refuse,
    Forward, RefuseName, ForwardMeta, ReportNameBlock, Lookup, Analysis, Refresh,
    Housekeeping, ProxyRestart, ServerAdds, ServerDeletes, Sync, Reports, Send
<1>3. /\ pc[c] = "done" /\ HasCriticalOrBlock(result[c].findings)
      /\ HasServer => \A w \in {"result", "download"} :
           [call |-> c, what |-> w] \in outbox'
  <2>1. CASE response[c] = "forbidden"
    BY <1>1, <1>2, <2>1 DEF ProxyInv, RefusedForAFinding
  <2>2. CASE response[c] # "forbidden"
    <3>1. Refuse(c)
      BY <1>1, <2>2, ForbiddenByRefuse
    <3>2. HasCriticalOrBlock(result[c].findings)
      BY <3>1, BlockHasAFinding DEF Refuse, Blocks, ProxyInv
    <3> QED BY <3>1, <3>2 DEF Refuse, Reports, Send
  <2> QED BY <2>1, <2>2
<1>4. pc'[c] = "done" /\ result'[c] = result[c]
  BY <1>1, <1>3, AnswerIsFinal DEF ProxyInv
<1> QED BY <1>3, <1>4 DEF HasCriticalOrBlock

(* A proxy that has just started satisfies the invariant.                  *)
LEMMA ProxyInvInit == ProxyInit => ProxyInv
<1> SUFFICES ASSUME ProxyInit PROVE ProxyInv
  OBVIOUS
<1>1. IInv /\ TypeOK
  BY InvInit, TypeInit DEF ProxyInit
<1>2. ProxyTypeOK
  BY <1>1 DEF ProxyInit, ProxyTypeOK, Response
<1>3. GrantedInv
  BY DEF ProxyInit, GrantedInv, Init, StoreInit
<1>4. ExceptedInv /\ ForwardedInv /\ RefusedForAFinding
  BY DEF ProxyInit, Init, ExceptedInv, ForwardedInv, RefusedForAFinding
<1>5. DownloadInv
  BY DEF ProxyInit, Init, DownloadInv
<1> QED BY <1>1, <1>2, <1>3, <1>4, <1>5 DEF ProxyInv

(* Every step keeps it.                                                    *)
LEMMA ProxyInvStep == ProxyInv /\ [ProxyNext]_allVars => ProxyInv'
<1> SUFFICES ASSUME ProxyInv, [ProxyNext]_allVars PROVE ProxyInv'
  OBVIOUS
<1>1. IInv'
  BY ProxyStepIsPipelineStep, InvStep DEF ProxyInv
<1>2. DownloadInv'
  BY ProxyStepIsPipelineStep, CallsAreFixed, KindIsFixed DEF ProxyInv, DownloadInv
<1> QED BY <1>1, <1>2, ProxyTypeStep, GrantedStep, ExceptedStep, ForwardedStep,
  RefusedStep DEF ProxyInv

(* The invariant holds throughout.                                         *)
THEOREM ProxyInvariant == ProxySpec => []ProxyInv
BY ProxyInvInit, ProxyInvStep, PTL DEF ProxySpec

-----------------------------------------------------------------------------
(* The properties.                                                         *)

(* The proxy, its API, its restarts and its synced list included, does to  *)
(* the pipeline nothing that Pipeline does not allow: whatever was proved  *)
(* of the calls of Analyze holds in both binaries (handleTarball and       *)
(* shouldBlockName only ever call Analyze).                                *)
THEOREM ProxyRunsPipeline == ProxySpec => Spec
<1>1. ProxyInit => Init
  BY DEF ProxyInit
<1> QED BY <1>1, ProxyStepIsPipelineStep, PTL DEF ProxySpec, Spec

(* The variables keep their types.                                         *)
THEOREM ProxyTypeCorrect == ProxySpec => []ProxyTypeOK
BY ProxyInvariant, PTL DEF ProxyInv

(* In both binaries, whatever the lists condemned while a scan could look  *)
(* is not answered with allow (fetchAndSwap and Analyze).                  *)
THEOREM ProxyKnownBadIsNotAllowed == ProxySpec => []KnownBadNeverAllowed
BY ProxyRunsPipeline, KnownBadIsNotAllowed, PTL

(* A condemned version that no exception ever covered does not ship in     *)
(* enforce mode (handleTarball, IsExcepted and Analyze together).          *)
THEOREM KnownBadDoesNotShip == ProxySpec => []KnownBadNotShipped
<1>1. ASSUME ProxyInv, KnownBadNeverAllowed PROVE KnownBadNotShipped
  <2> SUFFICES ASSUME Modes = {"enforce"}, NEW c \in Call,
                      kind[c] = "download", response[c] = "forwarded",
                      \A l \in inForce[result[c].id] :
                        HasCriticalOrBlock(BadlistFindings[l][pkg[c]])
               PROVE  \E g \in granted : Covers(g, pkg[c])
    BY DEF KnownBadNotShipped
  <2>1. /\ pc[c] = "done"
        /\ result[c].verdict # "block" \/ \E g \in granted : Covers(g, pkg[c])
    BY <1>1 DEF ProxyInv, ForwardedInv
  <2>2. CASE source[c] = "exception"
    BY <1>1, <2>2 DEF ProxyInv, ExceptedInv
  <2>3. CASE source[c] # "exception"
    BY <1>1, <2>1, <2>3 DEF KnownBadNeverAllowed
  <2> QED BY <2>2, <2>3
<1> QED BY <1>1, ProxyInvariant, ProxyKnownBadIsNotAllowed, PTL

(* A download is refused for a finding, and the refusal is reported        *)
(* (handleTarball, the last two branches).                                 *)
THEOREM RefusalsHaveFindings == ProxySpec => []RefusedForAFinding
BY ProxyInvariant, PTL DEF ProxyInv

(* Only a process in enforce mode refuses (handleTarball, shouldBlockName).*)
THEOREM WarnNeverRefuses == ProxySpec => WarnRefusesNothing
<1> DEFINE Refuses == \A c \in Call :
      response[c] = "none" /\ response'[c] = "forbidden" => mode = "enforce"
<1>1. ProxyInv /\ [ProxyNext]_allVars => [Refuses]_allVars
  <2> SUFFICES ASSUME ProxyInv, [ProxyNext]_allVars, NEW c \in Call,
                      response[c] = "none", response'[c] = "forbidden"
               PROVE  mode = "enforce"
    OBVIOUS
  <2> QED
    BY DEF ProxyInv, ProxyTypeOK, ProxyNext, allVars, proxyVars, FetchFails,
      FetchNotOK, Intercept, Refuse, Forward, RefuseName, ForwardMeta,
      ReportNameBlock, Lookup, Analysis, Refresh, Housekeeping, ProxyRestart,
      ServerAdds, ServerDeletes, Sync, Waiting, Respond, Blocks, ShouldBlockName
<1> QED BY <1>1, ProxyInvariant, PTL DEF ProxySpec, WarnRefusesNothing
=============================================================================
