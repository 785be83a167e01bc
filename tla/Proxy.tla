------------------------------- MODULE Proxy -------------------------------
(***************************************************************************)
(* The registry proxy (internal/proxy/proxy.go) over the pipeline, with    *)
(* the exception list it caches from the central server                    *)
(* (internal/reporter/exceptions.go) and the reports it hands over         *)
(* (internal/reporter/reporter.go; their delivery is module Team).         *)
(*                                                                         *)
(* Both binaries run this proxy.  The standalone proxy (cmd/proxy,         *)
(* HasServer) keeps a private database without an API, so its exception    *)
(* table stays empty, and syncs the server's list.  The proxy inside the   *)
(* server (cmd/server, ~HasServer) has no ExceptionCache and no Reporter,  *)
(* and shares database and pipeline with the API.                          *)
(*                                                                         *)
(* A call of the pipeline belongs to a request, its kind: "download" is a  *)
(* tarball passing through handleTarball, "meta" a metadata request that   *)
(* handleNPMMeta or handlePyPISimple checks by name (its call only records *)
(* the block), "lookup" a scan through the API.                            *)
(***************************************************************************)
EXTENDS Pipeline

CONSTANTS
  HasServer,           \* SHIELD_SERVER_URL is set
  ServerExceptionIds   \* ids of the exceptions on the central server

ASSUME ServerAssumption ==
  /\ HasServer \in BOOLEAN
  /\ HasServer => ExceptionIds = {}
  /\ ~HasServer => ServerExceptionIds = {}

VARIABLES
  kind,              \* what each call is made for
  response,          \* what the client of the request got; "closed": it was
                     \* forbidden, by a process that no longer runs
  serverExceptions,  \* the list GET /api/v1/proxy/exceptions returns
  synced,            \* ExceptionCache.exceptions
  outbox,            \* results and download events given to the Reporter
  granted            \* auxiliary: every exception there ever was

proxyVars == <<kind, response, serverExceptions, synced, outbox, granted>>
allVars == <<vars, proxyVars>>

Kind == {"download", "meta", "lookup"}
Response ==
  {"none", "forwarded", "forbidden", "bad_gateway", "unscanned", "dropped", "closed"}
ServerException ==
  [id : ServerExceptionIds, name : Names, version : Versions \cup {NoVersion},
   expiresAt : {Never}]
Message == [call : Call, what : {"result", "download"}]

ProxyTypeOK ==
  /\ TypeOK
  /\ kind \in [Call -> Kind]
  /\ response \in [Call -> Response]
  /\ serverExceptions \subseteq ServerException
  /\ synced \subseteq ServerException
  /\ outbox \subseteq Message
  /\ granted \subseteq Exception \cup ServerException

(* A download carries bytes and a version, a metadata request neither; the *)
(* standalone proxy has no API to look a package up.                       *)
ProxyInit ==
  /\ Init
  /\ kind \in {k \in [Call -> Kind] : \A c \in Call :
       /\ k[c] = "download" => tarball[c]
       /\ k[c] = "meta" => pkg[c].version = NoVersion /\ ~tarball[c]
       /\ k[c] = "lookup" => ~HasServer}
  /\ response = [c \in Call |-> "none"]
  /\ serverExceptions = {}
  /\ synced = {}
  /\ outbox = {}
  /\ granted = {}

-----------------------------------------------------------------------------
(* Mutant: any exception of the name will do.                              *)
IsExcepted_AnyVersion(p) == \E e \in synced : e.name = p.name

(* ExceptionCache.IsExcepted: a stored wildcard matches every version, and *)
(* a caller without a version matches every stored exception of the name.  *)
IsExcepted(p) ==
  \E e \in synced :
    /\ e.name = p.name
    /\ e.version = NoVersion \/ p.version = NoVersion \/ e.version = p.version

Respond(c, what) == response' = [response EXCEPT ![c] = what]

Send(messages) == outbox' = IF HasServer THEN outbox \cup messages ELSE outbox

-----------------------------------------------------------------------------
(* handleTarball.                                                          *)

Waiting(c, k) == kind[c] = k /\ response[c] = "none"

(* Upstream is unreachable, or its body cannot be read.                    *)
FetchFails(c) ==
  /\ Waiting(c, "download") /\ pc[c] = "idle"
  /\ Respond(c, "bad_gateway")
  /\ UNCHANGED <<vars, kind, serverExceptions, synced, outbox, granted>>

(* A status other than 200 goes to the client as it is.                    *)
FetchNotOK(c) ==
  /\ Waiting(c, "download") /\ pc[c] = "idle"
  /\ Respond(c, "unscanned")
  /\ UNCHANGED <<vars, kind, serverExceptions, synced, outbox, granted>>

Intercept(c) ==
  /\ Waiting(c, "download")
  /\ Begin(c)
  /\ UNCHANGED proxyVars

(* Mutant: the verdict alone decides, since only enforce mode computes     *)
(* block.                                                                  *)
Blocks_ByVerdict(c) == result[c].verdict = "block"

Blocks(c) == result[c].verdict = "block" /\ mode = "enforce"

(* Mutant: a message that names the scan and not the call.                 *)
Reports_Scan(c) == Send({[scan |-> result[c].id, what |-> "result"]})

Reports(c) ==
  Send({[call |-> c, what |-> "result"], [call |-> c, what |-> "download"]})

(* Mutant: the 403 is written before anything is reported.                 *)
Refuse_Unreported(c) ==
  /\ Waiting(c, "download") /\ pc[c] = "done"
  /\ Blocks(c) /\ ~IsExcepted(pkg[c])
  /\ Respond(c, "forbidden")
  /\ UNCHANGED <<vars, kind, serverExceptions, synced, outbox, granted>>

(* Analyze has answered; it never returns an error, so the branch for one  *)
(* is not reached.                                                         *)
Refuse(c) ==
  /\ Waiting(c, "download") /\ pc[c] = "done"
  /\ Blocks(c) /\ ~IsExcepted(pkg[c])
  /\ Respond(c, "forbidden")
  /\ Reports(c)
  /\ UNCHANGED <<vars, kind, serverExceptions, synced, granted>>

Forward(c) ==
  /\ Waiting(c, "download") /\ pc[c] = "done"
  /\ ~Blocks(c) \/ IsExcepted(pkg[c])
  /\ Respond(c, "forwarded")
  /\ Reports(c)
  /\ UNCHANGED <<vars, kind, serverExceptions, synced, granted>>

-----------------------------------------------------------------------------
(* handleNPMMeta and handlePyPISimple.                                     *)

(* shouldBlockName: tier 1 alone, then the synced exceptions, then the     *)
(* mode.                                                                   *)
ShouldBlockName(p) ==
  /\ HasCriticalOrBlock(BadlistFindings[list][p])
  /\ ~IsExcepted(p)
  /\ mode = "enforce"

(* The client is refused at once; a goroutine analyses the bare name.      *)
RefuseName(c) ==
  /\ Waiting(c, "meta")
  /\ ShouldBlockName(pkg[c])
  /\ Respond(c, "forbidden")
  /\ Begin(c)
  /\ UNCHANGED <<kind, serverExceptions, synced, outbox, granted>>

(* The metadata is fetched, rewritten and forwarded; nothing is analysed.  *)
ForwardMeta(c) ==
  /\ Waiting(c, "meta") /\ pc[c] = "idle"
  /\ ~ShouldBlockName(pkg[c])
  /\ Respond(c, "forwarded")
  /\ UNCHANGED <<vars, kind, serverExceptions, synced, outbox, granted>>

(* The goroutine of a name block reports what it found.                    *)
ReportNameBlock(c) ==
  /\ kind[c] = "meta" /\ response[c] = "forbidden" /\ pc[c] = "done"
  /\ [call |-> c, what |-> "result"] \notin outbox
  /\ HasServer /\ Send({[call |-> c, what |-> "result"]})
  /\ UNCHANGED <<vars, kind, response, serverExceptions, synced, granted>>

-----------------------------------------------------------------------------
(* The API of the server binary, and the pipeline's own steps.             *)

Lookup(c) ==
  /\ kind[c] = "lookup"
  /\ Begin(c)
  /\ UNCHANGED proxyVars

(* Downloads get 45 seconds and lookups the context of their request; the  *)
(* recording of a name block runs under a context that never expires.      *)
Analysis ==
  /\ \E c \in Call : Advance(c) \/ (kind[c] # "meta" /\ Deadline(c))
  /\ UNCHANGED proxyVars

Refresh == RefreshList /\ UNCHANGED proxyVars

Housekeeping ==
  /\ Environment
  /\ granted' = granted \cup exceptions'
  /\ UNCHANGED <<kind, response, serverExceptions, synced, outbox>>

(* The process dies with its connections, goroutines and exception list;   *)
(* the new one fetches the list before it serves, and starts empty when    *)
(* the server does not answer.                                             *)
ProxyRestart ==
  /\ Restart
  /\ response' = [c \in Call |->
       CASE kind[c] = "download" /\ response[c] = "none" /\ pc[c] # "idle" -> "dropped"
         [] kind[c] = "meta" /\ response[c] = "forbidden" -> "closed"
         [] OTHER -> response[c]]
  /\ synced' \in {serverExceptions, {}}
  /\ UNCHANGED <<kind, serverExceptions, outbox, granted>>

-----------------------------------------------------------------------------
(* The central server's list, and its copy.                                *)

ServerAdds ==
  \E id \in ServerExceptionIds, name \in Names, version \in Versions \cup {NoVersion} :
    LET e == [id |-> id, name |-> name, version |-> version, expiresAt |-> Never]
    IN  /\ \A f \in serverExceptions : f.id # id
        /\ serverExceptions' = serverExceptions \cup {e}
        /\ granted' = granted \cup {e}
        /\ UNCHANGED <<vars, kind, response, synced, outbox>>

ServerDeletes ==
  \E e \in serverExceptions :
    /\ serverExceptions' = serverExceptions \ {e}
    /\ UNCHANGED <<vars, kind, response, synced, outbox, granted>>

(* Mutant: refresh adds to the list and never forgets.                     *)
Sync_Merges ==
  /\ HasServer
  /\ synced' = synced \cup serverExceptions
  /\ UNCHANGED <<vars, kind, response, serverExceptions, outbox, granted>>

(* refresh replaces the whole list; any failure keeps the stale one, which *)
(* is a stuttering step.                                                   *)
Sync ==
  /\ HasServer
  /\ synced' = serverExceptions
  /\ UNCHANGED <<vars, kind, response, serverExceptions, outbox, granted>>

ProxyNext ==
  \/ \E c \in Call : \/ FetchFails(c) \/ FetchNotOK(c) \/ Intercept(c)
                     \/ Refuse(c) \/ Forward(c)
                     \/ RefuseName(c) \/ ForwardMeta(c) \/ ReportNameBlock(c)
                     \/ Lookup(c)
  \/ Analysis
  \/ Refresh
  \/ Housekeeping
  \/ ProxyRestart
  \/ ServerAdds \/ ServerDeletes \/ Sync

ProxySpec == ProxyInit /\ [][ProxyNext]_allVars

(* Every tier and every store access returns, since the clients of the     *)
(* network carry timeouts and the rest is local, and the goroutine of a    *)
(* request runs on to its answer.  The ticker of the exception cache never *)
(* stops, and the server answers it again and again.                       *)
FairProxySpec ==
  /\ ProxySpec
  /\ \A c \in Call : WF_allVars(Advance(c) /\ UNCHANGED proxyVars)
                     /\ WF_allVars(Refuse(c) \/ Forward(c))
  /\ WF_allVars(Sync)

-----------------------------------------------------------------------------
(* Properties.                                                             *)

Covers(e, p) == e.name = p.name /\ e.version \in {p.version, NoVersion}

(* A version that nobody ever excepted, and that every list condemned which*)
(* its scan could look at, is not shipped by a deployment in enforce mode: *)
(* not through the metadata check that any exception of the name opens, not*)
(* from the cache, not after failures, restarts or a swap of the list      *)
(* (handleTarball, IsExcepted and Analyze together).                       *)
KnownBadNotShipped ==
  Modes = {"enforce"} =>
    \A c \in Call :
      /\ kind[c] = "download" /\ response[c] = "forwarded"
      /\ \A l \in inForce[result[c].id] :
           HasCriticalOrBlock(BadlistFindings[l][pkg[c]])
      => \E g \in granted : Covers(g, pkg[c])

(* A refused download was analysed, by a scan that blocks it: a timeout or *)
(* an error by itself refuses nothing, and the verdict was reached by an   *)
(* enforcing process (handleTarball, the last two branches).               *)
RefusedForAFinding ==
  \A c \in Call : kind[c] = "download" /\ response[c] = "forbidden" =>
    /\ pc[c] = "done" /\ HasCriticalOrBlock(result[c].findings)
    /\ HasServer => \A w \in {"result", "download"} :
         [call |-> c, what |-> w] \in outbox

(* A process in warn or audit mode refuses no download.  Its pipeline may  *)
(* well answer block, from a row that an enforcing process left in the     *)
(* database; only the proxy's own look at its mode stands between that     *)
(* answer and the client (handleTarball and computeVerdict).               *)
WarnRefusesNothing ==
  [][\A c \in Call : response[c] = "none" /\ response'[c] = "forbidden" =>
       mode = "enforce"]_allVars

(* A request whose analysis has begun is answered, whatever fails, unless  *)
(* the process dies under it: no tier, no failure and no verdict leaves    *)
(* the client of a download waiting, and no recording of a name block      *)
(* hangs (handleTarball and Analyze together).                             *)
EveryRequestAnswered ==
  \A c \in Call : pc[c] = "cache" ~>
    \/ pc[c] = "killed"
    \/ pc[c] = "done" /\ (kind[c] = "download" => response[c] # "none")

(* The proxy follows the server: an exception that stays on the server is  *)
(* in force again and again, however often the proxy restarts without      *)
(* reaching it, and one that stays away is out of force for good           *)
(* (README.md, "exceptions sync to all developer proxies").                *)
ExceptionsFollowServer ==
  \A e \in ServerException :
    /\ <>[](e \in serverExceptions) => []<>(e \in synced)
    /\ <>[](e \notin serverExceptions) => <>[](e \notin synced)

-----------------------------------------------------------------------------
(* What the code and the documentation say, each refuted by a run.         *)

(* proxy.go: "enforce mode fails closed: an unscanned package is blocked,  *)
(* not shipped."  Analyze swallows the failure of every tier.              *)
FailsClosed ==
  \A c \in Call :
    kind[c] = "download" /\ response[c] = "forwarded" /\ Modes = {"enforce"} =>
      failed[c] \cap {"cve", "heuristic", "claude"} = {}

(* README.md: "Exceptions are respected at both interception points."  The *)
(* name check of the server's own proxy has no list to ask.                *)
ExceptionsRespectedByName ==
  [][\A c \in Call :
       kind[c] = "meta" /\ response[c] = "none" /\ response'[c] = "forbidden" =>
         MatchingExceptions(pkg[c]) = {}]_allVars
=============================================================================
