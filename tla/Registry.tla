------------------------------ MODULE Registry ------------------------------
(***************************************************************************)
(* Requests to the registries: what the proxy takes a path for             *)
(* (internal/proxy/proxy.go), which archive the server fetches itself      *)
(* (internal/registry/tarball.go), and how a request gets through an       *)
(* upstream proxy (resilientTransport).                                    *)
(*                                                                         *)
(* A segment of a path is cut at its dashes into pieces, since that is     *)
(* where the regular expressions look; the segment "-" is two empty pieces.*)
(* The ending of the last segment is kept apart.                           *)
(***************************************************************************)
EXTENDS Naturals, Sequences, SequencesExt, FiniteSetsExt

CONSTANTS
  Piece,       \* what stands between two dashes
  Numeric,     \* pieces that begin with a digit
  ScopeNames,  \* pieces that begin with @
  Normal       \* a piece with normalizePyPI applied: its pieces

Dash == <<"", "">>
Simple == <<"simple">>
PackagesDir == <<"packages">>

(* A path, and what serve makes of it.                                     *)
Path(segments, ending) == [segments |-> segments, ending |-> ending]

StartsWith(path, segment) == Len(path.segments) > 1 /\ path.segments[1] = segment

IsScope(segment) == segment[1] \in ScopeNames

(* The capture of a package name at the start of a path: one segment, or a *)
(* scope and the next.                                                     *)
NameLength(path) ==
  IF path.segments = <<>> THEN 0
  ELSE IF ~IsScope(path.segments[1]) THEN 1
  ELSE IF Len(path.segments) > 1 THEN 2 ELSE 0

-----------------------------------------------------------------------------
(* detectTarball.                                                          *)

(* Mutant: the shortest prefix of the file name, not the longest.          *)
VersionStart_First(stem) ==
  LET starts == {i \in 2..Len(stem) : stem[i] \in Numeric}
  IN  IF starts = {} THEN 0 ELSE Min(starts)

(* npmTarballRe: the version begins at the last piece with a digit.        *)
VersionStart(stem) ==
  LET starts == {i \in 2..Len(stem) : stem[i] \in Numeric}
  IN  IF starts = {} THEN 0 ELSE Max(starts)

NotATarball == [to |-> "none"]

DetectNPM(path) ==
  LET n == NameLength(path)
      stem == Last(path.segments)
  IN  IF /\ n > 0 /\ path.ending = "tgz"
         /\ Len(path.segments) = n + 2 /\ path.segments[n + 1] = Dash
         /\ VersionStart(stem) > 0
      THEN [to |-> "tarball", eco |-> "npm", name |-> SubSeq(path.segments, 1, n),
            version |-> SubSeq(stem, VersionStart(stem), Len(stem))]
      ELSE NotATarball

(* pypiTarballRe, and normalizePyPI of the name.                           *)
DetectPyPI(path) ==
  LET n == Len(path.segments)
      stem == Last(path.segments)
  IN  IF /\ n >= 5 /\ path.segments[n - 4] = PackagesDir
         /\ path.ending \in {"tar.gz", "whl"}
         /\ Len(stem) > 1 /\ stem[1] # "" /\ stem[2] # ""
      THEN [to |-> "tarball", eco |-> "pypi", name |-> <<Normal[stem[1]]>>,
            version |-> <<stem[2]>>]
      ELSE NotATarball

DetectTarball(path) ==
  IF DetectNPM(path) # NotATarball THEN DetectNPM(path) ELSE DetectPyPI(path)

-----------------------------------------------------------------------------
(* serve, of a GET request.                                                *)

IsPyPIPath(path) == StartsWith(path, Simple) \/ StartsWith(path, PackagesDir)

UpstreamHost(path) ==
  IF StartsWith(path, PackagesDir) THEN "files.pythonhosted.org"
  ELSE IF StartsWith(path, Simple) THEN "pypi.org"
  ELSE "registry.npmjs.org"

DetectNPMMeta(path) ==
  IF DetectNPM(path) # NotATarball \/ IsPyPIPath(path) \/ NameLength(path) = 0
  THEN NotATarball
  ELSE [to |-> "meta", eco |-> "npm", name |-> SubSeq(path.segments, 1, NameLength(path))]

(* The handler, with the package it is called for; what matches nothing is *)
(* forwarded without a look.                                               *)
Serve(path) ==
  IF StartsWith(path, Simple)
  THEN [to |-> "meta", eco |-> "pypi", name |-> <<path.segments[2]>>]
  ELSE IF DetectTarball(path) # NotATarball THEN DetectTarball(path)
  ELSE DetectNPMMeta(path)

-----------------------------------------------------------------------------
(* FetchTarball and ResolvePyPITarball.                                    *)

(* A scoped package has its bare name in the file name.                    *)
NPMTarball(name, version) == Path(name \o <<Dash, Last(name) \o version>>, "tgz")

(* The first sdist, or else the first wheel; 0 when there is neither.      *)
ResolvePyPITarball(files) ==
  LET sdist == SelectInSeq(files, LAMBDA f : f.type = "sdist")
  IN  IF sdist # 0 THEN sdist
      ELSE SelectInSeq(files, LAMBDA f : f.type = "bdist_wheel")

-----------------------------------------------------------------------------
(* resilientTransport.  A body is what the client sent ("none" is          *)
(* http.NoBody, which is not nil) or nil for a request the proxy made.     *)

(* What the handlers pass on: the page of PyPI is asked for with a request *)
(* of its own, the transparent path buffers up to 1 MB.                    *)
Outgoing(handler, body) ==
  CASE handler = "simple" -> [body |-> "nil", replayable |-> TRUE]
    [] handler = "transparent" /\ body \notin {"none", "nil"} ->
         [body |-> IF body = "large" THEN "cut" ELSE body, replayable |-> TRUE]
    [] OTHER -> [body |-> body, replayable |-> body = "nil"]

(* Mutant: whatever the body, try again.                                   *)
RoundTrip_Always(out, config, proxied, direct) ==
  IF config # "proxy" THEN [sent |-> <<"direct">>, answer |-> direct]
  ELSE IF proxied = "error" THEN [sent |-> <<"proxied", "direct">>, answer |-> direct]
  ELSE [sent |-> <<"proxied">>, answer |-> IF proxied = "407" THEN "error" ELSE proxied]

(* Whom the request went to, and what came of it.                          *)
RoundTrip(out, config, proxied, direct) ==
  IF config # "proxy" THEN [sent |-> <<"direct">>, answer |-> direct]
  ELSE IF proxied = "error" /\ out.replayable
  THEN [sent |-> <<"proxied", "direct">>, answer |-> direct]
  ELSE [sent |-> <<"proxied">>,
        answer |-> IF proxied = "407" THEN "error" ELSE proxied]
=============================================================================
