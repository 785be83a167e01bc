---------------------------- MODULE MCAlgorithms ----------------------------
(* Inputs for Algorithms.  Two letters that differ in case stand for all.  *)
EXTENDS Algorithms

n1 == <<"A", "_">>
n2 == <<"a">>
v1 == <<"1">>
v2 == <<"2">>

MCLetters == {"a", "A"}
MCLower == [l \in {"a", "A", "_", ".", "-"} |-> IF l = "A" THEN "a" ELSE l]

MCVersions == {"1", "2"}
MCEntries ==
  {[name |-> <<"a", "a", "a">>, version |-> "1", severity |-> "critical"],
   [name |-> <<"a", "A", "a">>, version |-> "2", severity |-> "medium"],
   [name |-> <<"a", "a">>, version |-> AnyVersion, severity |-> "high"]}

File(hooks, patterns, kind) ==
  [kind |-> kind, hooks |-> hooks, matches |-> patterns, readme |-> FALSE, binary |-> FALSE]
(* A README, a README that is a script, and a compiled addon.              *)
MCArchiveFiles ==
  {File([install |-> {"remote"}], {}, "package.json"),
   File([preinstall |-> {}, postinstall |-> {}], {}, "package.json"),
   File([h \in Hook |-> {"child"}], {}, "package.json"),
   File(<<>>, {"network", "base64"}, "install"),
   File(<<>>, {"network", "staging"}, "source"),
   [File(<<>>, {"webhook"}, "other") EXCEPT !.readme = TRUE],
   [File(<<>>, {"staging"}, "source") EXCEPT !.readme = TRUE],
   [File(<<>>, {}, "other") EXCEPT !.binary = TRUE]}

Source(scripts, suspicious) == [scripts |-> scripts, suspicious |-> suspicious]
MCClaudeFiles ==
  {Source(<<>>, TRUE), Source(<<>>, FALSE),
   Source([install |-> "node", postinstall |-> "curl"], FALSE),
   Source([install |-> "make"], FALSE),
   Source([setup |-> "code"], TRUE)}

MCPoetryLines ==
  {[is |-> "package"], [is |-> "other"], [is |-> "dev"], [is |-> "blank"],
   [is |-> "name", value |-> n1], [is |-> "version", value |-> v1],
   [is |-> "version", value |-> v2]}
MCYarnLines ==
  {[is |-> "header", value |-> n1], [is |-> "header", value |-> n2],
   [is |-> "header", value |-> NoText],
   [is |-> "version", value |-> v1], [is |-> "version", value |-> v2],
   [is |-> "version", value |-> NoText], [is |-> "other"]}

Entry(path, version, dev, peer) ==
  [path |-> path, version |-> version, dev |-> dev, peer |-> peer, optional |-> FALSE]
MCNPMEntries ==
  {Entry(<<>>, <<"1">>, FALSE, FALSE),
   Entry(<<NodeModules, "a">>, <<"1", "1">>, FALSE, FALSE),
   Entry(<<NodeModules, "a", "1">>, <<"1">>, FALSE, FALSE),
   Entry(<<NodeModules, "a", NodeModules, "b">>, <<"1">>, FALSE, FALSE),
   Entry(<<NodeModules, "a">>, <<"1">>, FALSE, TRUE),
   Entry(<<"a">>, <<"1">>, FALSE, FALSE),
   Entry(<<NodeModules, "a">>, <<"1">>, FALSE, FALSE),
   Entry(<<NodeModules, "b">>, <<"1">>, TRUE, FALSE),
   Entry(<<NodeModules, "c">>, <<>>, FALSE, FALSE)}

MCPiece == {"", "a", "my_a", "my", "@s", "1.0", "2", "rc.1", "py3", "simple", "packages",
            "b", "c"}
MCNormal == [p \in MCPiece |-> IF p = "my_a" THEN <<"my", "a">> ELSE <<p>>]
MCNPMNames ==
  {<<<<"a">>>>, <<<<"@s">>, <<"a">>>>, <<<<"a", "2">>>>, <<<<"my_a", "a">>>>,
   <<Simple>>, <<PackagesDir>>, <<<<"@s">>, Simple>>}
MCNPMVersions ==
  {<<"1.0">>, <<"1.0", "rc.1">>, <<"1.0", "2">>, <<"1.0", "rc.1", "2">>}
Upload(type, name, tags, ending) ==
  [type |-> type, name |-> name, version |-> "1.0", tags |-> tags, ending |-> ending]
MCPyPIFiles ==
  <<"my", "a">> :>
    {Upload("sdist", <<"my", "a">>, <<>>, "tar.gz"), Upload("sdist", <<"my_a">>, <<>>, "tar.gz"),
     Upload("sdist", <<"my_a">>, <<>>, "zip"),
     Upload("bdist_wheel", <<"my_a">>, <<"py3", "a">>, "whl"),
     Upload("bdist_egg", <<"my_a">>, <<"py3">>, "egg")}
  @@ <<"a">> :>
    {Upload("sdist", <<"a">>, <<>>, "tar.gz"), Upload("bdist_wheel", <<"a">>, <<"2", "py3">>, "whl")}

MCPyPINames == BoundedSeq({"a", "A", "_", ".", "-"}, 3)
=============================================================================
