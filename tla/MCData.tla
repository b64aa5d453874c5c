-------------------------------- MODULE MCData -------------------------------
(* Instance for TLC of the modules about data: lists and trees             *)
(* (Versions, FieldRefs, ObservedErrors, Redaction), what is logged        *)
(* (Logging), and the way of a function's sources (GenManifests).  They    *)
(* have nothing to do with each other: a behaviour is one of one of them.  *)
EXTENDS Versions, FieldRefs, ObservedErrors, Redaction, Logging, GenManifests, TLC

VARIABLE part

(* A resource of its own kind and one more.                                *)
MCRefs == <<"bucket", "object">>

(* Three levels of maps and arrays.                                        *)
MCWidths == <<2, 2, 1>>
MCEntries == <<1, 2, 1>>

(* Directories: with nothing in them, with all files, with files that are  *)
(* of no use; with a template that leaves everything to the tool, that     *)
(* leaves it some parts, or none.                                          *)
MCListed == "lodash" :> "range" @@ "server" :> "range"
MCLinked == "@crossplane-js/sdk" :> "link" @@ "lodash" :> "range"

MCHolding(package, lock, tsConfig, template) ==
  [package |-> package, lock |-> lock, tsConfig |-> tsConfig, template |-> template]

MCDirectories ==
  {MCHolding(Missing, Missing, Missing, Missing),
   MCHolding(MCListed, "text", "text", Missing),
   MCHolding(Broken, Unusable, Unusable, Packaged),
   MCHolding(<<>>, "text", Unusable, Missing),
   MCHolding(MCLinked, Missing, "text",
     [Packaged EXCEPT !.inline = "text", !.tsConfig = Nothing]),
   MCHolding(MCLinked, Unusable, "text",
     [Packaged EXCEPT !.dependencies = MCLinked, !.yarnLock = "text"]),
   MCHolding(MCListed, "text", "text",
     [inline |-> "text", dependencies |-> <<>>, yarnLock |-> Nothing, tsConfig |-> "text"])}

MCInit ==
  /\ part \in {"versions", "refs", "errors", "payloads", "lines", "contexts", "sources"}
  /\ VersionInit /\ UpdateInit /\ ReportInit /\ IOInit /\ LogInit /\ Errs!Init /\ Init /\ CliInit
  /\ part # "lines" => stream = "stdout"

(* Children with any dependencies, or the first child of a generated       *)
(* composition.                                                            *)
MCSourcesNext ==
  \/ runs = 0 /\ Next /\ UNCHANGED cliVars
  \/ manifests = <<>> /\ CliNext

MCNext ==
  /\ UNCHANGED part
  /\ IF part = "versions" THEN VersionNext ELSE UNCHANGED versionVars
  /\ IF part = "refs" THEN UpdateNext ELSE UNCHANGED updateVars
  /\ IF part = "errors" THEN ReportNext ELSE UNCHANGED reportVars
  /\ IF part = "payloads" THEN IONext ELSE UNCHANGED ioVars
  /\ IF part = "lines" THEN LogNext ELSE UNCHANGED logVars
  /\ IF part = "contexts" THEN Errs!Next ELSE UNCHANGED errsVars
  /\ IF part = "sources" THEN MCSourcesNext ELSE UNCHANGED <<vars, cliVars>>

MCVars == <<part, versionVars, updateVars, reportVars, ioVars, logVars, errsVars, vars, cliVars>>

MCSpec == MCInit /\ [][MCNext]_MCVars
=============================================================================
