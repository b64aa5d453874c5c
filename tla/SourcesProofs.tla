---------------------------- MODULE SourcesProofs ----------------------------
(***************************************************************************)
(* What becomes of a function's sources, whatever yarn does, whichever     *)
(* packages, functions and files there are and however often the tool is   *)
(* run: dependencies are resolved in the same way for every child, and a   *)
(* child gets the sources of its own function.                             *)
(***************************************************************************)
EXTENDS GenManifests, TLAPS

(* A package.json's dependencies, and what Create appends.                 *)
Resolved == UNION {[D -> Wanted \cup {"workspace"}] : D \in SUBSET Packages}
Manifest == [asked : Dependencies, written : Resolved]

(* What the map held at the first creation it holds ever after, and every  *)
(* manifest was resolved with it.                                          *)
IInv ==
  /\ once \in BOOLEAN
  /\ cache \in SUBSET Workspace
  /\ manifests \in Seq(Manifest)
  /\ manifests # <<>> => once
  /\ \A i \in DOMAIN manifests : manifests[i].written = Resolve(cache, manifests[i].asked)

(* One map gives one result for a package asked for in one way.            *)
LEMMA ResolvedAlike ==
  ASSUME NEW map, NEW a \in Dependencies, NEW b \in Dependencies,
         NEW p \in DOMAIN a \cap DOMAIN b, a[p] = b[p]
  PROVE  Resolve(map, a)[p] = Resolve(map, b)[p]
BY DEF Resolve

(* The result has the same keys, each kept or linked.                      *)
LEMMA ResolvedType ==
  ASSUME NEW map, NEW asked \in Dependencies
  PROVE  Resolve(map, asked) \in Resolved
<1>1. PICK D \in SUBSET Packages : asked \in [D -> Wanted]
  BY DEF Dependencies
<1>2. Resolve(map, asked) \in [D -> Wanted \cup {"workspace"}]
  BY <1>1 DEF Resolve
<1> QED BY <1>2 DEF Resolved

(* Nothing is created yet.                                                 *)
LEMMA InitHolds == Init => IInv
<1> SUFFICES ASSUME Init PROVE IInv
  OBVIOUS
<1>1. once = FALSE /\ cache = {} /\ manifests = <<>>
  BY DEF Init
<1>2. DOMAIN manifests = {} /\ manifests \in Seq(Manifest)
  BY <1>1
<1> QED BY <1>1, <1>2 DEF IInv

(* The map changes at the first creation only, when no manifest has used   *)
(* it.                                                                     *)
LEMMA CreateHolds ==
  ASSUME IInv, NEW asked \in Dependencies, NEW works \in BOOLEAN, Create(asked, works)
  PROVE  /\ IInv'
         /\ Len(manifests') = Len(manifests) + 1
         /\ manifests'[Len(manifests')].asked = asked
         /\ \A i \in DOMAIN manifests : i \in DOMAIN manifests' /\ manifests'[i] = manifests[i]
<1> DEFINE m == [asked |-> asked, written |-> Resolve(cache', asked)]
<1>1. once' = TRUE /\ cache' \in SUBSET Workspace
  BY DEF Create, Load, IInv
<1>2. manifests' = Append(manifests, m)
  BY DEF Create
<1>3. manifests = <<>> \/ cache' = cache
  BY DEF Create, Load, IInv
<1>4. manifests \in Seq(Manifest)
  BY DEF IInv
<1>5. m \in Manifest
  BY ResolvedType DEF Manifest
<1>6. /\ manifests' \in Seq(Manifest)
      /\ Len(manifests') = Len(manifests) + 1
      /\ manifests'[Len(manifests')] = m
      /\ \A i \in DOMAIN manifests : i \in DOMAIN manifests' /\ manifests'[i] = manifests[i]
  BY <1>2, <1>4, <1>5
<1>7. \A i \in DOMAIN manifests' : manifests'[i].written = Resolve(cache', manifests'[i].asked)
  <2> SUFFICES ASSUME NEW i \in DOMAIN manifests'
               PROVE  manifests'[i].written = Resolve(cache', manifests'[i].asked)
    OBVIOUS
  <2>1. CASE i = Len(manifests) + 1
    <3>1. manifests'[i] = m
      BY <1>6, <2>1
    <3> QED BY <3>1
  <2>2. CASE i # Len(manifests) + 1
    <3>1. i \in DOMAIN manifests /\ manifests'[i] = manifests[i]
      BY <1>4, <1>6, <2>2
    <3>2. cache' = cache
      BY <1>3, <3>1
    <3> QED BY <3>1, <3>2 DEF IInv
  <2> QED BY <2>1, <2>2
<1>8. IInv'
  BY <1>1, <1>6, <1>7 DEF IInv
<1> QED BY <1>6, <1>8

(* Every step keeps the invariant.                                         *)
LEMMA StepHolds == IInv /\ [Next]_vars => IInv'
<1> SUFFICES ASSUME IInv, [Next]_vars PROVE IInv'
  OBVIOUS
<1>1. CASE UNCHANGED vars
  BY <1>1 DEF vars, IInv
<1>2. CASE Next
  BY <1>2, CreateHolds DEF Next
<1> QED BY <1>1, <1>2

(* What was resolved with one map is resolved alike.                       *)
LEMMA Alike == IInv => SameDependencies
<1> SUFFICES ASSUME IInv, NEW i \in DOMAIN manifests, NEW j \in DOMAIN manifests,
                    NEW p \in DOMAIN manifests[i].asked \cap DOMAIN manifests[j].asked,
                    manifests[i].asked[p] = manifests[j].asked[p]
             PROVE  manifests[i].written[p] = manifests[j].written[p]
  BY DEF SameDependencies
<1>1. manifests[i] \in Manifest /\ manifests[j] \in Manifest
  BY DEF IInv
<1>2. Resolve(cache, manifests[i].asked)[p] = Resolve(cache, manifests[j].asked)[p]
  BY <1>1, ResolvedAlike DEF Manifest
<1> QED BY <1>2 DEF IInv

(* Two children whose specs ask for a package in the same way get the same *)
(* dependency, however often yarn failed in between.                       *)
THEOREM ResolutionStays == Spec => []SameDependencies
BY Alike, InitHolds, StepHolds, PTL DEF Spec

(* The image's packages replace nothing but what is theirs by name or was  *)
(* to be a link.                                                           *)
THEOREM VersionsStay == Spec => []UserVersionsStay
<1>1. IInv => UserVersionsStay
  <2> SUFFICES ASSUME IInv, NEW i \in DOMAIN manifests, NEW p \in DOMAIN manifests[i].asked
               PROVE  /\ manifests[i].written[p] \in {manifests[i].asked[p], "workspace"}
                      /\ p \notin Own /\ manifests[i].asked[p] = "range" =>
                           manifests[i].written[p] = "range"
    BY DEF UserVersionsStay
  <2>1. manifests[i].written = Resolve(cache, manifests[i].asked)
    BY DEF IInv
  <2> QED BY <2>1 DEF Resolve
<1> QED BY <1>1, InitHolds, StepHolds, PTL DEF Spec

-----------------------------------------------------------------------------
(* From the files of a function to its child.                              *)

(* A list is a sequence over some set, and a sequence is a list.           *)
LEMMA ListIsSeq ==
  ASSUME NEW s, IsList(s)
  PROVE  s \in Seq({s[i] : i \in 1..Len(s)})
<1>1. s \in [1..Len(s) -> {s[i] : i \in 1..Len(s)}] /\ Len(s) \in Nat
  BY DEF IsList
<1> QED BY <1>1

(* A sequence over any set is a list.                                      *)
LEMMA SeqIsList ==
  ASSUME NEW S, NEW s \in Seq(S)
  PROVE  IsList(s)
<1>1. s \in [1..Len(s) -> S] /\ Len(s) \in Nat
  OBVIOUS
<1> QED BY <1>1 DEF IsList

(* A sequence is one over a larger set.                                    *)
LEMMA SeqGrows ==
  ASSUME NEW S, NEW s \in Seq(S), NEW e
  PROVE  s \in Seq(S \cup {e})
<1>1. s \in [1..Len(s) -> S] /\ Len(s) \in Nat
  OBVIOUS
<1>2. s \in [1..Len(s) -> S \cup {e}]
  BY <1>1
<1> QED BY <1>1, <1>2

(* One thing more at the end, of any set.                                  *)
LEMMA OneMore ==
  ASSUME NEW s, IsList(s), NEW e
  PROVE  /\ IsList(Append(s, e))
         /\ \A i \in DOMAIN Append(s, e) :
              (i \in DOMAIN s /\ Append(s, e)[i] = s[i]) \/ Append(s, e)[i] = e
<1>1. PICK S : s \in Seq(S)
  BY ListIsSeq
<1>2. s \in Seq(S \cup {e})
  BY <1>1, SeqGrows
<1>3. Append(s, e) \in Seq(S \cup {e})
  BY <1>2
<1>4. IsList(Append(s, e))
  BY <1>3, SeqIsList
<1>5. \A i \in DOMAIN Append(s, e) :
        (i \in DOMAIN s /\ Append(s, e)[i] = s[i]) \/ Append(s, e)[i] = e
  BY <1>2
<1> QED BY <1>4, <1>5

(* What a directory has for the parts, as of a run.                        *)
LEMMA FilesAre ==
  ASSUME NEW owner, NEW run, NEW files \in Files(owner, run)
  PROVE  /\ files.package \in {Missing, Broken} \cup Dependencies
         /\ files.template # Missing =>
              /\ files.template.inline # Placeholder => files.template.inline.run = run
              /\ files.template.dependencies \in {Placeholder} \cup Dependencies
         /\ \A text \in {files.lock, files.tsConfig} : Usable(text) => text.run = run
<1> DEFINE text(mark, file) == IF mark = "text" THEN Text(owner, file, run) ELSE mark
           parts(t) == [inline |-> text(t.inline, "template"), dependencies |-> t.dependencies,
                        yarnLock |-> text(t.yarnLock, "template"),
                        tsConfig |-> text(t.tsConfig, "template")]
<1>1. PICK d \in Directories :
        files = [package |-> d.package, lock |-> text(d.lock, "yarn.lock"),
                 tsConfig |-> text(d.tsConfig, "tsconfig.json"),
                 template |-> IF d.template = Missing THEN Missing ELSE parts(d.template)]
  BY DEF Files
<1>2. d \in Directory
  BY DirectoriesAssumption
<1>3. files.package \in {Missing, Broken} \cup Dependencies
  BY <1>1, <1>2 DEF Directory
<1>4. ASSUME files.template # Missing
      PROVE  /\ files.template.inline # Placeholder => files.template.inline.run = run
             /\ files.template.dependencies \in {Placeholder} \cup Dependencies
  <2>1. d.template # Missing /\ files.template = parts(d.template)
    BY <1>1, <1>4
  <2>2. d.template \in Templates
    BY <1>2, <2>1 DEF Directory
  <2>3. d.template.inline \in {Placeholder, "text"}
        /\ d.template.dependencies \in {Placeholder} \cup Dependencies
    BY <2>2 DEF Templates
  <2> QED BY <2>1, <2>3 DEF Text
<1>5. ASSUME NEW t \in {files.lock, files.tsConfig}, Usable(t) PROVE t.run = run
  <2>1. d.lock \in {Missing, Unusable, "text"} /\ d.tsConfig \in {Missing, Unusable, "text"}
    BY <1>2 DEF Directory
  <2>2. PICK mark \in {Missing, Unusable, "text"}, file \in {"yarn.lock", "tsconfig.json"} :
          t = text(mark, file)
    BY <1>1, <2>1
  <2>3. mark = "text"
    BY <1>5, <2>2 DEF Usable
  <2> QED BY <2>2, <2>3 DEF Text
<1> QED BY <1>3, <1>4, <1>5

(* What a composition asks for is a map of dependencies, or still has the  *)
(* placeholder.                                                            *)
LEMMA DependenciesType ==
  ASSUME NEW package \in {Missing, Broken} \cup Dependencies
  PROVE  DependenciesOf(package) \in {Placeholder} \cup Dependencies
<1>1. CASE package \in {Missing, Broken, <<>>}
  BY <1>1 DEF DependenciesOf
<1>2. CASE package \notin {Missing, Broken, <<>>}
  <2>1. PICK D \in SUBSET Packages : package \in [D -> Wanted]
    BY <1>2 DEF Dependencies
  <2>2. DependenciesOf(package) \in [D \ {Server} -> Wanted]
    BY <1>2, <2>1 DEF DependenciesOf
  <2> QED BY <2>2 DEF Dependencies
<1> QED BY <1>1, <1>2

(* What the tool writes for a function is made of its files.               *)
LEMMA GenerateMakes ==
  ASSUME SourcesInv, NEW f \in Functions, NEW files \in Files(f, runs), NEW form \in Forms,
         f \in todo, NEW c, c = [source |-> Source(f, files, form), files |-> files, root |-> root]
  PROVE  Made(f, c)
<1> DEFINE nearest == Nearest(files.template, root.template)
           template == IF nearest = Missing THEN Packaged ELSE nearest
           package == Nearest(files.package, root.package)
           lock == Nearest(files.lock, root.lock)
<1>1. root \in Files("root", runs)
  BY DEF SourcesInv
<1>2. Template(files) = template
  BY DEF Template
<1>3. /\ c.source.inline = Code(template, f, runs)
      /\ c.source.dependencies = IF template.dependencies = Placeholder
                                 THEN DependenciesOf(package) ELSE template.dependencies
      /\ c.source.yarnLock.text = Filled(template.yarnLock, lock)
      /\ c.source.tsConfig = Filled(template.tsConfig, Nearest(files.tsConfig, root.tsConfig))
      /\ c.files = files /\ c.root = root
  BY <1>2 DEF Source
<1>4. /\ template.inline # Placeholder => template.inline.run = runs
      /\ template.dependencies \in {Placeholder} \cup Dependencies
  BY <1>1, FilesAre DEF Nearest, Packaged
<1>5. c.source.inline.run = runs
  BY <1>3, <1>4 DEF Code, Text
<1>6. c.source.dependencies \in {Placeholder} \cup Dependencies
  <2>1. package \in {Missing, Broken} \cup Dependencies
    BY <1>1, FilesAre DEF Nearest
  <2> QED BY <1>3, <1>4, <2>1, DependenciesType
<1>7. \A text \in {files.lock, root.lock, files.tsConfig, root.tsConfig} :
        Usable(text) => text.run = runs
  BY <1>1, FilesAre
<1> HIDE DEF template, package, lock
<1>8. c.source.inline = Code(template, f, c.source.inline.run)
  BY <1>3, <1>5
<1> QED BY <1>3, <1>5, <1>6, <1>7, <1>8 DEF Made, template, nearest, package, lock

(* A child keeps what it was made of as long as manifests are only added.  *)
LEMMA ChildStays ==
  ASSUME NEW c, FromComposition(c),
         \A i \in DOMAIN manifests : i \in DOMAIN manifests' /\ manifests'[i] = manifests[i]
  PROVE  FromComposition(c)'
BY DEF FromComposition, Made

(* Nothing is made at first.                                               *)
LEMMA InitSources == Init /\ CliInit => IInv /\ SourcesInv
<1> SUFFICES ASSUME Init, CliInit PROVE SourcesInv
  BY InitHolds
<1>1. IsList(children) /\ DOMAIN children = {}
  BY DEF CliInit, IsList
<1> QED BY <1>1 DEF CliInit, SourcesInv

(* The steps of the tool.                                                  *)
LEMMA ToolSteps ==
  ASSUME SourcesInv, UNCHANGED vars,
         \/ \E files \in Files("root", runs + 1) : Begin(files)
         \/ \E f \in Functions : Skip(f)
         \/ Exit
  PROVE  SourcesInv'
<1>1. UNCHANGED <<manifests, children>>
  BY DEF vars, Begin, Skip, Exit
<1>2. \A i \in DOMAIN children : FromComposition(children[i])'
  BY <1>1, ChildStays DEF SourcesInv
<1>3. CASE \E files \in Files("root", runs + 1) : Begin(files)
  BY <1>1, <1>2, <1>3 DEF Begin, SourcesInv
<1>4. CASE (\E f \in Functions : Skip(f)) \/ Exit
  BY <1>1, <1>2, <1>4 DEF Skip, Exit, SourcesInv
<1> QED BY <1>3, <1>4

(* A composition that is written keeps the invariant.                      *)
LEMMA GenerateStep ==
  ASSUME SourcesInv, UNCHANGED vars, NEW f \in Functions, NEW files \in Files(f, runs),
         NEW form \in Forms, Generate(f, files, form)
  PROVE  SourcesInv'
<1> DEFINE c == [source |-> Source(f, files, form), files |-> files, root |-> root]
<1>1. UNCHANGED <<manifests, children, root, runs>>
  BY DEF vars, Generate
<1>2. \A i \in DOMAIN children : FromComposition(children[i])'
  BY <1>1, ChildStays DEF SourcesInv
<1>3. f \in todo /\ todo' = todo \ {f} /\ generated' = [generated EXCEPT ![f] = c]
  BY DEF Generate
<1>4. Made(f, c)
  BY <1>3, GenerateMakes
<1> HIDE DEF c
<1>5. DOMAIN generated' = Functions
      /\ \A g \in Functions : generated'[g] # Nothing => Made(g, generated'[g])
  BY <1>3, <1>4 DEF SourcesInv
<1> QED BY <1>1, <1>2, <1>3, <1>5 DEF SourcesInv

(* So does a child that is created.                                        *)
LEMMA ChildStep ==
  ASSUME IInv, SourcesInv, NEW f \in Functions, NEW works \in BOOLEAN,
         NEW unwritten \in SUBSET {"yarn.lock", "tsconfig.json"}, CreateChild(f, works, unwritten)
  PROVE  IInv' /\ SourcesInv'
<1> DEFINE s == generated[f].source
           unless(file, content) == IF file \in unwritten THEN Nothing ELSE content
<1>0. PICK c : c = [fn |-> f, composition |-> generated[f], code |-> s.inline,
                    manifest |-> Len(manifests'),
                    yarnLock |-> unless("yarn.lock", YarnLock(s.yarnLock)),
                    tsConfig |-> unless("tsconfig.json", s.tsConfig)]
  OBVIOUS
<1>1. /\ generated[f] # Nothing /\ s.dependencies # Placeholder /\ Create(s.dependencies, works)
      /\ children' = Append(children, c) /\ UNCHANGED <<root, runs, todo, generated>>
  BY <1>0 DEF CreateChild
<1>2. Made(f, generated[f])
  BY <1>1 DEF SourcesInv
<1>3. s.dependencies \in Dependencies
  BY <1>1, <1>2 DEF Made
<1>4. /\ IInv'
      /\ Len(manifests') = Len(manifests) + 1
      /\ manifests'[Len(manifests')].asked = s.dependencies
      /\ \A i \in DOMAIN manifests : i \in DOMAIN manifests' /\ manifests'[i] = manifests[i]
  <2>1. Len(manifests) \in Nat
    BY DEF IInv
  <2> QED BY <1>1, <1>3, <2>1, CreateHolds
<1>5. Len(manifests') \in DOMAIN manifests'
  <2>1. Len(manifests) \in Nat /\ manifests' \in Seq(Manifest)
    BY <1>4 DEF IInv
  <2> QED BY <1>4, <2>1
<1>6. FromComposition(c)'
  BY <1>0, <1>1, <1>2, <1>4, <1>5 DEF FromComposition, YarnLock
<1>7. /\ IsList(children')
      /\ \A i \in DOMAIN children' : (i \in DOMAIN children /\ children'[i] = children[i])
                                    \/ children'[i] = c
  <2>1. IsList(children)
    BY DEF SourcesInv
  <2> QED BY <1>1, <2>1, OneMore
<1>8. \A d : FromComposition(d) => FromComposition(d)'
  BY <1>4, ChildStays
<1>9. \A i \in DOMAIN children' : FromComposition(children[i])'
  BY <1>6, <1>7, <1>8 DEF SourcesInv
<1> QED BY <1>1, <1>4, <1>7, <1>9 DEF SourcesInv, IsList

(* So does every step.                                                     *)
LEMMA SourcesStep ==
  ASSUME IInv, SourcesInv, [(Next /\ UNCHANGED cliVars) \/ CliNext]_<<vars, cliVars>>
  PROVE  IInv' /\ SourcesInv'
<1>1. CASE UNCHANGED <<vars, cliVars>>
  BY <1>1, StepHolds DEF vars, cliVars, SourcesInv, FromComposition, IsList
<1>2. CASE Next /\ UNCHANGED cliVars
  <2>1. PICK asked \in Dependencies, works \in BOOLEAN : Create(asked, works)
    BY <1>2 DEF Next
  <2>2. IInv' /\ \A i \in DOMAIN manifests : i \in DOMAIN manifests' /\ manifests'[i] = manifests[i]
    BY <2>1, CreateHolds
  <2>3. \A d : FromComposition(d) => FromComposition(d)'
    BY <2>2, ChildStays
  <2>4. \A i \in DOMAIN children : FromComposition(children[i])'
    BY <1>2, <2>3 DEF cliVars, SourcesInv
  <2> QED BY <1>2, <2>2, <2>4 DEF cliVars, SourcesInv
<1>3. CASE CliNext
  <2>1. UNCHANGED vars => IInv'
    BY StepHolds
  <2> QED BY <1>3, <2>1, ToolSteps, GenerateStep, ChildStep DEF CliNext, Forms
<1> QED BY <1>1, <1>2, <1>3

(* The child's directory, index.ts of gen-manifests and yarn.go: code,     *)
(* dependencies, lock and tsconfig of a child are what its template says   *)
(* and, where that has placeholders, its own function's files or the       *)
(* tool's, of one run, whichever of them were missing, broken, empty or    *)
(* unreadable, compressed or not written, and whenever the tool was run    *)
(* again.                                                                  *)
THEOREM SourcesReach == CliSpec => []ChildHasTheSources
<1>1. IInv /\ SourcesInv => ChildHasTheSources
  <2> SUFFICES ASSUME IInv, SourcesInv, NEW i \in DOMAIN children
               PROVE
                 LET c == children[i]
                     own == c.composition.files
                     common == c.composition.root
                     nearest == Nearest(own.template, common.template)
                     template == IF nearest = Missing THEN Packaged ELSE nearest
                     m == manifests[c.manifest]
                     package == Nearest(own.package, common.package)
                     run == c.code.run
                 IN /\ c.code = Code(template, c.fn, run)
                    /\ template.dependencies # Placeholder =>
                         DOMAIN m.written = DOMAIN template.dependencies
                    /\ template.dependencies = Placeholder =>
                         /\ DOMAIN m.written = DOMAIN package \ {Server}
                         /\ \A p \in DOMAIN m.written : m.written[p] \in {package[p], "workspace"}
                    /\ c.yarnLock # Nothing =>
                         c.yarnLock = Raw(Filled(template.yarnLock, Nearest(own.lock, common.lock)))
                    /\ Reaches(c.tsConfig,
                               Filled(template.tsConfig, Nearest(own.tsConfig, common.tsConfig)))
                    /\ \A text \in {own.lock, common.lock, own.tsConfig, common.tsConfig} :
                         Usable(text) => text.run = run
    BY DEF ChildHasTheSources
  <2> DEFINE c == children[i]
             own == c.composition.files
             common == c.composition.root
             nearest == Nearest(own.template, common.template)
             template == IF nearest = Missing THEN Packaged ELSE nearest
             m == manifests[c.manifest]
             asked == c.composition.source.dependencies
             package == Nearest(own.package, common.package)
  <2>1. FromComposition(c)
    BY DEF SourcesInv
  <2>2. m.written = Resolve(cache, asked)
    BY <2>1 DEF FromComposition, IInv
  <2>3. DOMAIN m.written = DOMAIN asked /\ \A p \in DOMAIN asked : m.written[p] \in {asked[p], "workspace"}
    BY <2>2 DEF Resolve
  <2>4. Made(c.fn, c.composition) /\ c.code = c.composition.source.inline /\ asked # Placeholder
    BY <2>1 DEF FromComposition
  <2>5. /\ c.code = Code(template, c.fn, c.code.run)
        /\ asked = IF template.dependencies = Placeholder
                   THEN DependenciesOf(package) ELSE template.dependencies
        /\ c.composition.source.yarnLock.text =
             Filled(template.yarnLock, Nearest(own.lock, common.lock))
        /\ c.composition.source.tsConfig =
             Filled(template.tsConfig, Nearest(own.tsConfig, common.tsConfig))
        /\ \A text \in {own.lock, common.lock, own.tsConfig, common.tsConfig} :
             Usable(text) => text.run = c.code.run
    BY <2>4 DEF Made
  <2>6. template.dependencies # Placeholder => DOMAIN m.written = DOMAIN template.dependencies
    BY <2>3, <2>5
  <2>7. ASSUME template.dependencies = Placeholder
        PROVE  /\ DOMAIN m.written = DOMAIN package \ {Server}
               /\ \A p \in DOMAIN m.written : m.written[p] \in {package[p], "workspace"}
    <3>1. asked = DependenciesOf(package)
      BY <2>5, <2>7
    <3>2. asked = [p \in DOMAIN package \ {Server} |-> package[p]]
      BY <2>4, <3>1 DEF DependenciesOf
    <3> QED BY <2>3, <3>2
  <2>8. c.yarnLock # Nothing => c.yarnLock = Raw(c.composition.source.yarnLock.text)
    BY <2>1 DEF FromComposition, YarnLock
  <2>9. Reaches(c.tsConfig, c.composition.source.tsConfig)
    BY <2>1 DEF FromComposition, Reaches
  <2> HIDE DEF template, package, m, asked
  <2>10. c.yarnLock # Nothing =>
           c.yarnLock = Raw(Filled(template.yarnLock, Nearest(own.lock, common.lock)))
    BY <2>5, <2>8
  <2>11. Reaches(c.tsConfig, Filled(template.tsConfig, Nearest(own.tsConfig, common.tsConfig)))
    BY <2>5, <2>9
  <2> QED BY <2>5, <2>6, <2>7, <2>10, <2>11 DEF template, nearest, package, m
<1> QED BY <1>1, InitSources, SourcesStep, PTL DEF CliSpec

(* The same of children that come from compositions as of any others.      *)
THEOREM ResolutionStaysForCompositions == CliSpec => []SameDependencies
<1> QED BY Alike, InitSources, SourcesStep, PTL DEF CliSpec
=============================================================================
