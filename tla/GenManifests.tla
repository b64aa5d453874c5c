----------------------------- MODULE GenManifests ----------------------------
(***************************************************************************)
(* From a developer's directory to a child's: `gen-manifests` of the       *)
(* command line tool (packages/cli) writes a composition for every         *)
(* function, and the server makes the directory of a child from what is    *)
(* in it (pkg/node/yarn.go and, for the dependencies, Workspaces).  The    *)
(* tool is run again after edits; compositions may be applied at any time. *)
(***************************************************************************)
EXTENDS Workspaces

CONSTANTS
  Functions,    \* the directories below functions/
  Directories,  \* what a directory may hold of what the tool reads
  Server,       \* the name "xfuncjs-server", which is never passed on
  Missing,      \* no such file
  Broken,       \* a package.json that does not parse
  Unusable,     \* a file that is there, but is empty or cannot be read
  Placeholder,  \* what a template has where a part belongs
  Nothing,      \* no value: a part left out, nothing generated, no file
  MaxRuns       \* bound: runs of the tool

(* A part of a template is its placeholder, what the author wrote or       *)
(* nothing.  A function's template is its composition.yaml; next to the    *)
(* directory functions/ it is composition.default.yaml.                    *)
Templates ==
  [inline : {Placeholder, "text"}, dependencies : {Placeholder} \cup Dependencies,
   yarnLock : {Placeholder, "text", Nothing}, tsConfig : {Placeholder, "text", Nothing}]

Directory ==
  [package : {Missing, Broken} \cup Dependencies, lock : {Missing, Unusable, "text"},
   tsConfig : {Missing, Unusable, "text"}, template : {Missing} \cup Templates]

ASSUME DirectoriesAssumption == Directories \subseteq Directory

VARIABLES
  root,        \* files in the directory the tool is run in
  runs,        \* how many runs have begun
  todo,        \* directories the running tool has not come to
  generated,   \* the directory manifests/: a composition per function
  children     \* history: what the server made of compositions

cliVars == <<root, runs, todo, generated, children>>

(* A file's text: whose it is, and as of which run of the tool; and what   *)
(* is written for it.                                                      *)
Text(owner, file, run) == [owner |-> owner, file |-> file, run |-> run]
Raw(text) == [form |-> "raw", text |-> text]
Forms == {"gzip", "raw"}

(* The files of a directory as of a run.                                   *)
Files(owner, run) ==
  LET text(mark, file) == IF mark = "text" THEN Text(owner, file, run) ELSE mark
      parts(t) == [inline |-> text(t.inline, "template"), dependencies |-> t.dependencies,
                   yarnLock |-> text(t.yarnLock, "template"),
                   tsConfig |-> text(t.tsConfig, "template")]
  IN {[package |-> d.package, lock |-> text(d.lock, "yarn.lock"),
       tsConfig |-> text(d.tsConfig, "tsconfig.json"),
       template |-> IF d.template = Missing THEN Missing ELSE parts(d.template)] :
        d \in Directories}

CliInit ==
  /\ root = Nothing /\ runs = 0 /\ todo = {} /\ children = <<>>
  /\ generated = [f \in Functions |-> Nothing]

(* The template that comes with the tool has all placeholders.             *)
Packaged == [inline |-> Placeholder, dependencies |-> Placeholder,
             yarnLock |-> Placeholder, tsConfig |-> Placeholder]

(* A function's own file goes before the one of the working directory,     *)
(* whatever is in it.                                                      *)
Nearest(own, common) == IF own # Missing THEN own ELSE common

(* Faulty variant: the tool's template is parsed once, and what was put    *)
(* into it for one function is found there by the next.                    *)
TemplateOnce(files) ==
  LET before == {g \in Functions : generated[g] # Nothing /\ generated[g].files.template = Missing}
      template == Nearest(files.template, root.template)
  IN IF template # Missing THEN template
     ELSE IF before = {} THEN Packaged
     ELSE [generated[CHOOSE g \in before : TRUE].source EXCEPT !.yarnLock = @.text]

(* A template is read for every function: its own, the common one, or the  *)
(* one that comes with the tool.                                           *)
Template(files) ==
  LET template == Nearest(files.template, root.template)
  IN IF template = Missing THEN Packaged ELSE template

(* __DEPENDENCIES__ stays when the nearest package.json lists none.        *)
DependenciesOf(package) ==
  IF package \in {Missing, Broken, <<>>} THEN Placeholder
  ELSE [p \in DOMAIN package \ {Server} |-> package[p]]

(* A file that is empty or cannot be read leaves the placeholder, too: no  *)
(* other one is tried in its place.                                        *)
Usable(file) == file \notin {Missing, Unusable}

Filled(part, file) == IF part = Placeholder /\ Usable(file) THEN file ELSE part

(* The code is bundled, or taken as it is, whatever is in it.              *)
Code(template, f, run) ==
  IF template.inline = Placeholder THEN Text(f, "composition.fn.ts", run) ELSE template.inline

(* The parts of spec.source, each where the template has its placeholder.  *)
(* The lock goes in compressed, or as it is should that fail.              *)
Source(f, files, form) ==
  LET template == Template(files)
      lock == Nearest(files.lock, root.lock)
  IN [inline |-> Code(template, f, runs),
      dependencies |-> IF template.dependencies = Placeholder
                       THEN DependenciesOf(Nearest(files.package, root.package))
                       ELSE template.dependencies,
      yarnLock |-> [form |-> IF template.yarnLock = Placeholder /\ Usable(lock) THEN form ELSE "raw",
                    text |-> Filled(template.yarnLock, lock)],
      tsConfig |-> Filled(template.tsConfig, Nearest(files.tsConfig, root.tsConfig))]

(* The tool begins: what manifests/ held is removed.                       *)
Begin(files) ==
  /\ todo = {} /\ runs < MaxRuns
  /\ root' = files /\ runs' = runs + 1 /\ todo' = Functions
  /\ generated' = [f \in Functions |-> Nothing]
  /\ UNCHANGED children

Generate(f, files, form) ==
  /\ f \in todo
  /\ todo' = todo \ {f}
  /\ generated' = [generated EXCEPT ![f] =
       [source |-> Source(f, files, form), files |-> files, root |-> root]]
  /\ UNCHANGED <<root, runs, children>>

(* No step of this function in the template, or no code: the tool goes on. *)
Skip(f) == f \in todo /\ todo' = todo \ {f} /\ UNCHANGED <<root, runs, generated, children>>

(* No XRD or none with versions, a template that does not parse, a bundle  *)
(* that fails, a file that cannot be written: the tool exits with 1.       *)
Exit == todo # {} /\ todo' = {} /\ UNCHANGED <<root, runs, generated, children>>

(* PrepareYarnEnvironment: what was compressed is written as it was.       *)
YarnLock(given) == IF given.text = Nothing THEN Nothing ELSE Raw(given.text)

(* A call with the composition of f creates a child.  Dependencies that    *)
(* are no map make parseInput fail; a file that cannot be written is       *)
(* missing, with a warning.                                                *)
CreateChild(f, works, unwritten) ==
  /\ generated[f] # Nothing
  /\ LET s == generated[f].source
         unless(file, content) == IF file \in unwritten THEN Nothing ELSE content
     IN /\ s.dependencies # Placeholder
        /\ Create(s.dependencies, works)
        /\ children' = Append(children,
             [fn |-> f, composition |-> generated[f], code |-> s.inline,
              manifest |-> Len(manifests'),
              yarnLock |-> unless("yarn.lock", YarnLock(s.yarnLock)),
              tsConfig |-> unless("tsconfig.json", s.tsConfig)])
  /\ UNCHANGED <<root, runs, todo, generated>>

CliNext ==
  \/ \E files \in Files("root", runs + 1) : Begin(files) /\ UNCHANGED vars
  \/ \E f \in Functions :
       \/ \E files \in Files(f, runs), form \in Forms :
            Generate(f, files, form) /\ UNCHANGED vars
       \/ Skip(f) /\ UNCHANGED vars
       \/ \E works \in BOOLEAN, unwritten \in SUBSET {"yarn.lock", "tsconfig.json"} :
            CreateChild(f, works, unwritten)
  \/ Exit /\ UNCHANGED vars

(* Children of generated compositions, and others.                         *)
CliSpec ==
  Init /\ CliInit /\ [][(Next /\ UNCHANGED cliVars) \/ CliNext]_<<vars, cliVars>>
-----------------------------------------------------------------------------
(* Properties.                                                             *)

(* What reaches the disk for a part: nothing if it was not written.        *)
Reaches(content, part) == content \in {Nothing, part}

(* A child is made of its own function's files and of no other's, through  *)
(* composition and compression and with links put in: where the nearest    *)
(* template has a placeholder, of the nearest file, from the function's    *)
(* directory if it is there and from the tool's if not, as they were in    *)
(* one and the same run; xfuncjs-server is not installed.  The placeholder *)
(* itself reaches the child when that file is unusable or there is none.   *)
ChildHasTheSources ==
  \A i \in DOMAIN children :
    LET c == children[i]
        own == c.composition.files
        common == c.composition.root
        nearest == Nearest(own.template, common.template)
        template == IF nearest = Missing THEN Packaged ELSE nearest
        m == manifests[c.manifest]
        package == Nearest(own.package, common.package)
        run == c.code.run
    IN /\ c.code = Code(template, c.fn, run)
       /\ template.dependencies # Placeholder => DOMAIN m.written = DOMAIN template.dependencies
       /\ template.dependencies = Placeholder =>
            /\ DOMAIN m.written = DOMAIN package \ {Server}
            /\ \A p \in DOMAIN m.written : m.written[p] \in {package[p], "workspace"}
       /\ c.yarnLock # Nothing =>
            c.yarnLock = Raw(Filled(template.yarnLock, Nearest(own.lock, common.lock)))
       /\ Reaches(c.tsConfig, Filled(template.tsConfig, Nearest(own.tsConfig, common.tsConfig)))
       /\ \A text \in {own.lock, common.lock, own.tsConfig, common.tsConfig} : Usable(text) => text.run = run

(* The invariant behind it: what a composition says of the files of one    *)
(* run, what a child has of its composition, and of which run the files    *)
(* are that are being read.                                                *)
Made(f, c) ==
  LET common == c.root
      nearest == Nearest(c.files.template, common.template)
      template == IF nearest = Missing THEN Packaged ELSE nearest
      run == c.source.inline.run
  IN /\ c.source.inline = Code(template, f, run)
     /\ c.source.dependencies = IF template.dependencies = Placeholder
                                THEN DependenciesOf(Nearest(c.files.package, common.package))
                                ELSE template.dependencies
     /\ c.source.dependencies \in {Placeholder} \cup Dependencies
     /\ c.source.yarnLock.text = Filled(template.yarnLock, Nearest(c.files.lock, common.lock))
     /\ c.source.tsConfig = Filled(template.tsConfig, Nearest(c.files.tsConfig, common.tsConfig))
     /\ \A text \in {c.files.lock, common.lock, c.files.tsConfig, common.tsConfig} :
          Usable(text) => text.run = run

FromComposition(c) ==
  /\ Made(c.fn, c.composition)
  /\ c.code = c.composition.source.inline
  /\ c.composition.source.dependencies # Placeholder
  /\ c.manifest \in DOMAIN manifests
  /\ manifests[c.manifest].asked = c.composition.source.dependencies
  /\ c.yarnLock \in {Nothing, YarnLock(c.composition.source.yarnLock)}
  /\ c.tsConfig \in {Nothing, c.composition.source.tsConfig}

IsList(s) == Len(s) \in Nat /\ s = [i \in 1..Len(s) |-> s[i]]

SourcesInv ==
  /\ todo \subseteq Functions
  /\ todo # {} => root \in Files("root", runs)
  /\ DOMAIN generated = Functions
  /\ \A f \in Functions : generated[f] # Nothing => Made(f, generated[f])
  /\ IsList(children)
  /\ \A i \in DOMAIN children : FromComposition(children[i])
=============================================================================
