------------------------------ MODULE Workspaces -----------------------------
(***************************************************************************)
(* The dependencies in a child's package.json (pkg/node/dependency.go and  *)
(* workspace.go).  A package of the image's own workspace is linked to its *)
(* directory; which packages these are is read from yarn once, by the      *)
(* first child's creation, and kept.  getOrCreateProcess calls it all      *)
(* with pm.lock held, so a creation is one step here.                      *)
(***************************************************************************)
EXTENDS Integers, Sequences

CONSTANTS
  Packages,      \* names of packages a function depends on
  Own,           \* those whose name starts with @crossplane-js/
  Workspace,     \* those that yarn lists as workspaces below the root
  MaxCreations   \* bound: children created

ASSUME NamesAssumption == Own \subseteq Packages /\ Workspace \subseteq Packages
ASSUME BoundsAssumption == MaxCreations \in Nat

VARIABLES
  once,        \* workspaceOnce is done
  cache,       \* workspaceCache: the packages in the map (nil: none)
  manifests    \* per child created: what was asked, what was written

vars == <<once, cache, manifests>>

(* A version as the user writes it: a range, or a link.                    *)
Wanted == {"range", "link"}
Dependencies == UNION {[D -> Wanted] : D \in SUBSET Packages}

Init == once = FALSE /\ cache = {} /\ manifests = <<>>

(* Faulty variant: yarn is asked again as long as it fails.                *)
LoadUntilWorks(works) ==
  IF cache # {} THEN UNCHANGED <<once, cache>>
  ELSE once' = TRUE /\ cache' = IF works THEN Workspace ELSE {}

(* GetWorkspacePackages: an error is returned to the first caller only,    *)
(* which goes on with an empty map; the later ones get the nil map.        *)
Load(works) ==
  IF once THEN UNCHANGED <<once, cache>>
  ELSE once' = TRUE /\ cache' = IF works THEN Workspace ELSE {}

(* ResolveDependencies.  What cannot be resolved keeps its value.          *)
Resolve(map, asked) ==
  [p \in DOMAIN asked |->
     IF p \in map /\ (p \in Own \/ asked[p] = "link") THEN "workspace" ELSE asked[p]]

Create(asked, works) ==
  /\ Len(manifests) < MaxCreations
  /\ Load(works)
  /\ manifests' = Append(manifests, [asked |-> asked, written |-> Resolve(cache', asked)])

Next == \E asked \in Dependencies, works \in BOOLEAN : Create(asked, works)

Spec == Init /\ [][Next]_vars
-----------------------------------------------------------------------------
(* Properties.                                                             *)

(* A child's directory is named by the hash of what was asked and used     *)
(* again after a restart: the same package asked for in the same way is    *)
(* resolved in the same way for as long as the server runs, even though    *)
(* yarn may fail at one time and work at another.                          *)
SameDependencies ==
  \A i, j \in DOMAIN manifests :
    \A p \in DOMAIN manifests[i].asked \cap DOMAIN manifests[j].asked :
      manifests[i].asked[p] = manifests[j].asked[p] =>
        manifests[i].written[p] = manifests[j].written[p]

(* Nothing of the user's is replaced by the image's package of the same    *)
(* name unless it is the image's by name or was to be a link.              *)
UserVersionsStay ==
  \A i \in DOMAIN manifests : \A p \in DOMAIN manifests[i].asked :
    /\ manifests[i].written[p] \in {manifests[i].asked[p], "workspace"}
    /\ p \notin Own /\ manifests[i].asked[p] = "range" =>
         manifests[i].written[p] = "range"
=============================================================================
