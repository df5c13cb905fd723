------------------------------ MODULE SOInstaller ------------------------------
(***************************************************************************)
(* cmd/install/install.go: building the shared objects of packages and of  *)
(* everything they import.  A world says of every package what go list and *)
(* go install would: its imports, in order, and its kind:                  *)
(*   "fine", "unbuildable" (go install fails), "unknown" (go list fails),  *)
(*   "main", "std" (or "C"), "incompatible" (knownIncompatiblePkgs).       *)
(* Package 0 is the command line, whose imports are the patterns.  Go has  *)
(* no import cycles: the packages are numbered so that each imports only   *)
(* higher ones.                                                            *)
(***************************************************************************)
EXTENDS Integers, Sequences, FiniteSets

CONSTANTS LastPackage, Worlds

VARIABLES world,
          stage,       \* "list", "dry", "real" or "done"
          \* The walker of this stage.
          visited, progress, progressAll, log,
          \* The calls of walk that have not returned.  A package is walked
          \* once, so that a call is known by its package.
          walking,     \* the innermost
          active,      \* all of them
          caller, nextImport, depok

installerVars == <<world, stage, visited, progress, progressAll, log,
                   walking, active, caller, nextImport, depok>>

Packages == 1 .. LastPackage
Callers == 0 .. LastPackage
Shared == {"fine", "unbuildable", "incompatible"}
PackageKinds == Shared \cup {"unknown", "main", "std"}

ASSUME PackagesAssumption == LastPackage \in Nat
ASSUME WorldsAssumption ==
  \A w \in Worlds :
    /\ w.kind \in [Packages -> PackageKinds]
    /\ w.imports \in [Callers -> Seq(Packages)]
    /\ \A p \in Callers : \A i \in DOMAIN w.imports[p] : p < w.imports[p][i]

ImportedBy(p) == {world.imports[p][i] : i \in DOMAIN world.imports[p]}
Listed == \A p \in ImportedBy(0) : world.kind[p] # "unknown"

(* One walk of all the patterns is about to begin.                         *)
NewWalker == /\ visited' = {} /\ progress' = 0 /\ log' = <<>>
             /\ nextImport' = [nextImport EXCEPT ![0] = 1]
             /\ depok' = [depok EXCEPT ![0] = TRUE]

InstallerInit ==
  /\ world \in Worlds /\ stage = "list"
  /\ visited = {} /\ progress = 0 /\ progressAll = 0 /\ log = <<>>
  /\ walking = 0 /\ active = {0}
  /\ caller = [p \in Packages |-> 0]
  /\ nextImport = [p \in Callers |-> 1]
  /\ depok = [p \in Callers |-> TRUE]

(* Patterns that go list does not know end the installation.               *)
GetPackageList ==
  /\ stage = "list"
  /\ IF Listed THEN stage' = "dry" /\ UNCHANGED depok
               ELSE stage' = "done" /\ depok' = [depok EXCEPT ![0] = FALSE]
  /\ UNCHANGED <<world, visited, progress, progressAll, log, walking, active, caller, nextImport>>

(* The dry walker has no logger.                                           *)
Log(did, p, number) ==
  log' = IF stage = "real" THEN Append(log, [did |-> did, pkg |-> p, progress |-> number]) ELSE log

(* The next import of the innermost call is p.                             *)
WalksTo(p) ==
  /\ stage \in {"dry", "real"}
  /\ nextImport[walking] \in DOMAIN world.imports[walking]
  /\ p = world.imports[walking][nextImport[walking]]
Returned == nextImport' = [nextImport EXCEPT ![walking] = @ + 1]

WalkSettled(p) ==
  /\ WalksTo(p) /\ (world.kind[p] \in {"std", "main"} \/ p \in visited)
  /\ Returned
  /\ UNCHANGED <<world, stage, visited, progress, progressAll, log, walking, active, caller, depok>>

WalkUnknown(p) ==
  /\ WalksTo(p) /\ world.kind[p] = "unknown"
  /\ Log("unknown", p, progress)
  /\ depok' = [depok EXCEPT ![walking] = FALSE] /\ Returned
  /\ UNCHANGED <<world, stage, visited, progress, progressAll, walking, active, caller>>

Walk(p) ==
  /\ WalksTo(p) /\ world.kind[p] \in Shared /\ p \notin visited
  /\ visited' = visited \cup {p}
  /\ caller' = [caller EXCEPT ![p] = walking]
  /\ walking' = p /\ active' = active \cup {p}
  /\ nextImport' = [nextImport EXCEPT ![p] = 1]
  /\ depok' = [depok EXCEPT ![p] = TRUE]
  /\ UNCHANGED <<world, stage, progress, progressAll, log>>

(* Mutant: a package is built whatever became of its imports.              *)
OutcomeAnyway(p) ==
  CASE stage = "dry" -> "counted"
    [] stage # "dry" /\ world.kind[p] = "incompatible" -> "incompatible"
    [] stage # "dry" /\ world.kind[p] = "unbuildable" -> "failed"
    [] OTHER -> "installed"

(* What is left to do for a package when its imports have been walked.     *)
Outcome(p) ==
  CASE ~depok[p] -> "skipped"
    [] depok[p] /\ stage = "dry" -> "counted"
    [] depok[p] /\ stage # "dry" /\ world.kind[p] = "incompatible" -> "incompatible"
    [] depok[p] /\ stage # "dry" /\ world.kind[p] = "unbuildable" -> "failed"
    [] OTHER -> "installed"

(* The innermost call ends, and its caller goes on with the next import.   *)
Finish ==
  LET p == walking  q == caller[p] IN
  /\ stage \in {"dry", "real"} /\ p # 0
  /\ nextImport[p] > Len(world.imports[p])
  /\ progress' = progress + 1
  /\ Log(Outcome(p), p, progress + 1)
  /\ walking' = q /\ active' = active \ {p}
  /\ nextImport' = [nextImport EXCEPT ![q] = @ + 1]
  /\ depok' = [depok EXCEPT ![q] = @ /\ Outcome(p) \notin {"skipped", "failed"}]
  /\ UNCHANGED <<world, stage, visited, progressAll, caller>>

(* The dry walk has counted the packages, or the real one installed them.  *)
WalkedAll == walking = 0 /\ nextImport[0] > Len(world.imports[0])
StartReal == /\ stage = "dry" /\ WalkedAll
             /\ stage' = "real" /\ progressAll' = Cardinality(visited) /\ NewWalker
             /\ UNCHANGED <<world, walking, active, caller>>
Install == /\ stage = "real" /\ WalkedAll
           /\ stage' = "done"
           /\ UNCHANGED <<world, visited, progress, progressAll, log, walking, active, caller, nextImport, depok>>

InstallerNext ==
  \/ GetPackageList
  \/ \E p \in Packages : WalkSettled(p) \/ WalkUnknown(p) \/ Walk(p)
  \/ Finish \/ StartReal \/ Install

InstallerSpec == InstallerInit /\ [][InstallerNext]_installerVars

(***************************************************************************)
(* What an installation promises.                                          *)
(***************************************************************************)
(* What a package depends on, through packages that are built as shared    *)
(* objects themselves: the least set that holds its imports and theirs.    *)
Direct(p) == {q \in ImportedBy(p) : world.kind[q] \notin {"std", "main"}}
Closed(S) == \A p \in S : world.kind[p] \in Shared => Direct(p) \subseteq S
NeededBy(p) == {q \in Packages : \A S \in SUBSET Packages : Direct(p) \subseteq S /\ Closed(S) => q \in S}
Wanted == NeededBy(0)

Entries(kinds) == {i \in DOMAIN log : log[i].did \in kinds}
Dealt == Entries({"installed", "failed", "skipped", "incompatible"})
Installed == stage = "done" /\ Listed

(* Everything the patterns depend on is dealt with once, and before what   *)
(* depends on it.                                                          *)
InDependencyOrder ==
  Installed =>
    /\ {log[i].pkg : i \in Dealt} = {p \in Wanted : world.kind[p] # "unknown"}
    /\ \A i, j \in Dealt : log[i].pkg = log[j].pkg => i = j
    /\ \A i, j \in Dealt : log[j].pkg \in NeededBy(log[i].pkg) => j < i

(* Install returns an error exactly when something it was asked for, or    *)
(* depends on, could not be found or built.                                *)
OutcomeTold ==
  stage = "done" =>
    (depok[0] <=> \A p \in Wanted : world.kind[p] \notin {"unknown", "unbuildable"})

(* The progress messages count from 1 to the number the dry walk announced,*)
(* also when builds fail.                                                  *)
ProgressComplete ==
  Installed =>
    /\ {log[i].progress : i \in Dealt} = 1 .. progressAll
    /\ \A i, j \in Dealt : i < j => log[i].progress < log[j].progress

(* Nothing is built on a package that could not be found, and whatever was *)
(* not built takes an importer with it, unless the patterns name it.  (Not *)
(* every importer: a second one finds it visited, and is built.)           *)
FailureSkips ==
  Installed =>
    /\ \A i \in Entries({"installed", "failed"}), j \in Entries({"unknown"}) :
         log[j].pkg \notin ImportedBy(log[i].pkg)
    /\ \A j \in Entries({"failed", "skipped"}) :
         \/ log[j].pkg \in ImportedBy(0)
         \/ \E k \in Entries({"skipped"}) : j < k /\ log[j].pkg \in ImportedBy(log[k].pkg)

(* What a package depends on is dealt with before it, and once; the first  *)
(* to import a package that failed is skipped, though a second one is not; *)
(* the result is an error when and only when something went wrong, and the *)
(* progress messages count to the number that was announced.               *)
InstallsInOrder == InDependencyOrder /\ OutcomeTold /\ ProgressComplete /\ FailureSkips
===============================================================================
