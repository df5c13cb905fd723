----------------------------- MODULE GraphProofs -----------------------------
(***************************************************************************)
(* Two searches, for graphs of any size.  The installer keeps its promises *)
(* for all packages and all imports among them: dependencies first and     *)
(* once, failures passed on, progress counted.  Completion offers what it  *)
(* should for every tree of scopes and every graph of embedded types.      *)
(***************************************************************************)
EXTENDS SOInstaller, Candidates, Induction, FiniteSetTheorems, TLAPS

-------------------------------------------------------------------------------
(* The inductive invariant.  Its parts: types; the calls of walk form a    *)
(* chain from the command line to the innermost, and each waits for the    *)
(* import that the next one is about; what was walked is settled; the log  *)
(* of the real walk; and what is known of failures.                        *)
WalkedImports(p) == {world.imports[p][i] : i \in {j \in DOMAIN world.imports[p] : j < nextImport[p]}}
Finished == visited \ active
Known == {p \in Wanted : world.kind[p] # "unknown"}
Logging == stage \in {"real", "done"} /\ Listed

LogEntries == [did : {"installed", "incompatible", "failed", "skipped", "unknown"},
               pkg : Packages, progress : Nat]
TypeInstaller ==
  /\ world \in Worlds /\ stage \in {"list", "dry", "real", "done"}
  /\ visited \subseteq Packages /\ progress \in Nat /\ progressAll \in Nat
  /\ log \in Seq(LogEntries)
  /\ walking \in Callers /\ active \subseteq Callers
  /\ caller \in [Packages -> Callers] /\ nextImport \in [Callers -> Nat \ {0}]
  /\ depok \in [Callers -> BOOLEAN]

Stages ==
  /\ stage \in {"list", "done"} => active = {0}
  /\ stage = "list" => visited = {} /\ nextImport[0] = 1
  /\ stage \in {"dry", "real"} => Listed
  /\ stage = "done" => IF Listed THEN WalkedAll ELSE ~depok[0]

CallChain ==
  /\ 0 \in active /\ walking \in active /\ active \subseteq visited \cup {0}
  /\ \A p \in active : p <= walking
  /\ \A p \in active \ {0} :
       /\ caller[p] \in active /\ caller[p] < p
       /\ nextImport[caller[p]] \in DOMAIN world.imports[caller[p]]
       /\ world.imports[caller[p]][nextImport[caller[p]]] = p
  /\ \A p, q \in active : q < p => q <= caller[p]

Settled(p) == world.kind[p] \in Shared => p \in Finished
ImportsSettled ==
  /\ \A p \in active : \A q \in WalkedImports(p) : Settled(q)
  /\ \A p \in Finished : \A q \in ImportedBy(p) : Settled(q)
  /\ \A p \in visited : world.kind[p] \in Shared /\ p \in Wanted
  /\ progress = Cardinality(Finished)
  /\ Logging => progressAll = Cardinality(Known)

LogInOrder ==
  /\ ~Logging => log = <<>>
  /\ Logging => /\ {log[i].pkg : i \in Dealt} = Finished
                /\ {log[i].progress : i \in Dealt} = 1 .. progress
  /\ \A i, j \in Dealt : i < j => log[i].progress < log[j].progress
  /\ \A i, j \in Dealt : log[i].pkg = log[j].pkg => i = j
  /\ \A i \in Dealt : \A q \in ImportedBy(log[i].pkg) :
       world.kind[q] \in Shared => \E j \in Dealt : j < i /\ log[j].pkg = q

EntriesTrue ==
  \A i \in DOMAIN log :
    /\ log[i].did = "unknown" => world.kind[log[i].pkg] = "unknown" /\ log[i].pkg \in Wanted
    /\ log[i].did = "failed" => world.kind[log[i].pkg] = "unbuildable"
    /\ world.kind[log[i].pkg] = "unbuildable" => log[i].did \in {"failed", "skipped"}

UnknownNoticed ==
  /\ \A p \in active : depok[p] => \A q \in WalkedImports(p) : world.kind[q] # "unknown"
  /\ \A i \in Dealt \ Entries({"skipped"}) : \A q \in ImportedBy(log[i].pkg) : world.kind[q] # "unknown"

FailurePending == Entries({"unknown", "failed", "skipped"}) # {} => \E p \in active : ~depok[p]

ImporterPending ==
  \A j \in Entries({"failed", "skipped"}) :
    \/ \E k \in Entries({"skipped"}) : j < k /\ log[j].pkg \in ImportedBy(log[k].pkg)
    \/ \E p \in active : ~depok[p] /\ log[j].pkg \in ImportedBy(p)

CauseLogged ==
  Logging /\ (Entries({"skipped"}) # {} \/ \E p \in active : ~depok[p]) => Entries({"unknown", "failed"}) # {}

FailuresTold == EntriesTrue /\ UnknownNoticed /\ FailurePending /\ ImporterPending /\ CauseLogged

InstallerInv == TypeInstaller /\ Stages /\ CallChain /\ ImportsSettled /\ LogInOrder /\ FailuresTold

-------------------------------------------------------------------------------
(* What the world determines.                                              *)
LEMMA Imports ==
  ASSUME TypeInstaller
  PROVE  /\ LastPackage \in Nat
         /\ world.kind \in [Packages -> PackageKinds]
         /\ \A p \in Callers : /\ world.imports[p] \in Seq(Packages)
                               /\ \A i \in DOMAIN world.imports[p] : p < world.imports[p][i]
         /\ \A p \in Callers : ImportedBy(p) \subseteq Packages /\ Direct(p) \subseteq Packages
         /\ \A p \in Callers : WalkedImports(p) \subseteq ImportedBy(p)
<1>1. /\ world.kind \in [Packages -> PackageKinds]
      /\ \A p \in Callers : /\ world.imports[p] \in Seq(Packages)
                            /\ \A i \in DOMAIN world.imports[p] : p < world.imports[p][i]
  BY WorldsAssumption DEF TypeInstaller
<1>2. \A p \in Callers : ImportedBy(p) \subseteq Packages BY <1>1 DEF ImportedBy
<1>3. QED BY <1>1, <1>2, PackagesAssumption DEF Direct, WalkedImports, ImportedBy

LEMMA SameWorld ==
  ASSUME world' = world
  PROVE  /\ \A p \in Callers : ImportedBy(p)' = ImportedBy(p) /\ Direct(p)' = Direct(p)
         /\ \A p \in Callers : NeededBy(p)' = NeededBy(p)
         /\ Wanted' = Wanted /\ Known' = Known /\ Listed' = Listed
<1>1. /\ \A p \in Callers : ImportedBy(p)' = ImportedBy(p) /\ Direct(p)' = Direct(p)
      /\ Listed' = Listed
  BY DEF ImportedBy, Direct, Listed
<1>2. \A p \in Callers : NeededBy(p)' = NeededBy(p) BY DEF NeededBy, Closed, Direct, ImportedBy
<1>3. Wanted' = Wanted BY DEF Wanted, NeededBy, Closed, Direct, ImportedBy
<1>4. Known' = Known BY <1>3 DEF Known
<1>5. QED BY <1>1, <1>2, <1>3, <1>4

LEMMA WantedClosed ==
  ASSUME TypeInstaller
  PROVE  /\ Wanted \subseteq Packages
         /\ Direct(0) \subseteq Wanted
         /\ \A p \in Wanted : world.kind[p] \in Shared => Direct(p) \subseteq Wanted
<1>1. 0 \in Callers /\ Direct(0) \subseteq Packages BY Imports DEF Callers
<1>2. \A p \in Packages : p \in Callers /\ Direct(p) \subseteq Packages
  BY Imports DEF Callers, Packages
<1>3. QED BY <1>1, <1>2 DEF Wanted, NeededBy, Closed

LEMMA NeededLeast ==
  ASSUME NEW p, NEW S, S \subseteq Packages, Direct(p) \subseteq S, Closed(S)
  PROVE  NeededBy(p) \subseteq S
  BY DEF NeededBy

\* An import that an active call or a package of the walk has is wanted.
LEMMA ImportsWanted ==
  ASSUME InstallerInv, NEW p \in active, NEW q \in ImportedBy(p),
         world.kind[q] \notin {"std", "main"}
  PROVE  q \in Wanted
<1>1. q \in Direct(p) BY DEF Direct
<1>2. CASE p = 0 BY <1>1, <1>2, WantedClosed DEF InstallerInv
<1>3. CASE p # 0
  <2>1. p \in Wanted /\ world.kind[p] \in Shared
    BY <1>3 DEF InstallerInv, CallChain, ImportsSettled
  <2>2. QED BY <1>1, <2>1, WantedClosed DEF InstallerInv
<1>4. QED BY <1>2, <1>3

\* A walk that is through has visited exactly what is wanted and known.
LEMMA AllWalked ==
  ASSUME InstallerInv, WalkedAll
  PROVE  active = {0} /\ Finished = visited /\ visited = Known /\ WalkedImports(0) = ImportedBy(0)
<1>1. active = {0}
  <2>1. \A p \in active : p \in Callers /\ p <= 0 BY DEF InstallerInv, TypeInstaller, CallChain, WalkedAll
  <2>2. \A p \in active : p = 0 BY <2>1, PackagesAssumption DEF Callers
  <2>3. QED BY <2>2 DEF InstallerInv, CallChain
<1>2. Finished = visited
  BY <1>1, PackagesAssumption DEF Finished, InstallerInv, TypeInstaller, Packages
<1>3. WalkedImports(0) = ImportedBy(0)
  <2>1. 0 \in Callers BY PackagesAssumption DEF Callers
  <2>2. world.imports[0] \in Seq(Packages) /\ nextImport[0] > Len(world.imports[0]) /\ nextImport[0] \in Nat
    BY <2>1, Imports DEF WalkedAll, InstallerInv, TypeInstaller
  <2>3. \A j \in DOMAIN world.imports[0] : j < nextImport[0] BY <2>2
  <2>4. QED BY <2>3 DEF WalkedImports, ImportedBy
<1>4. visited \subseteq Known
  <2>1. visited \subseteq Wanted /\ \A p \in visited : world.kind[p] \in Shared
    BY DEF InstallerInv, ImportsSettled
  <2>2. QED BY <2>1 DEF Known, Shared
<1>5. Known \subseteq visited
  <2> DEFINE S == visited \cup {p \in Packages : world.kind[p] = "unknown"}
  <2>1. S \subseteq Packages BY DEF InstallerInv, TypeInstaller
  <2>2. Direct(0) \subseteq S
    <3>1. SUFFICES ASSUME NEW q \in Direct(0) PROVE q \in S OBVIOUS
    <3>2. q \in ImportedBy(0) /\ q \in Packages /\ world.kind[q] \in Shared \cup {"unknown"}
      BY Imports, PackagesAssumption DEF InstallerInv, Direct, Callers, PackageKinds
    <3>3. Settled(q) BY <1>1, <1>3, <3>2 DEF InstallerInv, ImportsSettled
    <3>4. QED BY <1>2, <3>2, <3>3 DEF Settled
  <2>3. Closed(S)
    <3>1. SUFFICES ASSUME NEW p \in S, world.kind[p] \in Shared, NEW q \in Direct(p) PROVE q \in S
      BY DEF Closed
    <3>2. p \in visited /\ p \in Callers BY <2>1, <3>1, PackagesAssumption DEF Shared, Packages, Callers
    <3>3. q \in ImportedBy(p) /\ q \in Packages /\ world.kind[q] \in Shared \cup {"unknown"}
      BY <3>2, Imports DEF InstallerInv, Direct, PackageKinds
    <3>4. Settled(q) BY <1>2, <3>2, <3>3 DEF InstallerInv, ImportsSettled
    <3>5. QED BY <1>2, <3>3, <3>4 DEF Settled
  <2>4. Wanted \subseteq S BY <2>1, <2>2, <2>3, NeededLeast DEF Wanted
  <2>5. QED BY <2>4 DEF Known
<1>6. QED BY <1>1, <1>2, <1>3, <1>4, <1>5

\* One entry more in the log.
LEMMA Appended ==
  ASSUME log \in Seq(LogEntries), NEW e \in LogEntries, log' = Append(log, e)
  PROVE  /\ log' \in Seq(LogEntries)
         /\ \A i \in DOMAIN log : i \in Nat /\ i < Len(log) + 1 /\ log'[i] = log[i]
         /\ log'[Len(log) + 1] = e /\ Len(log) + 1 \in Nat
         /\ \A kinds : Entries(kinds)' = Entries(kinds) \cup (IF e.did \in kinds THEN {Len(log) + 1} ELSE {})
         /\ DOMAIN log' = DOMAIN log \cup {Len(log) + 1}
<1>1. /\ log' \in Seq(LogEntries) /\ Len(log) \in Nat
      /\ \A i \in DOMAIN log : i \in Nat /\ i < Len(log) + 1 /\ log'[i] = log[i]
      /\ log'[Len(log) + 1] = e
      /\ DOMAIN log' = DOMAIN log \cup {Len(log) + 1}
  OBVIOUS
<1>2. ASSUME NEW kinds
      PROVE  Entries(kinds)' = Entries(kinds) \cup (IF e.did \in kinds THEN {Len(log) + 1} ELSE {})
  BY <1>1 DEF Entries
<1>3. QED BY <1>1, <1>2

-------------------------------------------------------------------------------
(* One step per action.                                                    *)
LEMMA InvInit == ASSUME InstallerInit PROVE InstallerInv
<1>1. TypeInstaller BY PackagesAssumption DEF InstallerInit, TypeInstaller, Packages, Callers
<1>2. Entries({"unknown", "failed", "skipped"}) = {} /\ Entries({"failed", "skipped"}) = {}
      /\ Entries({"skipped"}) = {} /\ Dealt = {} /\ DOMAIN log = {}
  BY DEF InstallerInit, Entries, Dealt
<1>3. WalkedImports(0) = {} /\ Finished = {}
  <2>1. 0 \in Callers BY PackagesAssumption DEF Callers
  <2>2. world.imports[0] \in Seq(Packages) /\ nextImport[0] = 1 BY <1>1, <2>1, Imports DEF InstallerInit
  <2>3. \A j \in DOMAIN world.imports[0] : ~(j < 1) BY <2>2
  <2>4. QED BY <2>2, <2>3 DEF WalkedImports, Finished, InstallerInit
<1>4. Stages BY PackagesAssumption DEF InstallerInit, Stages, Callers
<1>5. CallChain BY DEF InstallerInit, CallChain
<1>6. ImportsSettled BY <1>3, FS_EmptySet DEF InstallerInit, ImportsSettled, Logging
<1>7. LogInOrder BY <1>2 DEF InstallerInit, LogInOrder, Logging
<1>8. FailuresTold BY <1>2, <1>3 DEF InstallerInit, Logging, FailuresTold, EntriesTrue, UnknownNoticed, FailurePending, ImporterPending, CauseLogged
<1>9. QED BY <1>1, <1>4, <1>5, <1>6, <1>7, <1>8 DEF InstallerInv

LEMMA InvList == ASSUME InstallerInv, GetPackageList PROVE InstallerInv'
<1>1. /\ world' = world /\ stage = "list" /\ stage' \in {"dry", "done"} /\ visited' = visited
      /\ progress' = progress /\ progressAll' = progressAll /\ log' = log /\ walking' = walking
      /\ active' = active /\ caller' = caller /\ nextImport' = nextImport
      /\ depok' \in [Callers -> BOOLEAN]
      /\ stage' = "dry" => Listed
      /\ stage' = "done" => ~Listed /\ ~depok'[0]
  <2>1. 0 \in Callers /\ depok \in [Callers -> BOOLEAN]
    BY PackagesAssumption DEF Callers, InstallerInv, TypeInstaller
  <2>2. QED BY <2>1 DEF GetPackageList
<1>2. active = {0} /\ visited = {} /\ nextImport[0] = 1 /\ log = <<>>
  BY <1>1 DEF InstallerInv, Stages, LogInOrder, Logging
<1>3. /\ \A p \in Callers : ImportedBy(p)' = ImportedBy(p)
      /\ Wanted' = Wanted /\ Listed' = Listed
  BY <1>1, SameWorld
<1>4. ~Logging' BY <1>1, <1>3 DEF Logging
<1>5. Entries({"unknown", "failed", "skipped"})' = {} /\ Entries({"failed", "skipped"})' = {}
      /\ Entries({"skipped"})' = {} /\ Dealt' = {} /\ DOMAIN log' = {}
  BY <1>1, <1>2 DEF Entries, Dealt
<1>6. Finished' = {} /\ Finished = {} /\ WalkedImports(0)' = {}
  <2>1. 0 \in Callers BY PackagesAssumption DEF Callers
  <2>2. world.imports[0] \in Seq(Packages) BY <2>1, Imports DEF InstallerInv
  <2>3. \A j \in DOMAIN world.imports[0] : ~(j < 1) BY <2>2
  <2>4. QED BY <1>1, <1>2, <2>3 DEF WalkedImports, Finished
<1>7. TypeInstaller' BY <1>1 DEF InstallerInv, TypeInstaller
<1>8. Stages' BY <1>1, <1>2, <1>3 DEF Stages
<1>9. CallChain' BY <1>1 DEF InstallerInv, CallChain
<1>10. ImportsSettled' BY <1>1, <1>2, <1>4, <1>6 DEF InstallerInv, ImportsSettled
<1>11. LogInOrder' BY <1>1, <1>2, <1>4, <1>5 DEF LogInOrder
<1>12. FailuresTold' BY <1>1, <1>2, <1>4, <1>5, <1>6 DEF FailuresTold, EntriesTrue, UnknownNoticed, FailurePending, ImporterPending, CauseLogged
<1>13. QED BY <1>7, <1>8, <1>9, <1>10, <1>11, <1>12 DEF InstallerInv

\* What the innermost call knows of its next import.
LEMMA NextImport ==
  ASSUME InstallerInv, NEW p, WalksTo(p)
  PROVE  /\ walking \in Callers /\ walking \in active /\ p \in Packages /\ p \in ImportedBy(walking)
         /\ p > walking /\ \A x \in active : x \in Callers /\ x <= walking /\ x # p
         /\ Listed /\ stage \in {"dry", "real"} /\ p \in Callers
<1>1. walking \in Callers /\ walking \in active /\ active \subseteq Callers
      /\ \A x \in active : x <= walking
      /\ nextImport[walking] \in DOMAIN world.imports[walking]
      /\ p = world.imports[walking][nextImport[walking]]
      /\ stage \in {"dry", "real"} /\ Listed
  BY DEF InstallerInv, TypeInstaller, CallChain, Stages, WalksTo
<1>2. p \in ImportedBy(walking) /\ walking < p BY <1>1, Imports DEF InstallerInv, ImportedBy
<1>3. p \in Packages BY <1>1, <1>2, Imports DEF InstallerInv
<1>4. QED BY <1>1, <1>2, <1>3, PackagesAssumption DEF Packages, Callers

\* The innermost call goes on: one import more has been walked.
LEMMA Advanced ==
  ASSUME InstallerInv, NEW q \in active, NEW p, world' = world,
         nextImport[q] \in DOMAIN world.imports[q], p = world.imports[q][nextImport[q]],
         nextImport' = [nextImport EXCEPT ![q] = @ + 1]
  PROVE  /\ \A x \in Callers :
              WalkedImports(x)' = IF x = q THEN WalkedImports(x) \cup {p} ELSE WalkedImports(x)
         /\ nextImport' \in [Callers -> Nat \ {0}]
<1>1. q \in Callers /\ nextImport \in [Callers -> Nat \ {0}]
  BY DEF InstallerInv, TypeInstaller
<1>2. world.imports[q] \in Seq(Packages) BY <1>1, Imports DEF InstallerInv
<1>3. nextImport'[q] = nextImport[q] + 1 /\ nextImport[q] \in Nat BY <1>1
<1>4. \A j \in DOMAIN world.imports[q] : j < nextImport'[q] <=> j < nextImport[q] \/ j = nextImport[q]
  BY <1>2, <1>3
<1>5. WalkedImports(q)' = WalkedImports(q) \cup {p} BY <1>4 DEF WalkedImports
<1>6. \A x \in Callers : x # q => WalkedImports(x)' = WalkedImports(x) BY <1>1 DEF WalkedImports
<1>7. QED BY <1>1, <1>3, <1>5, <1>6

LEMMA WalkedOn ==
  ASSUME InstallerInv, NEW p, WalksTo(p), Returned, Settled(p),
         UNCHANGED <<world, stage, visited, progress, progressAll, walking, active, caller>>
  PROVE  /\ Stages' /\ CallChain' /\ ImportsSettled'
         /\ \A x \in active :
              WalkedImports(x)' = IF x = walking THEN WalkedImports(x) \cup {p} ELSE WalkedImports(x)
         /\ nextImport' \in [Callers -> Nat \ {0}]
         /\ \A x \in Callers : ImportedBy(x)' = ImportedBy(x)
         /\ Finished' = Finished /\ Wanted' = Wanted /\ Known' = Known /\ (Logging' <=> Logging)
<1>1. /\ walking \in active /\ active \subseteq Callers /\ Listed /\ stage \in {"dry", "real"}
      /\ nextImport[walking] \in DOMAIN world.imports[walking]
      /\ p = world.imports[walking][nextImport[walking]]
      /\ \A x \in active : x <= walking
      /\ nextImport' = [nextImport EXCEPT ![walking] = @ + 1]
      /\ nextImport \in [Callers -> Nat \ {0}]
  BY NextImport DEF WalksTo, Returned, InstallerInv, TypeInstaller
<1>2. /\ \A x \in Callers :
           WalkedImports(x)' = IF x = walking THEN WalkedImports(x) \cup {p} ELSE WalkedImports(x)
      /\ nextImport' \in [Callers -> Nat \ {0}]
  BY <1>1, Advanced
<1>3. /\ \A x \in Callers : ImportedBy(x)' = ImportedBy(x)
      /\ Finished' = Finished /\ Wanted' = Wanted /\ Known' = Known /\ Listed' = Listed
      /\ (Logging' <=> Logging)
  BY SameWorld DEF Finished, Logging
<1>4. Stages' BY <1>1, <1>3 DEF Stages
<1>5. CallChain'
  <2>1. \A x \in active \ {0} : caller[x] # walking /\ caller[x] \in Callers
    <3>1. TAKE x \in active \ {0}
    <3>2. caller[x] < x /\ x <= walking /\ x \in Nat /\ walking \in Nat /\ caller[x] \in active
      BY <1>1 DEF Callers, InstallerInv, CallChain
    <3>3. QED BY <1>1, <3>2 DEF Callers
  <2>2. \A x \in active \ {0} : nextImport'[caller[x]] = nextImport[caller[x]] BY <1>1, <2>1
  <2>3. QED BY <2>2 DEF InstallerInv, CallChain
<1>6. ImportsSettled'
  <2>1. \A x : Settled(x)' <=> Settled(x) BY <1>3 DEF Settled
  <2>2. \A x \in active : \A y \in WalkedImports(x)' : Settled(y)
    BY <1>1, <1>2 DEF InstallerInv, ImportsSettled
  <2>3. \A x \in Finished : \A y \in ImportedBy(x)' : Settled(y)
    <3>1. Finished \subseteq Callers
      BY PackagesAssumption DEF Finished, Callers, Packages, InstallerInv, TypeInstaller
    <3>2. QED BY <1>3, <3>1 DEF InstallerInv, ImportsSettled
  <2>4. QED BY <1>3, <2>1, <2>2, <2>3 DEF InstallerInv, ImportsSettled
<1>7. QED BY <1>1, <1>2, <1>3, <1>4, <1>5, <1>6

\* What the log says stays true when nothing is added to it.
LEMMA SameLog ==
  ASSUME InstallerInv, log' = log, world' = world, Finished' = Finished, progress' = progress,
         Logging' <=> Logging
  PROVE  /\ LogInOrder'
         /\ \A kinds : Entries(kinds)' = Entries(kinds)
         /\ Dealt' = Dealt
<1>1. \A kinds : Entries(kinds)' = Entries(kinds) BY DEF Entries
<1>2. Dealt' = Dealt BY DEF Dealt, Entries
<1>4. \A i \in Dealt : ImportedBy(log[i].pkg)' = ImportedBy(log[i].pkg) BY DEF ImportedBy
<1>5. LogInOrder' BY <1>2, <1>4 DEF InstallerInv, LogInOrder
<1>6. QED BY <1>1, <1>2, <1>5

LEMMA InvSettled == ASSUME InstallerInv, NEW p, WalkSettled(p) PROVE InstallerInv'
<1>1. /\ WalksTo(p) /\ Returned /\ log' = log /\ depok' = depok
      /\ UNCHANGED <<world, stage, visited, progress, progressAll, walking, active, caller>>
      /\ world.kind[p] \in {"std", "main"} \/ p \in visited
  BY DEF WalkSettled
<1>2. p \notin active BY <1>1, NextImport
<1>3. Settled(p) /\ world.kind[p] # "unknown"
  <2>1. CASE world.kind[p] \in {"std", "main"} BY <2>1 DEF Settled, Shared
  <2>2. CASE p \in visited
    <3>1. world.kind[p] \in Shared BY <2>2 DEF InstallerInv, ImportsSettled
    <3>2. QED BY <1>2, <2>2, <3>1 DEF Settled, Finished, Shared
  <2>3. QED BY <1>1, <2>1, <2>2
<1>4. /\ Stages' /\ CallChain' /\ ImportsSettled'
      /\ \A x \in active :
           WalkedImports(x)' = IF x = walking THEN WalkedImports(x) \cup {p} ELSE WalkedImports(x)
      /\ nextImport' \in [Callers -> Nat \ {0}]
      /\ \A x \in Callers : ImportedBy(x)' = ImportedBy(x)
      /\ Finished' = Finished /\ Wanted' = Wanted /\ (Logging' <=> Logging)
  BY <1>1, <1>3, WalkedOn
<1>5. TypeInstaller' BY <1>1, <1>4 DEF InstallerInv, TypeInstaller
<1>6. LogInOrder' /\ Dealt' = Dealt /\ \A kinds : Entries(kinds)' = Entries(kinds)
  BY <1>1, <1>4, SameLog
<1>7. FailuresTold'
  <2>1. \A x \in active : depok[x] => \A y \in WalkedImports(x)' : world.kind[y] # "unknown"
    <3>1. TAKE x \in active
    <3>2. depok[x] => \A y \in WalkedImports(x) : world.kind[y] # "unknown"
      BY DEF InstallerInv, FailuresTold, UnknownNoticed
    <3>3. WalkedImports(x)' \subseteq WalkedImports(x) \cup {p} BY <1>4
    <3>4. QED BY <1>3, <3>2, <3>3
  <2>2. \A x : ImportedBy(x)' = ImportedBy(x) BY <1>1 DEF ImportedBy
  <2>3. UnknownNoticed' BY <1>1, <1>6, <2>1, <2>2 DEF InstallerInv, FailuresTold, UnknownNoticed
  <2>4. EntriesTrue' BY <1>1, <1>4 DEF InstallerInv, FailuresTold, EntriesTrue
  <2>5. FailurePending' BY <1>1, <1>6 DEF InstallerInv, FailuresTold, FailurePending
  <2>6. ImporterPending' BY <1>1, <1>6, <2>2 DEF InstallerInv, FailuresTold, ImporterPending
  <2>7. CauseLogged' BY <1>1, <1>4, <1>6 DEF InstallerInv, FailuresTold, CauseLogged
  <2>8. QED BY <2>3, <2>4, <2>5, <2>6, <2>7 DEF FailuresTold
<1>8. QED BY <1>4, <1>5, <1>6, <1>7 DEF InstallerInv

LEMMA InvUnknown == ASSUME InstallerInv, NEW p, WalkUnknown(p) PROVE InstallerInv'
<1>1. /\ WalksTo(p) /\ Returned /\ Log("unknown", p, progress)
      /\ depok' = [depok EXCEPT ![walking] = FALSE]
      /\ UNCHANGED <<world, stage, visited, progress, progressAll, walking, active, caller>>
      /\ world.kind[p] = "unknown"
  BY DEF WalkUnknown
<1>2. /\ walking \in active /\ walking \in Callers /\ p \in Packages /\ p \in ImportedBy(walking)
      /\ Listed /\ stage \in {"dry", "real"} /\ depok \in [Callers -> BOOLEAN] /\ active \subseteq Callers
      /\ log \in Seq(LogEntries) /\ progress \in Nat
  BY <1>1, NextImport DEF InstallerInv, TypeInstaller
<1>3. Settled(p) BY <1>1 DEF Settled, Shared
<1>4. /\ Stages' /\ CallChain' /\ ImportsSettled'
      /\ \A x \in active :
           WalkedImports(x)' = IF x = walking THEN WalkedImports(x) \cup {p} ELSE WalkedImports(x)
      /\ nextImport' \in [Callers -> Nat \ {0}]
      /\ Finished' = Finished /\ Wanted' = Wanted /\ (Logging' <=> Logging)
  BY <1>1, <1>3, WalkedOn
<1>5. /\ depok' \in [Callers -> BOOLEAN] /\ ~depok'[walking]
      /\ \A x \in active : depok'[x] => depok[x] /\ x # walking
      /\ \A x : ImportedBy(x)' = ImportedBy(x)
  BY <1>1, <1>2 DEF ImportedBy
<1>6. p \in Wanted BY <1>1, <1>2, ImportsWanted
<1>7. \A x \in active : depok'[x] => \A y \in WalkedImports(x)' : world.kind[y] # "unknown"
  BY <1>4, <1>5 DEF InstallerInv, FailuresTold, UnknownNoticed
<1>8. CASE stage = "dry"
  <2>1. log' = log /\ log = <<>> /\ ~Logging
    BY <1>1, <1>8 DEF Log, Logging, InstallerInv, LogInOrder
  <2>2. LogInOrder' /\ Dealt' = Dealt /\ \A kinds : Entries(kinds)' = Entries(kinds)
    BY <1>1, <1>4, <2>1, SameLog
  <2>3. TypeInstaller' BY <1>1, <1>4, <1>5, <2>1 DEF InstallerInv, TypeInstaller
  <2>4. UnknownNoticed' BY <1>1, <1>5, <1>7, <2>1, <2>2 DEF InstallerInv, FailuresTold, UnknownNoticed
  <2>5. EntriesTrue' BY <1>1, <1>4, <2>1 DEF InstallerInv, FailuresTold, EntriesTrue
  <2>6. FailurePending' BY <1>1, <1>2, <1>5, <2>2 DEF FailurePending
  <2>7. Entries({"failed", "skipped"}) = {} BY <2>1 DEF Entries
  <2>8. ImporterPending' BY <2>2, <2>7 DEF ImporterPending
  <2>9. CauseLogged' BY <1>4, <2>1 DEF CauseLogged
  <2>10. QED BY <1>4, <2>2, <2>3, <2>4, <2>5, <2>6, <2>8, <2>9 DEF InstallerInv, FailuresTold
<1>9. CASE stage = "real"
  <2> DEFINE e == [did |-> "unknown", pkg |-> p, progress |-> progress]
  <2>1. e \in LogEntries /\ log' = Append(log, e) /\ e.did = "unknown" /\ e.pkg = p /\ Logging
    BY <1>1, <1>2, <1>9 DEF Log, LogEntries, Logging
  <2> HIDE DEF e
  <2>2. /\ log' \in Seq(LogEntries)
        /\ \A i \in DOMAIN log : i \in Nat /\ i < Len(log) + 1 /\ log'[i] = log[i]
        /\ log'[Len(log) + 1] = e /\ Len(log) + 1 \in Nat
        /\ \A kinds : Entries(kinds)' = Entries(kinds) \cup (IF e.did \in kinds THEN {Len(log) + 1} ELSE {})
        /\ DOMAIN log' = DOMAIN log \cup {Len(log) + 1}
    BY <1>2, <2>1, Appended
  <2>3. TypeInstaller' BY <1>1, <1>4, <1>5, <2>2 DEF InstallerInv, TypeInstaller
  <2>4. /\ Dealt' = Dealt /\ Entries({"skipped"})' = Entries({"skipped"})
        /\ Entries({"failed", "skipped"})' = Entries({"failed", "skipped"})
        /\ Entries({"unknown", "failed"})' # {}
    BY <2>1, <2>2 DEF Dealt
  <2>5. Dealt \subseteq DOMAIN log /\ \A kinds : Entries(kinds) \subseteq DOMAIN log BY DEF Dealt, Entries
  <2>6. LogInOrder'
    <3>1. /\ {log'[i].pkg : i \in Dealt} = {log[i].pkg : i \in Dealt}
          /\ {log'[i].progress : i \in Dealt} = {log[i].progress : i \in Dealt}
      BY <2>2, <2>5
    <3>2. \A i \in Dealt : log'[i] = log[i] BY <2>2, <2>5
    <3>3. /\ ~Logging' => log' = <<>>
          /\ Logging' => /\ {log'[i].pkg : i \in Dealt} = Finished
                         /\ {log'[i].progress : i \in Dealt} = 1 .. progress
      BY <1>4, <2>1, <3>1 DEF InstallerInv, LogInOrder
    <3>4. \A i, j \in Dealt : /\ i < j => log'[i].progress < log'[j].progress
                              /\ log'[i].pkg = log'[j].pkg => i = j
      BY <3>2 DEF InstallerInv, LogInOrder
    <3>5. \A i \in Dealt : \A q \in ImportedBy(log'[i].pkg) :
            world.kind[q] \in Shared => \E j \in Dealt : j < i /\ log'[j].pkg = q
      BY <3>2 DEF InstallerInv, LogInOrder
    <3>6. QED BY <1>1, <1>4, <1>5, <2>4, <3>3, <3>4, <3>5 DEF LogInOrder
  <2>7. EntriesTrue'
    BY <1>1, <1>4, <1>6, <2>1, <2>2 DEF InstallerInv, FailuresTold, EntriesTrue
  <2>8. UnknownNoticed'
    BY <1>1, <1>5, <1>7, <2>2, <2>4, <2>5 DEF InstallerInv, FailuresTold, UnknownNoticed
  <2>9. FailurePending' BY <1>1, <1>2, <1>5 DEF FailurePending
  <2>10. ImporterPending'
    <3>1. \A j \in Entries({"failed", "skipped"}) : log'[j] = log[j] BY <2>2, <2>5
    <3>2. \A j \in Entries({"skipped"}) : log'[j] = log[j] BY <2>2, <2>5
    <3>3. \A x \in active : ~depok[x] => ~depok'[x] BY <1>5
    <3>4. QED BY <1>1, <1>5, <2>4, <3>1, <3>2, <3>3 DEF InstallerInv, FailuresTold, ImporterPending
  <2>11. CauseLogged' BY <2>4 DEF CauseLogged
  <2>12. QED BY <1>4, <2>3, <2>6, <2>7, <2>8, <2>9, <2>10, <2>11 DEF InstallerInv, FailuresTold
<1>10. QED BY <1>2, <1>8, <1>9

LEMMA InvWalk == ASSUME InstallerInv, NEW p, Walk(p) PROVE InstallerInv'
<1>1. /\ WalksTo(p) /\ world.kind[p] \in Shared /\ p \notin visited
      /\ visited' = visited \cup {p} /\ walking' = p /\ active' = active \cup {p}
      /\ caller' = [caller EXCEPT ![p] = walking]
      /\ nextImport' = [nextImport EXCEPT ![p] = 1]
      /\ depok' = [depok EXCEPT ![p] = TRUE]
      /\ UNCHANGED <<world, stage, progress, progressAll, log>>
  BY DEF Walk
<1>2. /\ walking \in active /\ walking \in Callers /\ p \in Packages /\ p \in ImportedBy(walking)
      /\ Listed /\ stage \in {"dry", "real"} /\ active \subseteq Callers
      /\ p \in Callers /\ p > walking /\ \A x \in active : x <= walking /\ x # p
      /\ nextImport[walking] \in DOMAIN world.imports[walking]
      /\ p = world.imports[walking][nextImport[walking]]
  BY <1>1, NextImport DEF WalksTo
<1>3. /\ caller \in [Packages -> Callers] /\ nextImport \in [Callers -> Nat \ {0}]
      /\ depok \in [Callers -> BOOLEAN] /\ p # 0 /\ p \notin active
  BY <1>2 DEF InstallerInv, TypeInstaller, Packages
<1>4. /\ \A x \in active :
           /\ nextImport'[x] = nextImport[x] /\ depok'[x] = depok[x]
           /\ x # 0 => caller'[x] = caller[x]
      /\ nextImport'[p] = 1 /\ depok'[p] = TRUE /\ caller'[p] = walking
  <2>1. \A x \in active : x # 0 => x \in Packages BY <1>2 DEF Callers, Packages
  <2>2. QED BY <1>1, <1>2, <1>3, <2>1
<1>5. /\ \A x \in Callers : ImportedBy(x)' = ImportedBy(x)
      /\ Wanted' = Wanted /\ Known' = Known /\ Listed' = Listed
  BY <1>1, SameWorld
<1>6. Finished' = Finished /\ (Logging' <=> Logging) BY <1>1, <1>3, <1>5 DEF Finished, Logging
<1>7. \A x \in active : WalkedImports(x)' = WalkedImports(x)
  <2>1. TAKE x \in active
  <2>2. nextImport'[x] = nextImport[x] BY <1>4
  <2>3. QED BY <1>1, <2>2 DEF WalkedImports
<1>8. WalkedImports(p)' = {}
  <2>1. world.imports[p] \in Seq(Packages) BY <1>2, Imports DEF InstallerInv
  <2>2. \A j \in DOMAIN world.imports[p] : ~(j < 1) BY <2>1
  <2>3. QED BY <1>1, <1>4, <2>2 DEF WalkedImports
<1>9. TypeInstaller'
  <2>1. /\ caller' \in [Packages -> Callers] /\ nextImport' \in [Callers -> Nat \ {0}]
        /\ depok' \in [Callers -> BOOLEAN]
    BY <1>1, <1>2, <1>3
  <2>2. walking' \in Callers /\ active' \subseteq Callers /\ visited' \subseteq Packages
    BY <1>1, <1>2 DEF InstallerInv, TypeInstaller
  <2>3. QED BY <1>1, <2>1, <2>2 DEF InstallerInv, TypeInstaller
<1>10. Stages' BY <1>1, <1>2, <1>5 DEF Stages
<1>11. CallChain'
  <2>1. 0 \in active' /\ walking' \in active' /\ active' \subseteq visited' \cup {0}
    BY <1>1 DEF InstallerInv, CallChain
  <2>2. \A x \in active' : x <= walking'
    <3>1. TAKE x \in active'
    <3>2. walking \in Nat /\ p \in Nat /\ walking < p BY <1>2 DEF Callers
    <3>3. CASE x = p BY <1>1, <3>2, <3>3
    <3>4. CASE x \in active
      <4>1. x \in Callers /\ x <= walking BY <3>4 DEF InstallerInv, TypeInstaller, CallChain
      <4>2. x \in Nat BY <4>1 DEF Callers
      <4>3. QED BY <1>1, <3>2, <4>1, <4>2
    <3>5. QED BY <1>1, <3>3, <3>4
  <2>3. \A x \in active' \ {0} :
          /\ caller'[x] \in active' /\ caller'[x] < x
          /\ nextImport'[caller'[x]] \in DOMAIN world.imports[caller'[x]]
          /\ world.imports[caller'[x]][nextImport'[caller'[x]]] = x
    <3> TAKE x \in active' \ {0}
    <3>1. CASE x = p
      <4>1. walking \in active /\ walking \in Callers /\ p \in Callers /\ p > walking BY <1>2
      <4>2. caller'[p] = walking /\ nextImport'[walking] = nextImport[walking] BY <1>4, <4>1
      <4>3. walking < p BY <4>1 DEF Callers
      <4>4. /\ nextImport[walking] \in DOMAIN world.imports[walking]
            /\ p = world.imports[walking][nextImport[walking]]
        BY <1>2
      <4>5. walking \in active' BY <1>1, <4>1
      <4>6. caller'[x] = walking BY <3>1, <4>2
      <4>7. QED BY <3>1, <4>2, <4>3, <4>4, <4>5, <4>6
    <3>2. CASE x \in active
      <4> DEFINE c == caller[x]
      <4>1. /\ c \in active /\ c < x /\ nextImport[c] \in DOMAIN world.imports[c]
            /\ world.imports[c][nextImport[c]] = x
        BY <3>2 DEF InstallerInv, CallChain
      <4>2. caller'[x] = c BY <1>4, <3>2
      <4> HIDE DEF c
      <4>3. nextImport'[c] = nextImport[c] BY <1>4, <4>1
      <4>4. QED BY <1>1, <4>1, <4>2, <4>3
    <3>3. QED BY <1>1, <3>1, <3>2
  <2>4. \A x, y \in active' : y < x => y <= caller'[x]
    <3>1. SUFFICES ASSUME NEW x \in active', NEW y \in active', y < x PROVE y <= caller'[x]
      OBVIOUS
    <3>2. CASE x = p
      <4>1. y \in active BY <1>1, <1>2, <3>1, <3>2 DEF Callers
      <4>2. QED BY <1>2, <1>4, <3>2, <4>1
    <3>3. CASE x # p
      <4>1. x \in active /\ x <= walking BY <1>1, <1>2, <3>3
      <4>2. y # p
        <5>1. x \in Callers /\ walking \in Callers /\ p \in Callers BY <1>2, <4>1
        <5>2. x \in Nat /\ walking \in Nat /\ p \in Nat BY <5>1 DEF Callers
        <5>3. y < walking /\ walking < p BY <1>2, <3>1, <4>1, <5>2
        <5>4. QED BY <5>2, <5>3
      <4>3. y \in active /\ x # 0
        <5>1. y \in active BY <1>1, <3>1, <4>2
        <5>2. x \in Callers /\ y \in Callers BY <1>2, <4>1, <5>1
        <5>3. QED BY <3>1, <5>1, <5>2 DEF Callers
      <4>4. QED BY <1>4, <3>1, <4>1, <4>3 DEF InstallerInv, CallChain
    <3>4. QED BY <3>2, <3>3
  <2>5. QED BY <1>1, <2>1, <2>2, <2>3, <2>4 DEF CallChain
<1>12. ImportsSettled'
  <2>1. \A x : Settled(x)' <=> Settled(x) BY <1>1, <1>6 DEF Settled
  <2>2. \A x \in active' : \A y \in WalkedImports(x)' : Settled(y)
    BY <1>1, <1>7, <1>8 DEF InstallerInv, ImportsSettled
  <2>3. \A x \in Finished : \A y \in ImportedBy(x)' : Settled(y)
    <3>1. \A x : ImportedBy(x)' = ImportedBy(x) BY <1>1 DEF ImportedBy
    <3>2. QED BY <3>1 DEF InstallerInv, ImportsSettled
  <2>4. p \in Wanted
    <3>1. world.kind[p] \notin {"std", "main"} BY <1>1 DEF Shared
    <3>2. QED BY <1>2, <3>1, ImportsWanted
  <2>5. QED BY <1>1, <1>5, <1>6, <2>1, <2>2, <2>3, <2>4 DEF InstallerInv, ImportsSettled
<1>13. LogInOrder' /\ Dealt' = Dealt /\ \A kinds : Entries(kinds)' = Entries(kinds)
  BY <1>1, <1>6, SameLog
<1>14. FailuresTold'
  <2>1. \A x : ImportedBy(x)' = ImportedBy(x) BY <1>1 DEF ImportedBy
  <2>2. UnknownNoticed'
    <3>1. \A x \in active' : depok'[x] => \A y \in WalkedImports(x)' : world.kind[y] # "unknown"
      BY <1>1, <1>4, <1>7, <1>8 DEF InstallerInv, FailuresTold, UnknownNoticed
    <3>2. QED BY <1>1, <1>13, <2>1, <3>1 DEF InstallerInv, FailuresTold, UnknownNoticed
  <2>3. EntriesTrue' BY <1>1, <1>5 DEF InstallerInv, FailuresTold, EntriesTrue
  <2>4. FailurePending' BY <1>1, <1>4, <1>13 DEF InstallerInv, FailuresTold, FailurePending
  <2>5. ImporterPending'
    BY <1>1, <1>4, <1>13, <2>1 DEF InstallerInv, FailuresTold, ImporterPending
  <2>6. CauseLogged' BY <1>1, <1>4, <1>6, <1>13 DEF InstallerInv, FailuresTold, CauseLogged
  <2>7. QED BY <2>2, <2>3, <2>4, <2>5, <2>6 DEF FailuresTold
<1>15. QED BY <1>9, <1>10, <1>11, <1>12, <1>13, <1>14 DEF InstallerInv

LEMMA InvStartReal == ASSUME InstallerInv, StartReal PROVE InstallerInv'
<1>1. /\ stage = "dry" /\ WalkedAll /\ stage' = "real" /\ progressAll' = Cardinality(visited)
      /\ visited' = {} /\ progress' = 0 /\ log' = <<>>
      /\ nextImport' = [nextImport EXCEPT ![0] = 1] /\ depok' = [depok EXCEPT ![0] = TRUE]
      /\ UNCHANGED <<world, walking, active, caller>>
  BY DEF StartReal, NewWalker
<1>2. active = {0} /\ visited = Known BY <1>1, AllWalked
<1>3. /\ Wanted' = Wanted /\ Known' = Known /\ Listed' = Listed /\ Listed
  BY <1>1, SameWorld DEF InstallerInv, Stages
<1>4. 0 \in Callers /\ nextImport'[0] = 1 /\ depok'[0] = TRUE
  BY <1>1, PackagesAssumption DEF Callers, InstallerInv, TypeInstaller
<1>5. Finished' = {} /\ WalkedImports(0)' = {}
  <2>1. world.imports[0] \in Seq(Packages) BY <1>4, Imports DEF InstallerInv
  <2>2. \A j \in DOMAIN world.imports[0] : ~(j < 1) BY <2>1
  <2>3. QED BY <1>1, <1>4, <2>2 DEF WalkedImports, Finished
<1>6. Entries({"unknown", "failed", "skipped"})' = {} /\ Entries({"failed", "skipped"})' = {}
      /\ Entries({"skipped"})' = {} /\ Dealt' = {} /\ DOMAIN log' = {}
  BY <1>1 DEF Entries, Dealt
<1>7. Cardinality(visited) \in Nat /\ Cardinality({}) = 0
  <2>1. IsFiniteSet(Packages) BY PackagesAssumption, FS_Interval DEF Packages
  <2>2. IsFiniteSet(visited) BY <2>1, FS_Subset DEF InstallerInv, TypeInstaller
  <2>3. QED BY <2>2, FS_CardinalityType, FS_EmptySet
<1>8. TypeInstaller' BY <1>1, <1>4, <1>7 DEF InstallerInv, TypeInstaller
<1>9. Stages' BY <1>1, <1>3 DEF Stages
<1>10. CallChain' BY <1>1, <1>2 DEF InstallerInv, CallChain
<1>11. ImportsSettled' BY <1>1, <1>2, <1>3, <1>5, <1>7 DEF ImportsSettled
<1>12. LogInOrder' BY <1>1, <1>5, <1>6 DEF LogInOrder
<1>13. FailuresTold'
  BY <1>1, <1>2, <1>4, <1>5, <1>6
  DEF FailuresTold, EntriesTrue, UnknownNoticed, FailurePending, ImporterPending, CauseLogged
<1>14. QED BY <1>8, <1>9, <1>10, <1>11, <1>12, <1>13 DEF InstallerInv

\* A step that leaves everything but the stage alone, and the end of it.
LEMMA InvInstall == ASSUME InstallerInv, Install \/ UNCHANGED installerVars PROVE InstallerInv'
<1>1. /\ UNCHANGED <<world, visited, progress, progressAll, log, walking, active, caller, nextImport, depok>>
      /\ \/ stage' = stage
         \/ stage = "real" /\ stage' = "done" /\ WalkedAll
  BY DEF Install, installerVars
<1>2. /\ \A x : ImportedBy(x)' = ImportedBy(x)
      /\ \A x : WalkedImports(x)' = WalkedImports(x)
      /\ Wanted' = Wanted /\ Known' = Known /\ Listed' = Listed /\ Finished' = Finished
      /\ WalkedAll' = WalkedAll
      /\ \A x : Settled(x)' <=> Settled(x)
  BY <1>1, SameWorld DEF ImportedBy, WalkedImports, Finished, WalkedAll, Settled
<1>3. Logging' <=> Logging BY <1>1, <1>2 DEF Logging
<1>4. LogInOrder' /\ Dealt' = Dealt /\ \A kinds : Entries(kinds)' = Entries(kinds)
  BY <1>1, <1>2, <1>3, SameLog
<1>5. TypeInstaller' BY <1>1 DEF InstallerInv, TypeInstaller
<1>6. Stages'
  <2>1. CASE stage' = stage BY <1>1, <1>2, <2>1 DEF InstallerInv, Stages
  <2>2. CASE stage = "real" /\ stage' = "done" /\ WalkedAll
    BY <1>1, <1>2, <2>2, AllWalked DEF InstallerInv, Stages
  <2>3. QED BY <1>1, <2>1, <2>2
<1>7. CallChain' BY <1>1 DEF InstallerInv, CallChain
<1>8. ImportsSettled' BY <1>1, <1>2, <1>3 DEF InstallerInv, ImportsSettled
<1>9. FailuresTold'
  <2>1. EntriesTrue' BY <1>1, <1>2 DEF InstallerInv, FailuresTold, EntriesTrue
  <2>2. UnknownNoticed' BY <1>1, <1>2, <1>4 DEF InstallerInv, FailuresTold, UnknownNoticed
  <2>3. FailurePending' BY <1>1, <1>4 DEF InstallerInv, FailuresTold, FailurePending
  <2>4. ImporterPending' BY <1>1, <1>2, <1>4 DEF InstallerInv, FailuresTold, ImporterPending
  <2>5. CauseLogged' BY <1>1, <1>3, <1>4 DEF InstallerInv, FailuresTold, CauseLogged
  <2>6. QED BY <2>1, <2>2, <2>3, <2>4, <2>5 DEF FailuresTold
<1>10. QED BY <1>4, <1>5, <1>6, <1>7, <1>8, <1>9 DEF InstallerInv

-------------------------------------------------------------------------------
(* The end of a call: of the package p, for its caller q.                  *)
LEMMA Ended ==
  ASSUME InstallerInv, Finish, NEW p, NEW q, p = walking, q = caller[p]
  PROVE  /\ p \in active /\ p \in Packages /\ p \in Callers /\ p \notin Finished /\ p # 0
         /\ q \in active /\ q \in Callers /\ q < p /\ active \subseteq Callers
         /\ nextImport[q] \in DOMAIN world.imports[q] /\ world.imports[q][nextImport[q]] = p
         /\ p \in ImportedBy(q) /\ WalkedImports(p) = ImportedBy(p)
         /\ \A x \in active : x <= p
         /\ active' = active \ {p} /\ walking' = q /\ Finished' = Finished \cup {p}
         /\ nextImport' = [nextImport EXCEPT ![q] = @ + 1] /\ caller' = caller
         /\ Log(Outcome(p), p, progress + 1) /\ progress' = progress + 1
         /\ depok' = [depok EXCEPT ![q] = @ /\ Outcome(p) \notin {"skipped", "failed"}]
         /\ UNCHANGED <<world, stage, visited, progressAll>>
         /\ stage \in {"dry", "real"} /\ Listed
<1>1. /\ p # 0 /\ nextImport[p] > Len(world.imports[p]) /\ stage \in {"dry", "real"}
      /\ active' = active \ {p} /\ walking' = q
      /\ nextImport' = [nextImport EXCEPT ![q] = @ + 1] /\ caller' = caller
      /\ Log(Outcome(p), p, progress + 1) /\ progress' = progress + 1
      /\ depok' = [depok EXCEPT ![q] = @ /\ Outcome(p) \notin {"skipped", "failed"}]
      /\ UNCHANGED <<world, stage, visited, progressAll>>
  BY DEF Finish
<1>2. /\ p \in active /\ active \subseteq Callers /\ \A x \in active : x <= p
      /\ active \subseteq visited \cup {0} /\ visited \subseteq Packages
  BY <1>1 DEF InstallerInv, TypeInstaller, CallChain, Stages
<1>3. p \in Callers /\ p \in Packages BY <1>1, <1>2
<1>4. /\ q \in active /\ q \in Callers /\ q < p
      /\ nextImport[q] \in DOMAIN world.imports[q] /\ world.imports[q][nextImport[q]] = p
  BY <1>1, <1>2 DEF InstallerInv, CallChain
<1>5. p \in ImportedBy(q) BY <1>4 DEF ImportedBy
<1>6. WalkedImports(p) = ImportedBy(p)
  <2>1. world.imports[p] \in Seq(Packages) /\ nextImport[p] \in Nat
    BY <1>3, Imports DEF InstallerInv, TypeInstaller
  <2>2. \A j \in DOMAIN world.imports[p] : j < nextImport[p] BY <1>1, <2>1
  <2>3. QED BY <2>2 DEF WalkedImports, ImportedBy
<1>7. Finished' = Finished \cup {p} /\ p \notin Finished
  BY <1>1, <1>2, <1>3 DEF Finished
<1>8. Listed BY <1>1 DEF InstallerInv, Stages
<1>9. \A x \in active : x <= p BY <1>2
<1>10. QED BY <1>1, <1>2, <1>3, <1>4, <1>5, <1>6, <1>7, <1>8, <1>9

LEMMA EndedWalk ==
  ASSUME InstallerInv, Finish, NEW p, NEW q, p = walking, q = caller[p]
  PROVE  /\ Stages' /\ CallChain' /\ ImportsSettled' /\ nextImport' \in [Callers -> Nat \ {0}]
         /\ \A x \in Callers :
              WalkedImports(x)' = IF x = q THEN WalkedImports(x) \cup {p} ELSE WalkedImports(x)
<1>1. /\ p \in active /\ p \in Packages /\ p \in Callers /\ p \notin Finished /\ p # 0
      /\ q \in active /\ q \in Callers /\ q < p /\ active \subseteq Callers
      /\ nextImport[q] \in DOMAIN world.imports[q] /\ world.imports[q][nextImport[q]] = p
      /\ p \in ImportedBy(q) /\ WalkedImports(p) = ImportedBy(p)
      /\ \A x \in active : x <= p
      /\ active' = active \ {p} /\ walking' = q /\ Finished' = Finished \cup {p}
      /\ nextImport' = [nextImport EXCEPT ![q] = @ + 1] /\ caller' = caller
      /\ progress' = progress + 1
      /\ UNCHANGED <<world, stage, visited, progressAll>>
      /\ stage \in {"dry", "real"} /\ Listed
  BY Ended
<1>2. /\ \A x \in Callers :
           WalkedImports(x)' = IF x = q THEN WalkedImports(x) \cup {p} ELSE WalkedImports(x)
      /\ nextImport' \in [Callers -> Nat \ {0}]
  BY <1>1, Advanced
<1>3. /\ \A x : ImportedBy(x)' = ImportedBy(x)
      /\ Wanted' = Wanted /\ Known' = Known /\ Listed' = Listed /\ (Logging' <=> Logging)
  BY <1>1, SameWorld DEF ImportedBy, Logging
<1>4. Stages' BY <1>1, <1>3 DEF Stages
<1>5. CallChain'
  <2>1. 0 \in active' /\ walking' \in active' /\ active' \subseteq visited' \cup {0}
    BY <1>1 DEF InstallerInv, CallChain, Callers
  <2>2. \A x \in active' : x \in active /\ x < p /\ x <= q /\ x \in Nat
    <3>1. TAKE x \in active'
    <3>2. x \in active /\ x # p /\ x \in Nat /\ p \in Nat BY <1>1 DEF Callers
    <3>3. x < p BY <1>1, <3>2
    <3>4. QED BY <1>1, <3>2, <3>3 DEF InstallerInv, CallChain
  <2>3. \A x \in active' \ {0} :
          /\ caller'[x] \in active' /\ caller'[x] < x
          /\ nextImport'[caller'[x]] \in DOMAIN world.imports[caller'[x]]
          /\ world.imports[caller'[x]][nextImport'[caller'[x]]] = x
    <3> TAKE x \in active' \ {0}
    <3> DEFINE c == caller[x]
    <3>1. /\ c \in active /\ c < x /\ nextImport[c] \in DOMAIN world.imports[c]
          /\ world.imports[c][nextImport[c]] = x
      BY <2>2 DEF InstallerInv, CallChain
    <3>2. caller'[x] = c /\ x < p /\ x <= q /\ x \in Nat BY <1>1, <2>2
    <3> HIDE DEF c
    <3>3. c \in Nat /\ q \in Nat /\ p \in Nat BY <1>1, <3>1 DEF Callers
    <3>4. c # q /\ c # p BY <3>1, <3>2, <3>3
    <3>5. nextImport'[c] = nextImport[c] BY <1>1, <3>1, <3>4 DEF InstallerInv, TypeInstaller
    <3>6. QED BY <1>1, <3>1, <3>2, <3>4, <3>5
  <2>4. \A x, y \in active' : y < x => y <= caller'[x] BY <1>1 DEF InstallerInv, CallChain
  <2>5. QED BY <1>1, <2>1, <2>2, <2>3, <2>4 DEF CallChain
<1>6. ImportsSettled'
  <2>1. \A x : Settled(x) \/ x = p => Settled(x)' BY <1>1 DEF Settled
  <2>2. \A x \in active' : \A y \in WalkedImports(x)' : Settled(y) \/ y = p
    BY <1>1, <1>2 DEF InstallerInv, ImportsSettled
  <2>3. \A x \in Finished' : \A y \in ImportedBy(x)' : Settled(y)
    BY <1>1, <1>3 DEF InstallerInv, ImportsSettled
  <2>4. progress' = Cardinality(Finished)'
    <3>1. IsFiniteSet(Packages) BY PackagesAssumption, FS_Interval DEF Packages
    <3>2. IsFiniteSet(Finished) BY <3>1, FS_Subset DEF Finished, InstallerInv, TypeInstaller
    <3>3. Cardinality(Finished \cup {p}) = Cardinality(Finished) + 1 BY <1>1, <3>2, FS_AddElement
    <3>4. QED BY <1>1, <3>3 DEF InstallerInv, ImportsSettled
  <2>5. QED BY <1>1, <1>3, <2>1, <2>2, <2>3, <2>4 DEF InstallerInv, ImportsSettled
<1>7. QED BY <1>2, <1>4, <1>5, <1>6

LEMMA InvFinish == ASSUME InstallerInv, Finish PROVE InstallerInv'
<1> DEFINE p == walking
<1> DEFINE q == caller[p]
<1> DEFINE o == Outcome(p)
<1>1. /\ p \in active /\ p \in Packages /\ p \in Callers /\ p \notin Finished /\ p # 0
      /\ q \in active /\ q \in Callers /\ q < p /\ active \subseteq Callers
      /\ p \in ImportedBy(q) /\ WalkedImports(p) = ImportedBy(p)
      /\ active' = active \ {p} /\ walking' = q /\ Finished' = Finished \cup {p}
      /\ caller' = caller
      /\ Log(o, p, progress + 1) /\ progress' = progress + 1
      /\ depok' = [depok EXCEPT ![q] = @ /\ o \notin {"skipped", "failed"}]
      /\ UNCHANGED <<world, stage, visited, progressAll>>
      /\ stage \in {"dry", "real"} /\ Listed
  BY Ended
<1>2. /\ Stages' /\ CallChain' /\ ImportsSettled' /\ nextImport' \in [Callers -> Nat \ {0}]
      /\ \A x \in Callers :
           WalkedImports(x)' = IF x = q THEN WalkedImports(x) \cup {p} ELSE WalkedImports(x)
  BY EndedWalk
<1>3. /\ stage = "dry" /\ depok[p] => o = "counted"
      /\ stage = "real" => o \in {"skipped", "incompatible", "failed", "installed"}
      /\ stage = "real" => (o = "failed" <=> depok[p] /\ world.kind[p] = "unbuildable")
      /\ o = "skipped" <=> ~depok[p]
  BY <1>1 DEF Outcome
<1> HIDE DEF o, q, p
<1>4. /\ world.kind[p] \in Shared /\ p \in visited /\ q \in active' /\ q # p
      /\ depok \in [Callers -> BOOLEAN] /\ log \in Seq(LogEntries) /\ progress \in Nat
  BY <1>1 DEF InstallerInv, TypeInstaller, CallChain, ImportsSettled, Callers
<1>5. /\ depok' \in [Callers -> BOOLEAN]
      /\ \A x \in active : depok'[x] => depok[x]
      /\ \A x \in active : ~depok'[x] => ~depok[x] \/ (x = q /\ o \in {"skipped", "failed"})
      /\ o \in {"skipped", "failed"} => ~depok'[q]
  BY <1>1, <1>4
<1>6. /\ \A x : ImportedBy(x)' = ImportedBy(x)
      /\ Wanted' = Wanted /\ Known' = Known /\ (Logging' <=> Logging)
  BY <1>1, SameWorld DEF ImportedBy, Logging
<1>7. TypeInstaller' /\ \A x \in active' : depok'[x] => \A y \in WalkedImports(x)' : world.kind[y] # "unknown"
  <2>1. log' \in Seq(LogEntries)
    <3>1. CASE stage = "dry" BY <1>1, <1>4, <3>1 DEF Log
    <3>2. CASE stage = "real"
      <4>1. [did |-> o, pkg |-> p, progress |-> progress + 1] \in LogEntries
        BY <1>1, <1>3, <1>4, <3>2 DEF LogEntries
      <4>2. QED BY <1>1, <1>4, <3>2, <4>1, Appended DEF Log
    <3>3. QED BY <1>1, <3>1, <3>2
  <2>2. TypeInstaller' BY <1>1, <1>2, <1>4, <1>5, <2>1 DEF InstallerInv, TypeInstaller
  <2>3. world.kind[p] # "unknown" BY <1>4 DEF Shared
  <2>4. \A x \in active : depok[x] => \A y \in WalkedImports(x) : world.kind[y] # "unknown"
    BY DEF InstallerInv, FailuresTold, UnknownNoticed
  <2>5. QED BY <1>1, <1>2, <1>5, <2>2, <2>3, <2>4
<1>8. \* A call that knows of a failure is left, if there was one.
      (\E x \in active : ~depok[x]) \/ o \in {"skipped", "failed"} => \E x \in active' : ~depok'[x]
  <2>1. CASE o \in {"skipped", "failed"} BY <1>4, <1>5, <2>1
  <2>2. CASE o \notin {"skipped", "failed"} BY <1>1, <1>3, <1>5, <2>2
  <2>3. QED BY <2>1, <2>2
<1>9. CASE stage = "dry"
  <2>1. log' = log /\ log = <<>> /\ ~Logging
    BY <1>1, <1>9 DEF Log, Logging, InstallerInv, LogInOrder
  <2>2. /\ \A kinds : Entries(kinds) = {} /\ Entries(kinds)' = {}
        /\ Dealt = {} /\ Dealt' = {} /\ DOMAIN log' = {}
    BY <2>1 DEF Entries, Dealt
  <2>3. LogInOrder' BY <1>6, <2>1, <2>2 DEF LogInOrder
  <2>4. EntriesTrue' BY <2>2 DEF EntriesTrue
  <2>5. UnknownNoticed' BY <1>1, <1>7, <2>2 DEF UnknownNoticed
  <2>6. FailurePending' /\ ImporterPending' BY <2>2 DEF FailurePending, ImporterPending
  <2>7. CauseLogged' BY <1>6, <2>1 DEF CauseLogged
  <2>8. QED BY <1>2, <1>7, <2>3, <2>4, <2>5, <2>6, <2>7 DEF InstallerInv, FailuresTold
<1>10. CASE stage = "real"
  <2> DEFINE e == [did |-> o, pkg |-> p, progress |-> progress + 1]
  <2> DEFINE n == Len(log) + 1
  <2>1. /\ e \in LogEntries /\ log' = Append(log, e) /\ Logging
        /\ e.did = o /\ e.pkg = p /\ e.progress = progress + 1
    BY <1>1, <1>3, <1>4, <1>10 DEF Log, LogEntries, Logging
  <2> HIDE DEF e
  <2>2. /\ log' \in Seq(LogEntries)
        /\ \A i \in DOMAIN log : i \in Nat /\ i < n /\ log'[i] = log[i]
        /\ log'[n] = e /\ n \in Nat
        /\ \A kinds : Entries(kinds)' = Entries(kinds) \cup (IF e.did \in kinds THEN {n} ELSE {})
        /\ DOMAIN log' = DOMAIN log \cup {n}
    BY <1>4, <2>1, Appended
  <2> HIDE DEF n
  <2>3. Dealt \subseteq DOMAIN log /\ \A kinds : Entries(kinds) \subseteq DOMAIN log BY DEF Dealt, Entries
  <2>4. /\ Dealt' = Dealt \cup {n}
        /\ Entries({"skipped"})' = Entries({"skipped"}) \cup (IF o = "skipped" THEN {n} ELSE {})
        /\ Entries({"failed", "skipped"})'
             = Entries({"failed", "skipped"}) \cup (IF o \in {"failed", "skipped"} THEN {n} ELSE {})
        /\ Entries({"unknown", "failed"})'
             = Entries({"unknown", "failed"}) \cup (IF o = "failed" THEN {n} ELSE {})
        /\ Entries({"unknown", "failed", "skipped"})'
             = Entries({"unknown", "failed", "skipped"}) \cup (IF o \in {"failed", "skipped"} THEN {n} ELSE {})
    BY <1>3, <1>10, <2>1, <2>2 DEF Dealt
  <2>5. \A i \in Dealt : log'[i] = log[i] /\ i < n /\ i \in Nat /\ log[i] \in LogEntries BY <1>4, <2>2, <2>3
  <2>6. LogInOrder'
    <3>1. /\ {log[i].pkg : i \in Dealt} = Finished /\ {log[i].progress : i \in Dealt} = 1 .. progress
      BY <2>1 DEF InstallerInv, LogInOrder
    <3>2. \A i \in Dealt :
            /\ log'[i].pkg = log[i].pkg /\ log'[i].progress = log[i].progress /\ i # n
            /\ log[i].pkg \in Finished /\ log[i].pkg # p
            /\ log[i].progress \in 1 .. progress /\ log[i].progress < progress + 1
      <4>1. TAKE i \in Dealt
      <4>2. log[i].pkg \in Finished /\ log[i].progress \in 1 .. progress BY <3>1
      <4>3. QED BY <1>1, <1>4, <2>2, <2>5, <4>2
    <3>3. /\ n \in Dealt' /\ log'[n].pkg = p /\ log'[n].progress = progress + 1
          /\ \A i \in Dealt' : i \in Dealt \/ i = n
      BY <2>1, <2>2, <2>4
    <3>4. {log'[i].pkg : i \in Dealt'} = Finished'
      <4>1. ASSUME NEW i \in Dealt' PROVE log'[i].pkg \in Finished' BY <1>1, <3>2, <3>3
      <4>2. ASSUME NEW x \in Finished' PROVE \E i \in Dealt' : log'[i].pkg = x
        <5>1. CASE x = p BY <3>3, <5>1
        <5>2. CASE x # p
          <6>1. x \in Finished BY <1>1, <5>2
          <6>2. PICK i \in Dealt : log[i].pkg = x BY <3>1, <6>1
          <6>3. QED BY <2>4, <3>2, <6>2
        <5>3. QED BY <5>1, <5>2
      <4>3. QED BY <4>1, <4>2
    <3>5. {log'[i].progress : i \in Dealt'} = 1 .. progress'
      <4>1. ASSUME NEW i \in Dealt' PROVE log'[i].progress \in 1 .. progress'
        <5>1. CASE i \in Dealt BY <1>1, <1>4, <3>2, <5>1
        <5>2. CASE i = n BY <1>1, <1>4, <3>3, <5>2
        <5>3. QED BY <3>3, <5>1, <5>2
      <4>2. ASSUME NEW x \in 1 .. progress' PROVE \E i \in Dealt' : log'[i].progress = x
        <5>1. CASE x = progress + 1 BY <3>3, <5>1
        <5>2. CASE x # progress + 1
          <6>1. x \in 1 .. progress BY <1>1, <1>4, <5>2
          <6>2. PICK i \in Dealt : log[i].progress = x BY <3>1, <6>1
          <6>3. QED BY <2>4, <3>2, <6>2
        <5>3. QED BY <5>1, <5>2
      <4>3. QED BY <4>1, <4>2
    <3>6. /\ \A i, j \in Dealt' : i < j => log'[i].progress < log'[j].progress
          /\ \A i, j \in Dealt' : log'[i].pkg = log'[j].pkg => i = j
      <4>1. /\ \A i, j \in Dealt : i < j => log[i].progress < log[j].progress
            /\ \A i, j \in Dealt : log[i].pkg = log[j].pkg => i = j
        BY DEF InstallerInv, LogInOrder
      <4>2. SUFFICES ASSUME NEW i \in Dealt', NEW j \in Dealt'
                     PROVE  /\ i < j => log'[i].progress < log'[j].progress
                            /\ log'[i].pkg = log'[j].pkg => i = j
        OBVIOUS
      <4>3. CASE i \in Dealt /\ j \in Dealt BY <3>2, <4>1, <4>3
      <4>4. CASE i \in Dealt /\ j = n BY <3>2, <3>3, <4>4
      <4>5. CASE i = n /\ j \in Dealt
        <5>1. j < i /\ j \in Nat /\ i \in Nat BY <2>2, <2>5, <4>5
        <5>2. QED BY <3>2, <3>3, <4>5, <5>1
      <4>6. CASE i = n /\ j = n BY <2>2, <4>6
      <4>7. QED BY <3>3, <4>3, <4>4, <4>5, <4>6
    <3>7. \A i \in Dealt' : \A y \in ImportedBy(log'[i].pkg) :
            world.kind[y] \in Shared => \E j \in Dealt' : j < i /\ log'[j].pkg = y
      <4>1. SUFFICES ASSUME NEW i \in Dealt', NEW y \in ImportedBy(log'[i].pkg), world.kind[y] \in Shared
                     PROVE  \E j \in Dealt' : j < i /\ log'[j].pkg = y
        OBVIOUS
      <4>2. CASE i \in Dealt
        <5>1. PICK j \in Dealt : j < i /\ log[j].pkg = y
          BY <2>5, <4>1, <4>2 DEF InstallerInv, LogInOrder
        <5>2. QED BY <2>4, <2>5, <5>1
      <4>3. CASE i = n
        <5>1. y \in WalkedImports(p) BY <1>1, <2>1, <2>2, <4>1, <4>3
        <5>2. y \in Finished BY <1>1, <4>1, <5>1 DEF InstallerInv, ImportsSettled, Settled
        <5>3. PICK j \in Dealt : log[j].pkg = y BY <3>1, <5>2
        <5>4. QED BY <2>4, <2>5, <4>3, <5>3
      <4>4. QED BY <2>4, <4>1, <4>2, <4>3
    <3>8. QED BY <1>1, <1>6, <2>1, <3>4, <3>5, <3>6, <3>7 DEF LogInOrder
  <2>7. EntriesTrue'
    BY <1>1, <1>3, <1>4, <1>6, <1>10, <2>1, <2>2 DEF InstallerInv, FailuresTold, EntriesTrue
  <2>8. UnknownNoticed'
    <3>1. \A i \in Dealt \ Entries({"skipped"}) : \A y \in ImportedBy(log[i].pkg) : world.kind[y] # "unknown"
      BY DEF InstallerInv, FailuresTold, UnknownNoticed
    <3>2. o # "skipped" => \A y \in ImportedBy(p) : world.kind[y] # "unknown"
      BY <1>1, <1>3 DEF InstallerInv, FailuresTold, UnknownNoticed
    <3>3. \A i \in (Dealt \ Entries({"skipped"}))' :
            \A y \in ImportedBy(log'[i].pkg) : world.kind[y] # "unknown"
      <4>1. TAKE i \in (Dealt \ Entries({"skipped"}))'
      <4>2. CASE i \in Dealt BY <2>4, <2>5, <3>1, <4>2
      <4>3. CASE i = n /\ i \notin Dealt BY <2>1, <2>2, <2>4, <3>2, <4>3
      <4>4. QED BY <2>4, <4>2, <4>3
    <3>4. QED BY <1>1, <1>6, <1>7, <3>3 DEF UnknownNoticed
  <2>9. FailurePending' BY <1>8, <2>4 DEF InstallerInv, FailuresTold, FailurePending
  <2>10. ImporterPending'
    <3>1. SUFFICES ASSUME NEW j \in Entries({"failed", "skipped"})'
                   PROVE  \/ \E k \in Entries({"skipped"})' : j < k /\ log'[j].pkg \in ImportedBy(log'[k].pkg)
                          \/ \E x \in active' : ~depok'[x] /\ log'[j].pkg \in ImportedBy(x)
      BY <1>6 DEF ImporterPending
    <3>2. CASE j \in Entries({"failed", "skipped"})
      <4>1. log'[j] = log[j] /\ j < n BY <2>2, <2>3, <3>2
      <4>2. CASE \E k \in Entries({"skipped"}) : j < k /\ log[j].pkg \in ImportedBy(log[k].pkg)
        BY <2>2, <2>3, <2>4, <4>1, <4>2
      <4>3. CASE \E x \in active : ~depok[x] /\ log[j].pkg \in ImportedBy(x)
        <5>1. PICK x \in active : ~depok[x] /\ log[j].pkg \in ImportedBy(x) BY <4>3
        <5>2. CASE x = p
          <6>1. o = "skipped" BY <1>3, <5>1, <5>2
          <6>2. n \in Entries({"skipped"})' /\ log'[n].pkg = p BY <2>1, <2>2, <2>4, <6>1
          <6>3. QED BY <4>1, <5>1, <5>2, <6>2
        <5>3. CASE x # p BY <1>1, <1>5, <4>1, <5>1, <5>3
        <5>4. QED BY <5>2, <5>3
      <4>4. QED BY <3>2, <4>2, <4>3 DEF InstallerInv, FailuresTold, ImporterPending
    <3>3. CASE j = n /\ o \in {"failed", "skipped"}
      <4>1. log'[j].pkg = p BY <2>1, <2>2, <3>3
      <4>2. QED BY <1>1, <1>4, <1>5, <3>3, <4>1
    <3>4. QED BY <2>4, <3>2, <3>3
  <2>11. CauseLogged'
    <3>1. (\E x \in active : ~depok[x]) \/ Entries({"skipped"}) # {} => Entries({"unknown", "failed"}) # {}
      BY <2>1 DEF InstallerInv, FailuresTold, CauseLogged
    <3>2. o = "skipped" => Entries({"unknown", "failed"}) # {} BY <1>1, <1>3, <3>1
    <3>3. QED BY <1>1, <1>5, <2>4, <3>1, <3>2 DEF CauseLogged
  <2>12. QED BY <1>2, <1>7, <2>6, <2>7, <2>8, <2>9, <2>10, <2>11 DEF InstallerInv, FailuresTold
<1>11. QED BY <1>1, <1>9, <1>10
-------------------------------------------------------------------------------
(* Nothing the walker does disturbs what it knows: the calls of walk that  *)
(* wait (walk calls itself for every import), what its log says of the     *)
(* packages it left, and which call has a failure to pass on.              *)
THEOREM InstallerInvariance == InstallerSpec => []InstallerInv
<1>1. InstallerInit => InstallerInv BY InvInit
<1>2. InstallerInv /\ [InstallerNext]_installerVars => InstallerInv'
  <2>1. SUFFICES ASSUME InstallerInv, [InstallerNext]_installerVars PROVE InstallerInv' OBVIOUS
  <2>2. CASE GetPackageList BY <2>1, <2>2, InvList
  <2>3. CASE \E p \in Packages : WalkSettled(p) BY <2>1, <2>3, InvSettled
  <2>4. CASE \E p \in Packages : WalkUnknown(p) BY <2>1, <2>4, InvUnknown
  <2>5. CASE \E p \in Packages : Walk(p) BY <2>1, <2>5, InvWalk
  <2>6. CASE Finish BY <2>1, <2>6, InvFinish
  <2>7. CASE StartReal BY <2>1, <2>7, InvStartReal
  <2>8. CASE Install \/ UNCHANGED installerVars BY <2>1, <2>8, InvInstall
  <2>9. QED BY <2>1, <2>2, <2>3, <2>4, <2>5, <2>6, <2>7, <2>8 DEF InstallerNext
<1>3. QED BY <1>1, <1>2, PTL DEF InstallerSpec

-------------------------------------------------------------------------------
(* What the invariant says of an installation that is over.                *)
LEMMA AllDealtWith ==
  ASSUME InstallerInv, Installed
  PROVE  /\ active = {0} /\ {log[i].pkg : i \in Dealt} = Known /\ WalkedImports(0) = ImportedBy(0)
         /\ Known \subseteq Wanted /\ \A p \in Known : world.kind[p] \in Shared
         /\ {log[i].progress : i \in Dealt} = 1 .. progressAll
<1>1. Logging /\ WalkedAll BY DEF Installed, Logging, InstallerInv, Stages
<1>2. active = {0} /\ Finished = Known /\ visited = Known /\ WalkedImports(0) = ImportedBy(0)
  BY <1>1, AllWalked
<1>3. /\ {log[i].pkg : i \in Dealt} = Finished /\ {log[i].progress : i \in Dealt} = 1 .. progress
  BY <1>1 DEF InstallerInv, LogInOrder
<1>4. progress = progressAll BY <1>1, <1>2 DEF InstallerInv, ImportsSettled
<1>5. \A p \in visited : world.kind[p] \in Shared BY DEF InstallerInv, ImportsSettled
<1>6. QED BY <1>2, <1>3, <1>4, <1>5 DEF Known

LEMMA DependenciesFirst == ASSUME InstallerInv PROVE InDependencyOrder
<1>1. SUFFICES ASSUME Installed
               PROVE  /\ {log[i].pkg : i \in Dealt} = Known
                      /\ \A i, j \in Dealt : log[i].pkg = log[j].pkg => i = j
                      /\ \A i, j \in Dealt : log[j].pkg \in NeededBy(log[i].pkg) => j < i
  BY DEF InDependencyOrder, Known
<1>2. {log[i].pkg : i \in Dealt} = Known /\ \A p \in Known : world.kind[p] \in Shared
  BY <1>1, AllDealtWith
<1>3. /\ \A i, j \in Dealt : log[i].pkg = log[j].pkg => i = j
      /\ \A i \in Dealt : \A q \in ImportedBy(log[i].pkg) :
           world.kind[q] \in Shared => \E j \in Dealt : j < i /\ log[j].pkg = q
  BY DEF InstallerInv, LogInOrder
<1>4. ASSUME NEW i \in Dealt, NEW j \in Dealt, log[j].pkg \in NeededBy(log[i].pkg)
      PROVE  j < i
  <2> DEFINE S == {p \in Packages : \/ world.kind[p] = "unknown"
                                    \/ \E k \in Dealt : k < i /\ log[k].pkg = p}
  <2>1. \A k \in Dealt : k \in Nat /\ log[k].pkg \in Packages /\ log[k].pkg \in Callers
                         /\ world.kind[log[k].pkg] \in Shared
    <3>1. TAKE k \in Dealt
    <3>2. k \in Nat /\ log[k] \in LogEntries BY DEF Dealt, Entries, InstallerInv, TypeInstaller
    <3>3. log[k].pkg \in Packages BY <3>2 DEF LogEntries
    <3>4. log[k].pkg \in Callers BY <3>3, PackagesAssumption DEF Packages, Callers
    <3>5. QED BY <1>2, <3>2, <3>3, <3>4
  <2>2. \A k \in Dealt : \A q \in Direct(log[k].pkg) :
          q \in Packages /\ (world.kind[q] = "unknown" \/ \E m \in Dealt : m < k /\ log[m].pkg = q)
    <3>1. TAKE k \in Dealt
    <3>2. TAKE q \in Direct(log[k].pkg)
    <3>3. q \in ImportedBy(log[k].pkg) /\ q \in Packages /\ world.kind[q] \in Shared \cup {"unknown"}
      BY <2>1, Imports DEF InstallerInv, Direct, PackageKinds
    <3>4. QED BY <1>3, <3>3
  <2>3. Direct(log[i].pkg) \subseteq S BY <2>2
  <2>4. Closed(S)
    <3>1. SUFFICES ASSUME NEW p \in S, world.kind[p] \in Shared, NEW q \in Direct(p) PROVE q \in S
      BY DEF Closed
    <3>2. PICK k \in Dealt : k < i /\ log[k].pkg = p BY <3>1 DEF Shared
    <3>3. CASE world.kind[q] = "unknown" BY <2>2, <3>1, <3>2, <3>3
    <3>4. CASE \E m \in Dealt : m < k /\ log[m].pkg = q
      <4>1. PICK m \in Dealt : m < k /\ log[m].pkg = q BY <3>4
      <4>2. m < i BY <2>1, <3>2, <4>1
      <4>3. QED BY <2>2, <3>1, <3>2, <4>1, <4>2
    <3>5. QED BY <2>2, <3>1, <3>2, <3>3, <3>4
  <2>5. S \subseteq Packages OBVIOUS
  <2>6. log[j].pkg \in S BY <1>4, <2>3, <2>4, <2>5, NeededLeast
  <2>7. PICK k \in Dealt : k < i /\ log[k].pkg = log[j].pkg BY <2>1, <2>6 DEF Shared
  <2>8. QED BY <1>3, <2>7
<1>5. QED BY <1>2, <1>3, <1>4

LEMMA ErrorsReturned == ASSUME InstallerInv PROVE OutcomeTold
<1> DEFINE AllGood == \A p \in Wanted : world.kind[p] \notin {"unknown", "unbuildable"}
<1>1. SUFFICES ASSUME stage = "done" PROVE depok[0] <=> AllGood BY DEF OutcomeTold
<1>2. CASE ~Listed
  <2>1. ~depok[0] BY <1>1, <1>2 DEF InstallerInv, Stages
  <2>2. PICK p \in ImportedBy(0) : world.kind[p] = "unknown" BY <1>2 DEF Listed
  <2>3. p \in Wanted BY <2>2, WantedClosed DEF InstallerInv, Direct
  <2>4. QED BY <2>1, <2>2, <2>3
<1>3. CASE Listed
  <2>1. /\ active = {0} /\ {log[i].pkg : i \in Dealt} = Known /\ WalkedImports(0) = ImportedBy(0)
        /\ Known \subseteq Wanted /\ \A p \in Known : world.kind[p] \in Shared
    BY <1>1, <1>3, AllDealtWith DEF Installed
  <2>2. Logging BY <1>1, <1>3 DEF Logging
  <2>3. ASSUME depok[0] PROVE AllGood
    <3>1. Entries({"unknown", "failed", "skipped"}) = {}
      BY <2>1, <2>3 DEF InstallerInv, FailuresTold, FailurePending
    <3>2. \A i \in Dealt : i \in DOMAIN log /\ log[i].did \notin {"failed", "skipped"} /\ i \notin Entries({"skipped"})
      BY <3>1 DEF Dealt, Entries
    <3>3. Known \subseteq Packages /\ Known \subseteq Callers
      BY <2>1, WantedClosed, PackagesAssumption DEF InstallerInv, Packages, Callers
    <3>4. Direct(0) \subseteq Known
      <4>1. \A q \in ImportedBy(0) : world.kind[q] # "unknown"
        BY <2>1, <2>3 DEF InstallerInv, FailuresTold, UnknownNoticed
      <4>2. QED BY <4>1, WantedClosed DEF InstallerInv, Known, Direct
    <3>5. Closed(Known)
      <4>1. SUFFICES ASSUME NEW p \in Known, NEW q \in Direct(p) PROVE q \in Known BY DEF Closed
      <4>2. PICK i \in Dealt : log[i].pkg = p BY <2>1
      <4>3. i \in Dealt \ Entries({"skipped"}) BY <3>2, <4>2
      <4>4. world.kind[q] # "unknown"
        BY <4>1, <4>2, <4>3 DEF InstallerInv, FailuresTold, UnknownNoticed, Direct
      <4>5. q \in Wanted BY <2>1, <4>1, WantedClosed DEF InstallerInv
      <4>6. QED BY <4>4, <4>5 DEF Known
    <3>6. Wanted \subseteq Known BY <3>3, <3>4, <3>5, NeededLeast DEF Wanted
    <3>7. SUFFICES ASSUME NEW p \in Wanted PROVE world.kind[p] \notin {"unknown", "unbuildable"} OBVIOUS
    <3>8. PICK i \in Dealt : log[i].pkg = p BY <2>1, <3>6
    <3>9. world.kind[p] # "unbuildable" BY <3>2, <3>8 DEF InstallerInv, FailuresTold, EntriesTrue
    <3>10. QED BY <3>6, <3>9 DEF Known
  <2>4. ASSUME ~depok[0] PROVE ~AllGood
    <3>1. PICK i \in Entries({"unknown", "failed"}) : TRUE
      BY <2>1, <2>2, <2>4 DEF InstallerInv, FailuresTold, CauseLogged
    <3>2. CASE log[i].did = "unknown"
      BY <3>1, <3>2 DEF InstallerInv, FailuresTold, EntriesTrue, Entries
    <3>3. CASE log[i].did = "failed"
      <4>1. i \in Dealt BY <3>1, <3>3 DEF Dealt, Entries
      <4>2. log[i].pkg \in Wanted BY <2>1, <4>1
      <4>3. QED BY <3>1, <3>3, <4>2 DEF InstallerInv, FailuresTold, EntriesTrue, Entries
    <3>4. QED BY <3>1, <3>2, <3>3 DEF Entries
  <2>5. depok[0] \in BOOLEAN BY PackagesAssumption DEF InstallerInv, TypeInstaller, Callers
  <2>6. QED BY <2>3, <2>4, <2>5
<1>4. QED BY <1>2, <1>3

LEMMA ProgressTold == ASSUME InstallerInv PROVE ProgressComplete
  BY AllDealtWith DEF ProgressComplete, InstallerInv, LogInOrder

LEMMA FailuresPassedOn == ASSUME InstallerInv PROVE FailureSkips
<1>1. SUFFICES ASSUME Installed
               PROVE  /\ \A i \in Entries({"installed", "failed"}), j \in Entries({"unknown"}) :
                           log[j].pkg \notin ImportedBy(log[i].pkg)
                      /\ \A j \in Entries({"failed", "skipped"}) :
                           \/ log[j].pkg \in ImportedBy(0)
                           \/ \E k \in Entries({"skipped"}) : j < k /\ log[j].pkg \in ImportedBy(log[k].pkg)
  BY DEF FailureSkips
<1>2. ASSUME NEW i \in Entries({"installed", "failed"}), NEW j \in Entries({"unknown"})
      PROVE  log[j].pkg \notin ImportedBy(log[i].pkg)
  <2>1. i \in Dealt \ Entries({"skipped"}) BY <1>2 DEF Dealt, Entries
  <2>2. world.kind[log[j].pkg] = "unknown" BY <1>2 DEF InstallerInv, FailuresTold, EntriesTrue, Entries
  <2>3. QED BY <2>1, <2>2 DEF InstallerInv, FailuresTold, UnknownNoticed
<1>3. active = {0} BY <1>1, AllDealtWith
<1>4. QED BY <1>2, <1>3 DEF InstallerInv, FailuresTold, ImporterPending

-------------------------------------------------------------------------------
(* Installing (SOInstaller.Install): for all packages, imports and kinds,  *)
(* what the patterns need is dealt with once and dependencies first; the   *)
(* result is an error exactly when something needed could not be found or  *)
(* built; the progress messages end with the number announced; and a       *)
(* failure takes an importer with it.                                      *)
THEOREM InstallsProperly == InstallerSpec => []InstallsInOrder
<1>1. InstallerInv => InstallsInOrder
  BY DependenciesFirst, ErrorsReturned, ProgressTold, FailuresPassedOn DEF InstallsInOrder
<1>2. QED BY <1>1, InstallerInvariance, PTL

-------------------------------------------------------------------------------
(* Trees of scopes.                                                        *)

\* What TreeOK says of the numbers of scopes, and of what is around them.
LEMMA TreeIs ==
  ASSUME NEW tree, TreeOK(tree)
  PROVE  LET N == DOMAIN tree.around IN
         /\ Cardinality(N) \in Nat /\ N = 1 .. Cardinality(N) /\ N \subseteq Nat
         /\ \A s \in N : /\ s \in tree.around[s] /\ tree.around[s] \subseteq 1 .. s /\ tree.around[s] \subseteq N
                         /\ \A t \in tree.around[s] : tree.around[t] = tree.around[s] \cap 1 .. t
<1> DEFINE N == DOMAIN tree.around
           last == Cardinality(N)
<1>1. last \in Nat /\ N = 1 .. last BY FS_CardinalityType DEF TreeOK
<1> HIDE DEF last
<1>2. ASSUME NEW s \in N
      PROVE  /\ s \in tree.around[s] /\ tree.around[s] \subseteq 1 .. s /\ tree.around[s] \subseteq N
             /\ \A t \in tree.around[s] : tree.around[t] = tree.around[s] \cap 1 .. t
  <2>1. /\ s \in tree.around[s] /\ tree.around[s] \subseteq 1 .. s
        /\ \A t \in tree.around[s] : tree.around[t] = tree.around[s] \cap 1 .. t
    BY DEF TreeOK
  <2>2. tree.around[s] \subseteq N BY <1>1, <2>1
  <2>3. QED BY <2>1, <2>2
<1>3. N \subseteq Nat BY <1>1
<1>4. QED BY <1>1, <1>2, <1>3 DEF last

\* The parent of a scope, and what is around it.
LEMMA ParentIs ==
  ASSUME NEW tree, TreeOK(tree), NEW s \in DOMAIN tree.around
  PROVE  LET p == Parent(tree, s) IN
         /\ p \in 0 .. (s - 1) /\ (p = 0 \/ p \in tree.around[s])
         /\ tree.around[s] = {s} \cup Around(tree, p)
         /\ s \notin Around(tree, p)
<1> DEFINE S == (tree.around[s] \ {s}) \cup {0}
           p == Parent(tree, s)
<1>1. /\ s \in Nat /\ s # 0 /\ s \in tree.around[s] /\ tree.around[s] \subseteq 1 .. s
      /\ \A t \in tree.around[s] : tree.around[t] = tree.around[s] \cap 1 .. t
  BY TreeIs
<1>2. S \subseteq 0 .. (s - 1) /\ S # {} /\ s - 1 \in Nat BY <1>1
<1>3. \E x \in S : \A y \in S : y <= x
  <2> HIDE DEF S
  <2>1. QED BY <1>2, GreatestExists
<1>4. p \in S /\ \A y \in S : y <= p BY <1>3 DEF Parent, GreatestOf
<1>5. p \in 0 .. (s - 1) BY <1>2, <1>4
<1> HIDE DEF p
<1>6. p = 0 \/ p \in tree.around[s] BY <1>4
<1>7. tree.around[s] \ {s} = Around(tree, p)
  <2>1. \A y \in tree.around[s] \ {s} : y \in 1 .. s /\ y <= p BY <1>1, <1>4
  <2>2. CASE p = 0
    <3>1. tree.around[s] \ {s} = {} BY <2>1, <2>2
    <3>2. QED BY <2>2, <3>1 DEF Around
  <2>3. CASE p # 0
    <3>1. tree.around[p] = tree.around[s] \cap 1 .. p BY <1>1, <1>6, <2>3
    <3>2. tree.around[s] \ {s} \subseteq tree.around[s] \cap 1 .. p BY <2>1, <1>5
    <3>3. s \notin 1 .. p BY <1>5, <1>1
    <3>4. QED BY <2>3, <3>1, <3>2, <3>3 DEF Around
  <2>4. QED BY <2>2, <2>3
<1>8. QED BY <1>1, <1>5, <1>6, <1>7 DEF p

\* What is around a scope that is around another.
LEMMA AroundIn ==
  ASSUME NEW tree, TreeOK(tree), NEW t \in DOMAIN tree.around, NEW s \in tree.around[t]
  PROVE  s \in DOMAIN tree.around /\ tree.around[s] \subseteq tree.around[t] /\ s \in Nat /\ t \in Nat /\ s <= t
<1>1. /\ s \in DOMAIN tree.around /\ tree.around[s] = tree.around[t] \cap 1 .. s
      /\ tree.around[t] \subseteq 1 .. t /\ t \in Nat
  BY TreeIs
<1>2. QED BY <1>1

\* A scope inside another is inside one of its children.
LEMMA ChildAround ==
  ASSUME NEW tree, TreeOK(tree), NEW t \in DOMAIN tree.around, NEW s \in tree.around[t], s # t
  PROVE  \E c \in Children(tree, s) : c \in tree.around[t]
<1> DEFINE C == tree.around[t] \cap (s + 1) .. t
<1>1. /\ s \in DOMAIN tree.around /\ s \in Nat /\ t \in Nat /\ s <= t
      /\ t \in tree.around[t] /\ tree.around[t] \subseteq DOMAIN tree.around
      /\ \A c \in tree.around[t] : tree.around[c] = tree.around[t] \cap 1 .. c
  BY AroundIn, TreeIs
<1>2. C \subseteq Nat /\ t \in C BY <1>1
<1>3. PICK c \in C : \A y \in C : c <= y
  <2> HIDE DEF C
  <2>1. C # {} BY <1>2
  <2>2. QED BY <1>2, <2>1, LeastExists
<1>4. c \in tree.around[t] /\ c \in Nat /\ s < c /\ c \in DOMAIN tree.around BY <1>1, <1>3
<1> DEFINE p == Parent(tree, c)
<1>5. p \in 0 .. (c - 1) /\ tree.around[c] = {c} \cup Around(tree, p) BY <1>4, ParentIs
<1> HIDE DEF p
<1>6. s \in tree.around[c]
  <2>1. s \in 1 .. c BY <1>1, <1>4, TreeIs
  <2>2. QED BY <2>1, <1>1, <1>4
<1>7. s \in Around(tree, p) BY <1>4, <1>5, <1>6
<1>8. p # 0 /\ s \in tree.around[p] BY <1>7 DEF Around
<1>9. p \in tree.around[c]
  <2>1. p \in DOMAIN tree.around BY <1>4, <1>5, <1>8, TreeIs
  <2>2. p \in Around(tree, p) BY <1>8, <2>1, TreeIs DEF Around
  <2>3. QED BY <1>5, <2>2
<1>10. p \in tree.around[t] /\ p \in DOMAIN tree.around BY <1>1, <1>4, <1>9
<1>11. s <= p BY <1>8, <1>10, AroundIn
<1>12. ~(s < p)
  <2>1. SUFFICES ASSUME s < p PROVE FALSE OBVIOUS
  <2>2. p \in C BY <1>1, <1>4, <1>5, <1>10, <2>1
  <2>3. QED BY <1>3, <1>4, <1>5, <2>2
<1>13. p = s BY <1>1, <1>5, <1>11, <1>12, <1>4
<1>14. c \in Children(tree, s) BY <1>4, <1>13 DEF Children, p
<1>15. QED BY <1>4, <1>14

\* A child is further on, and inside.
LEMMA ChildIs ==
  ASSUME NEW tree, TreeOK(tree), NEW s \in DOMAIN tree.around, NEW c \in Children(tree, s)
  PROVE  /\ c \in DOMAIN tree.around /\ s \in Nat /\ c \in Nat /\ s < c /\ s \in tree.around[c]
         /\ tree.around[c] = {c} \cup tree.around[s]
<1>1. c \in DOMAIN tree.around /\ Parent(tree, c) = s BY DEF Children
<1>2. s \in Nat /\ c \in Nat /\ s # 0 /\ s \in tree.around[s] BY <1>1, TreeIs
<1>3. s \in 0 .. (c - 1) /\ tree.around[c] = {c} \cup Around(tree, s) BY <1>1, ParentIs
<1>4. Around(tree, s) = tree.around[s] BY <1>2 DEF Around
<1>5. QED BY <1>1, <1>2, <1>3, <1>4

\* Nothing is inside two children.
LEMMA ChildrenApart ==
  ASSUME NEW tree, TreeOK(tree), NEW s \in DOMAIN tree.around, NEW c \in Children(tree, s), NEW d \in Children(tree, s),
         NEW t \in DOMAIN tree.around, NEW u \in DOMAIN tree.around, c \in tree.around[t], d \in tree.around[u],
         t = u \/ t \in tree.around[u]
  PROVE  c = d
<1>1. c \in tree.around[u]
  <2>1. CASE t = u BY <2>1
  <2>2. CASE t \in tree.around[u] BY <2>2, AroundIn
  <2>3. QED BY <2>1, <2>2
<1>2. \A x, y \in {c, d} : x < y => FALSE
  <2>1. SUFFICES ASSUME NEW x \in {c, d}, NEW y \in {c, d}, x < y PROVE FALSE OBVIOUS
  <2>2. x \in tree.around[u] /\ y \in tree.around[u] BY <1>1
  <2>3. /\ s \in Nat /\ x \in Nat /\ y \in Nat /\ s < x /\ x # y /\ x \in DOMAIN tree.around
        /\ tree.around[y] = {y} \cup tree.around[s]
    BY <2>1, ChildIs
  <2>4. tree.around[y] = tree.around[u] \cap 1 .. y BY <2>2, TreeIs
  <2>5. x \in 1 .. y BY <2>1, <2>3
  <2>6. x \in tree.around[s] BY <2>2, <2>3, <2>4, <2>5
  <2>7. tree.around[s] \subseteq 1 .. s BY TreeIs
  <2>8. QED BY <2>3, <2>6, <2>7
<1>3. c \in Nat /\ d \in Nat BY ChildIs
<1>4. QED BY <1>2, <1>3

-------------------------------------------------------------------------------
(* findNearestScope.                                                       *)

\* One step of the search, with what it found in the children.
Near(tree, pos, f, s) ==
  LET found == {c \in Children(tree, s) : f[c] # 0} IN
  IF Ranged(tree, s) /\ ~Covers(tree, s, pos) THEN 0
  ELSE IF found # {} THEN f[LeastOf(found)]
  ELSE IF Ranged(tree, s) THEN s ELSE 0

\* It goes by the children only.
LEMMA NearSame ==
  ASSUME NEW tree, TreeOK(tree), NEW pos, NEW s \in DOMAIN tree.around, NEW f, NEW g,
         \A c \in Children(tree, s) : f[c] = g[c]
  PROVE  Near(tree, pos, f, s) = Near(tree, pos, g, s)
<1> DEFINE found == {c \in Children(tree, s) : f[c] # 0}
<1>1. found = {c \in Children(tree, s) : g[c] # 0} OBVIOUS
<1>2. found # {} => LeastOf(found) \in found
  <2>1. found \subseteq Nat BY ChildIs
  <2> HIDE DEF found
  <2>2. found # {} => \E x \in found : \A y \in found : x <= y BY <2>1, LeastExists
  <2>3. QED BY <2>2 DEF LeastOf
<1>3. found # {} => f[LeastOf(found)] = g[LeastOf(found)] BY <1>2
<1> HIDE DEF found
<1>4. /\ Near(tree, pos, f, s) = IF Ranged(tree, s) /\ ~Covers(tree, s, pos) THEN 0
                                 ELSE IF found # {} THEN f[LeastOf(found)]
                                 ELSE IF Ranged(tree, s) THEN s ELSE 0
      /\ Near(tree, pos, g, s) = IF Ranged(tree, s) /\ ~Covers(tree, s, pos) THEN 0
                                 ELSE IF found # {} THEN g[LeastOf(found)]
                                 ELSE IF Ranged(tree, s) THEN s ELSE 0
  BY <1>1 DEF Near, found
<1>5. QED BY <1>3, <1>4

\* The recursive function of FindNearestScope exists.
LEMMA NearestExists ==
  ASSUME NEW tree, TreeOK(tree), NEW pos
  PROVE  \E f : f = [s \in DOMAIN tree.around |-> Near(tree, pos, f, s)]
<1> DEFINE N == DOMAIN tree.around
           last == Cardinality(N)
           Upper(n) == {s \in N : last < s + n}
           G == {n \in Nat : \E f : f = [s \in Upper(n) |-> Near(tree, pos, f, s)]}
<1>1. last \in Nat /\ N = 1 .. last BY TreeIs
<1> HIDE DEF last
<1>2. 0 \in G
  <2> DEFINE f == [s \in {} |-> 0]
  <2>1. Upper(0) = {} BY <1>1
  <2>2. f = [s \in Upper(0) |-> Near(tree, pos, f, s)] BY <2>1
  <2>3. QED BY <2>2
<1>3. ASSUME NEW n \in Nat, n \in G PROVE n + 1 \in G
  <2>1. PICK f : f = [s \in Upper(n) |-> Near(tree, pos, f, s)] BY <1>3
  <2> DEFINE g == [s \in Upper(n + 1) |-> Near(tree, pos, f, s)]
  <2>2. \A s \in Upper(n + 1) : \A c \in Children(tree, s) : c \in Upper(n) /\ c \in Upper(n + 1)
    <3>1. SUFFICES ASSUME NEW s \in Upper(n + 1), NEW c \in Children(tree, s)
                   PROVE  c \in Upper(n) /\ c \in Upper(n + 1)
      OBVIOUS
    <3>2. s \in N /\ last < s + (n + 1) /\ c \in N /\ s < c /\ s \in Nat /\ c \in Nat BY ChildIs
    <3>3. last < c + n /\ last < c + (n + 1) BY <1>1, <3>2
    <3>4. QED BY <3>2, <3>3
  <2>3. \A s \in Upper(n) : f[s] = Near(tree, pos, f, s) BY <2>1
  <2>4. \A s \in Upper(n + 1) : \A c \in Children(tree, s) : f[c] = g[c]
    <3>1. SUFFICES ASSUME NEW s \in Upper(n + 1), NEW c \in Children(tree, s) PROVE f[c] = g[c] OBVIOUS
    <3>2. c \in Upper(n) /\ c \in Upper(n + 1) BY <2>2
    <3> HIDE DEF Upper
    <3>3. g[c] = Near(tree, pos, f, c) /\ f[c] = Near(tree, pos, f, c) BY <2>3, <3>2
    <3>4. QED BY <3>3
  <2>5. \A s \in Upper(n + 1) : g[s] = Near(tree, pos, g, s)
    <3>1. SUFFICES ASSUME NEW s \in Upper(n + 1) PROVE g[s] = Near(tree, pos, g, s) OBVIOUS
    <3>2. s \in N /\ \A c \in Children(tree, s) : f[c] = g[c] BY <2>4
    <3>3. g[s] = Near(tree, pos, f, s) OBVIOUS
    <3> HIDE DEF g
    <3>4. QED BY <3>2, <3>3, NearSame
  <2>6. g = [s \in Upper(n + 1) |-> Near(tree, pos, g, s)]
    <3>1. DOMAIN g = Upper(n + 1) OBVIOUS
    <3>2. g = [s \in Upper(n + 1) |-> g[s]] OBVIOUS
    <3> HIDE DEF g
    <3>3. QED BY <2>5, <3>2
  <2> HIDE DEF g, Upper
  <2>7. n + 1 \in Nat OBVIOUS
  <2>8. QED BY <2>6, <2>7, Zenon
<1> HIDE DEF G
<1>4. Nat \subseteq G BY <1>2, <1>3, SetInduction
<1>5. Upper(last) = N BY <1>1
<1>6. last \in G BY <1>1, <1>4
<1>7. QED BY <1>5, <1>6 DEF G

\* The scopes of the package that hold the place, from s inwards.
Holding(tree, pos, s) ==
  {t \in DOMAIN tree.around : s \in tree.around[t] /\ Ranged(tree, t) /\ Covers(tree, t, pos)}

\* Such scopes lie in each other.
LEMMA HoldingNest ==
  ASSUME NEW tree, TreeOK(tree), NEW pos \in Nat, NEW s, NEW r,
         NEW t \in Holding(tree, pos, s), NEW u \in Holding(tree, pos, r)
  PROVE  t \in tree.around[u] \/ u \in tree.around[t]
<1>1. /\ t \in DOMAIN tree.around /\ Ranged(tree, t) /\ Covers(tree, t, pos)
      /\ u \in DOMAIN tree.around /\ Ranged(tree, u) /\ Covers(tree, u, pos)
  BY DEF Holding
<1>2. SUFFICES ASSUME t \notin tree.around[u], u \notin tree.around[t] PROVE FALSE OBVIOUS
<1>3. tree.range[t][2] <= tree.range[u][1] \/ tree.range[u][2] <= tree.range[t][1]
  BY <1>1, <1>2 DEF TreeOK
<1>4. /\ tree.range[t][1] \in Nat /\ tree.range[t][2] \in Nat /\ tree.range[u][1] \in Nat /\ tree.range[u][2] \in Nat
  BY <1>1 DEF TreeOK
<1>5. QED BY <1>1, <1>3, <1>4 DEF Covers

\* What findNearestScope returns from s: nothing, or the innermost that holds the place.
Nearest(tree, pos, s, r) ==
  \/ r = 0 /\ Holding(tree, pos, s) = {}
  \/ r \in Holding(tree, pos, s) /\ r # 0 /\ \A t \in Holding(tree, pos, s) : t \in tree.around[r]

\* One step of it.
LEMMA NearIs ==
  ASSUME NEW tree, TreeOK(tree), NEW pos \in Nat, NEW s \in DOMAIN tree.around, NEW f,
         \A c \in Children(tree, s) : Nearest(tree, pos, c, f[c])
  PROVE  Nearest(tree, pos, s, Near(tree, pos, f, s))
<1> DEFINE H(x) == Holding(tree, pos, x)
           found == {c \in Children(tree, s) : f[c] # 0}
           r == Near(tree, pos, f, s)
<1>1. s \in Nat /\ s # 0 /\ s \in tree.around[s] BY TreeIs
<1>2. r = IF Ranged(tree, s) /\ ~Covers(tree, s, pos) THEN 0
          ELSE IF found # {} THEN f[LeastOf(found)]
          ELSE IF Ranged(tree, s) THEN s ELSE 0
  BY DEF Near
<1>3. \A c \in Children(tree, s) : H(c) \subseteq H(s)
  <2>1. SUFFICES ASSUME NEW c \in Children(tree, s), NEW t \in H(c) PROVE t \in H(s) OBVIOUS
  <2>2. t \in DOMAIN tree.around /\ c \in tree.around[t] BY DEF Holding
  <2>3. s \in tree.around[c] /\ tree.around[c] \subseteq tree.around[t] BY <2>2, ChildIs, AroundIn
  <2>4. QED BY <2>3 DEF Holding
<1>4. \A t \in H(s) : t = s \/ \E c \in Children(tree, s) : t \in H(c)
  <2>1. SUFFICES ASSUME NEW t \in H(s), t # s PROVE \E c \in Children(tree, s) : t \in H(c) OBVIOUS
  <2>2. t \in DOMAIN tree.around /\ s \in tree.around[t] BY DEF Holding
  <2>3. PICK c \in Children(tree, s) : c \in tree.around[t] BY <2>1, <2>2, ChildAround
  <2>4. t \in H(c) BY <2>3 DEF Holding
  <2>5. QED BY <2>4
<1>5. CASE Ranged(tree, s) /\ ~Covers(tree, s, pos)
  <2>1. r = 0 BY <1>2, <1>5
  <2>2. ASSUME NEW t \in H(s) PROVE FALSE
    <3>1. t \in DOMAIN tree.around /\ s \in tree.around[t] /\ Ranged(tree, t) /\ Covers(tree, t, pos) BY DEF Holding
    <3>2. tree.range[s][1] <= tree.range[t][1] /\ tree.range[t][2] <= tree.range[s][2] BY <1>5, <3>1 DEF TreeOK
    <3>3. /\ tree.range[t][1] \in Nat /\ tree.range[t][2] \in Nat /\ tree.range[s][1] \in Nat /\ tree.range[s][2] \in Nat
      BY <3>1 DEF TreeOK
    <3>4. QED BY <1>5, <3>1, <3>2, <3>3 DEF Covers
  <2>3. H(s) = {} BY <2>2
  <2>4. QED BY <2>1, <2>3 DEF Nearest
<1>6. CASE ~(Ranged(tree, s) /\ ~Covers(tree, s, pos)) /\ found = {}
  <2>1. \A c \in Children(tree, s) : H(c) = {} BY <1>6 DEF Nearest
  <2>2. \A t \in H(s) : t = s BY <1>4, <2>1
  <2>3. CASE Ranged(tree, s)
    <3>1. r = s BY <1>2, <1>6, <2>3
    <3>2. s \in H(s) BY <1>1, <1>6, <2>3 DEF Holding
    <3>3. QED BY <1>1, <2>2, <3>1, <3>2 DEF Nearest
  <2>4. CASE ~Ranged(tree, s)
    <3>1. r = 0 BY <1>2, <1>6, <2>4
    <3>2. s \notin H(s) BY <2>4 DEF Holding
    <3>3. H(s) = {} BY <2>2, <3>2
    <3>4. QED BY <3>1, <3>3 DEF Nearest
  <2>5. QED BY <2>3, <2>4
<1>7. CASE ~(Ranged(tree, s) /\ ~Covers(tree, s, pos)) /\ found # {}
  <2> DEFINE c == LeastOf(found)
  <2>1. c \in found
    <3>1. found \subseteq Nat BY ChildIs
    <3> HIDE DEF found
    <3>2. \E x \in found : \A y \in found : x <= y BY <1>7, <3>1, LeastExists
    <3>3. QED BY <3>2 DEF LeastOf
  <2>2. r = f[c] BY <1>2, <1>7
  <2> HIDE DEF c
  <2>3. c \in Children(tree, s) /\ r # 0 /\ r \in H(c) /\ \A t \in H(c) : t \in tree.around[r] BY <2>1, <2>2 DEF Nearest
  <2>4. r \in H(s) /\ r \in DOMAIN tree.around /\ c \in tree.around[r] /\ s \in tree.around[r]
    <3>1. r \in H(s) BY <1>3, <2>3
    <3>2. QED BY <2>3, <3>1 DEF Holding
  <2>5. ASSUME NEW t \in H(s) PROVE t \in tree.around[r]
    <3>1. CASE t = s BY <2>4, <3>1
    <3>2. CASE t # s
      <4>1. PICK d \in Children(tree, s) : t \in H(d) BY <1>4, <3>2
      <4>2. t \in DOMAIN tree.around /\ d \in tree.around[t] BY <4>1 DEF Holding
      <4>3. t \in tree.around[r] \/ r \in tree.around[t] BY <2>3, <4>1, HoldingNest
      <4>4. c = d BY <2>3, <2>4, <4>1, <4>2, <4>3, ChildrenApart
      <4>5. QED BY <2>3, <4>1, <4>4
    <3>3. QED BY <3>1, <3>2
  <2>6. QED BY <2>3, <2>4, <2>5 DEF Nearest
<1>8. QED BY <1>5, <1>6, <1>7

\* findNearestScope finds the innermost scope of the package that holds the place, if there is one.
LEMMA FindNearestScopeIs ==
  ASSUME NEW tree, TreeOK(tree), NEW pos \in Nat
  PROVE  Nearest(tree, pos, tree.pkg, FindNearestScope(tree, pos))
<1> DEFINE N == DOMAIN tree.around
           last == Cardinality(N)
           f == CHOOSE g : g = [s \in N |-> Near(tree, pos, g, s)]
           G == {n \in Nat : \A s \in N : last < s + n => Nearest(tree, pos, s, f[s])}
<1>1. last \in Nat /\ N = 1 .. last BY TreeIs
<1>2. f = [s \in N |-> Near(tree, pos, f, s)] BY NearestExists
<1>3. FindNearestScope(tree, pos) = f[tree.pkg] BY DEF FindNearestScope, Near
<1> HIDE DEF f, last
<1>4. 0 \in G BY <1>1
<1>5. ASSUME NEW n \in Nat, n \in G PROVE n + 1 \in G
  <2>1. SUFFICES ASSUME NEW s \in N, last < s + (n + 1) PROVE Nearest(tree, pos, s, f[s]) OBVIOUS
  <2>2. ASSUME NEW c \in Children(tree, s) PROVE Nearest(tree, pos, c, f[c])
    <3>1. c \in N /\ s < c /\ s \in Nat /\ c \in Nat BY ChildIs
    <3>2. last < c + n BY <1>1, <2>1, <3>1
    <3>3. QED BY <1>5, <3>1, <3>2
  <2>3. f[s] = Near(tree, pos, f, s) BY <1>2
  <2>4. QED BY <2>2, <2>3, NearIs
<1> HIDE DEF G
<1>6. Nat \subseteq G BY <1>4, <1>5, SetInduction
<1>7. tree.pkg \in N BY DEF TreeOK
<1>8. last \in G BY <1>1, <1>6
<1>9. last < tree.pkg + last BY <1>1, <1>7
<1>10. Nearest(tree, pos, tree.pkg, f[tree.pkg]) BY <1>7, <1>8, <1>9 DEF G
<1>11. QED BY <1>3, <1>10

\* Where listCandidatesFromScope begins.
Start(tree, pos) == IF FindNearestScope(tree, pos) # 0 THEN FindNearestScope(tree, pos) ELSE tree.init

\* The scopes around that place are those around the cursor.
LEMMA SurroundingIs ==
  ASSUME NEW tree, TreeOK(tree), NEW pos \in Nat
  PROVE  /\ Start(tree, pos) \in DOMAIN tree.around \cup {0}
         /\ Surrounding(tree, pos) = Around(tree, Start(tree, pos))
<1> DEFINE H == Holding(tree, pos, tree.pkg)
           r == FindNearestScope(tree, pos)
<1>1. Surrounding(tree, pos) = IF H # {} THEN UNION {tree.around[s] : s \in H} ELSE Around(tree, tree.init)
  BY DEF Surrounding, Holding
<1>2. Nearest(tree, pos, tree.pkg, r) BY FindNearestScopeIs
<1> HIDE DEF r
<1>3. Start(tree, pos) = IF r # 0 THEN r ELSE tree.init BY DEF Start, r
<1>4. tree.init \in DOMAIN tree.around \cup {0} BY DEF TreeOK
<1>5. CASE r = 0
  <2>1. H = {} BY <1>2, <1>5 DEF Nearest, Holding
  <2>2. QED BY <1>1, <1>3, <1>4, <1>5, <2>1
<1>6. CASE r # 0
  <2>1. r \in H /\ \A t \in H : t \in tree.around[r] BY <1>2, <1>6 DEF Nearest
  <2>2. r \in DOMAIN tree.around BY <2>1 DEF Holding
  <2> HIDE DEF H
  <2>3. \A t \in H : tree.around[t] \subseteq tree.around[r] BY <2>1, <2>2, AroundIn
  <2>4. UNION {tree.around[s] : s \in H} = tree.around[r] BY <2>1, <2>3
  <2>5. QED BY <1>1, <1>3, <1>6, <2>1, <2>2, <2>4 DEF Around
<1>7. QED BY <1>5, <1>6

-------------------------------------------------------------------------------
(* Names: what is collected, from the innermost scope outwards.            *)

\* A query for a name, and what the scopes that were left contribute.
NameInv ==
  LET tree == query.tree  start == Start(tree, query.pos) IN
  /\ query.tree \in ScopeTrees /\ query.pos \in Places
  /\ current = {} /\ seen = {}
  /\ scope \in Around(tree, start) \cup {0}
  /\ candidates = {n \in query.fits : \E s \in Around(tree, start) \ Around(tree, scope) :
                      n \in DOMAIN tree.names[s] /\ LookupParent(tree, s, n, query.pos)}

-------------------------------------------------------------------------------
(* Members: what is scanned, depth by depth.                               *)

\* The sets of types that have the base and what their elements embed.
ClosedTypes(types, base) == {S \in SUBSET DOMAIN types : base \in S /\ \A u \in S : types[u].embeds \subseteq S}
Barred(q) ==
  /\ q.pointer \/ IgnoreMethod(q.types, q.pointer, q.type)
  /\ q.types[Deref(q.types, q.pointer, q.type)].kind = "interface"

\* A query for a member: what was scanned and is to be scanned, and what the former has.
MemberInv ==
  LET types == query.types  base == Deref(types, query.pointer, query.type) IN
  /\ types \in TypeGraphs /\ query.pointer \in BOOLEAN /\ query.type \in DOMAIN types
  /\ scope = 0
  /\ IF Barred(query) THEN current = {} /\ seen = {} ELSE base \in seen \cup current
  /\ seen \cup current \subseteq DOMAIN types
  /\ \A S \in ClosedTypes(types, base) : seen \cup current \subseteq S
  /\ \A u \in seen : types[u].embeds \subseteq seen \cup current
  /\ candidates = query.fits \cap
       UNION {Offered(types, IgnoreMethod(types, query.pointer, query.type), u) : u \in seen}

\* The inductive invariant.
CandidatesInv ==
  \/ query.about = "nothing" /\ scope = 0 /\ current = {} /\ seen = {} /\ candidates = {}
  \/ query.about = "name" /\ NameInv
  \/ query.about = "member" /\ MemberInv

\* Nothing was asked yet.
LEMMA InitCandidatesInv == CandidatesInit => CandidatesInv
BY DEF CandidatesInit, CandidatesInv

\* A name is asked for.
LEMMA CompleteNameInv ==
  ASSUME CandidatesAssumption, CandidatesInv, CompleteName
  PROVE  CandidatesInv'
<1>1. query.about = "nothing" /\ current = {} /\ seen = {} /\ candidates = {}
  BY DEF CompleteName, CandidatesInv
<1>2. PICK tree \in ScopeTrees, pos \in Places, fits \in Fits :
         /\ query' = [about |-> "name", tree |-> tree, pos |-> pos, fits |-> fits]
         /\ scope' = Start(tree, pos)
  BY DEF CompleteName, Start
<1>3. current' = {} /\ seen' = {} /\ candidates' = {} BY <1>1 DEF CompleteName
<1>4. query'.about = "name" /\ query'.tree = tree /\ query'.pos = pos /\ query'.fits = fits BY <1>2
<1>5. TreeOK(tree) /\ pos \in Nat BY DEF CandidatesAssumption
<1>6. Start(tree, pos) \in Around(tree, Start(tree, pos)) \cup {0}
  <2>1. Start(tree, pos) \in DOMAIN tree.around \cup {0} BY <1>5, SurroundingIs
  <2>2. QED BY <1>5, <2>1, TreeIs DEF Around
<1>7. NameInv'
  <2>1. {n \in fits : \E s \in Around(tree, Start(tree, pos)) \ Around(tree, Start(tree, pos)) :
                      n \in DOMAIN tree.names[s] /\ LookupParent(tree, s, n, pos)} = {}
    OBVIOUS
  <2>2. QED BY <1>2, <1>3, <1>4, <1>6, <2>1 DEF NameInv
<1>8. QED BY <1>4, <1>7 DEF CandidatesInv

\* The names of one more scope.
LEMMA ListCandidatesInv ==
  ASSUME CandidatesAssumption, CandidatesInv, ListCandidatesFromScope
  PROVE  CandidatesInv'
<1> DEFINE tree == query.tree
           pos == query.pos
           start == Start(tree, pos)
           p == Parent(tree, scope)
           Of(n, s) == n \in DOMAIN tree.names[s] /\ LookupParent(tree, s, n, pos)
<1>1. scope # 0 /\ query' = query /\ current' = current /\ seen' = seen BY DEF ListCandidatesFromScope
<1>2. query.about = "name" /\ NameInv BY <1>1 DEF CandidatesInv, MemberInv
<1>3. TreeOK(tree) /\ pos \in Nat BY <1>2 DEF NameInv, CandidatesAssumption
<1>4. scope \in Around(tree, start) BY <1>1, <1>2 DEF NameInv
<1>5. start \in DOMAIN tree.around /\ scope \in tree.around[start] /\ Around(tree, start) = tree.around[start]
  BY <1>3, <1>4, SurroundingIs DEF Around
<1>6. scope \in DOMAIN tree.around /\ tree.around[scope] \subseteq tree.around[start] BY <1>3, <1>5, AroundIn
<1>7. /\ p = 0 \/ p \in tree.around[scope]
      /\ tree.around[scope] = {scope} \cup Around(tree, p) /\ scope \notin Around(tree, p)
  BY <1>3, <1>6, ParentIs
<1>8. scope' = p /\ candidates' = candidates \cup {n \in DOMAIN tree.names[scope] \cap query.fits : Of(n, scope)}
  BY DEF ListCandidatesFromScope, LookupParent
<1> HIDE DEF p
<1>9. Around(tree, start) \ Around(tree, p) = (Around(tree, start) \ Around(tree, scope)) \cup {scope}
  BY <1>1, <1>5, <1>6, <1>7 DEF Around
<1>10. candidates = {n \in query.fits : \E s \in Around(tree, start) \ Around(tree, scope) : Of(n, s)}
  BY <1>2 DEF NameInv
<1> HIDE DEF Of, start
<1>11. {n \in DOMAIN tree.names[scope] \cap query.fits : Of(n, scope)} = {n \in query.fits : Of(n, scope)}
  BY DEF Of
<1>12. candidates' = {n \in query.fits : \E s \in Around(tree, start) \ Around(tree, p) : Of(n, s)}
  BY <1>8, <1>9, <1>10, <1>11
<1>13. p \in Around(tree, start) \cup {0} BY <1>5, <1>6, <1>7
<1>14. NameInv'
  BY <1>1, <1>2, <1>8, <1>12, <1>13 DEF NameInv, Of, start
<1>15. QED BY <1>1, <1>2, <1>14 DEF CandidatesInv

\* A member is asked for.
LEMMA ScanFieldOrMethodInv ==
  ASSUME CandidatesAssumption, CandidatesInv, ScanFieldOrMethod
  PROVE  CandidatesInv'
<1>1. query.about = "nothing" /\ scope = 0 /\ seen = {} /\ candidates = {}
  BY DEF ScanFieldOrMethod, CandidatesInv
<1>a. PICK types \in TypeGraphs, pointer \in BOOLEAN, fits \in Fits : \E t \in DOMAIN types :
         /\ query' = [about |-> "member", types |-> types, pointer |-> pointer, type |-> t, fits |-> fits]
         /\ current' = IF /\ pointer \/ IgnoreMethod(types, pointer, t)
                          /\ types[Deref(types, pointer, t)].kind = "interface"
                       THEN {} ELSE {Deref(types, pointer, t)}
  BY DEF ScanFieldOrMethod
<1>2. PICK t \in DOMAIN types :
         /\ query' = [about |-> "member", types |-> types, pointer |-> pointer, type |-> t, fits |-> fits]
         /\ current' = IF /\ pointer \/ IgnoreMethod(types, pointer, t)
                          /\ types[Deref(types, pointer, t)].kind = "interface"
                       THEN {} ELSE {Deref(types, pointer, t)}
  BY <1>a
<1>3. scope' = 0 /\ seen' = {} /\ candidates' = {} BY <1>1 DEF ScanFieldOrMethod
<1>4. /\ query'.about = "member" /\ query'.types = types /\ query'.pointer = pointer
      /\ query'.type = t /\ query'.fits = fits
  BY <1>2
<1> DEFINE base == Deref(types, pointer, t)
<1>5. base \in DOMAIN types
  <2>1. TypesOK(types) BY DEF CandidatesAssumption
  <2>2. QED BY <2>1 DEF TypesOK, Deref, IgnoreMethod
<1> HIDE DEF base
<1>6. current' = IF Barred(query') THEN {} ELSE {base} BY <1>2, <1>4 DEF Barred, base
<1>7. MemberInv'
  <2>1. current' \subseteq {base} BY <1>6
  <2>2. \A S \in ClosedTypes(types, base) : seen' \cup current' \subseteq S BY <1>3, <2>1 DEF ClosedTypes
  <2>3. UNION {Offered(types, IgnoreMethod(types, pointer, t), u) : u \in seen'} = {} BY <1>3
  <2>4. seen' \cup current' \subseteq DOMAIN types BY <1>3, <1>5, <2>1
  <2>5. IF Barred(query') THEN current' = {} /\ seen' = {} ELSE base \in seen' \cup current' BY <1>3, <1>6
  <2>6. QED BY <1>3, <1>4, <2>2, <2>3, <2>4, <2>5 DEF MemberInv, base, Barred
<1>8. QED BY <1>4, <1>7 DEF CandidatesInv

\* The types of one more depth.
LEMMA ScanDepthInv ==
  ASSUME CandidatesAssumption, CandidatesInv, ScanDepth
  PROVE  CandidatesInv'
<1> DEFINE types == query.types
           ignore == IgnoreMethod(types, query.pointer, query.type)
           base == Deref(types, query.pointer, query.type)
           level == current \ seen
<1>1. current # {} /\ query' = query /\ scope' = scope BY DEF ScanDepth
<1>2. query.about = "member" /\ MemberInv BY <1>1 DEF CandidatesInv, NameInv
<1>3. TypesOK(types) BY <1>2 DEF MemberInv, CandidatesAssumption
<1>4. /\ seen' = seen \cup level
      /\ candidates' = candidates \cup (query.fits \cap UNION {Offered(types, ignore, u) : u \in level})
      /\ current' = Embeds(types, level)
  BY DEF ScanDepth
<1>5. seen \cup current \subseteq DOMAIN types BY <1>2 DEF MemberInv
<1>6. Embeds(types, level) = UNION {types[u].embeds : u \in level} BY <1>3, <1>5 DEF Embeds, TypesOK
<1> HIDE DEF level
<1>7. level = current \ seen BY DEF level
<1>8. \A u \in DOMAIN types : types[u].embeds \subseteq DOMAIN types BY <1>3 DEF TypesOK
<1>9. ~Barred(query) /\ base \in seen \cup current BY <1>1, <1>2 DEF MemberInv
<1>10. candidates = query.fits \cap UNION {Offered(types, ignore, u) : u \in seen} BY <1>2 DEF MemberInv
<1>11. \A u \in seen : types[u].embeds \subseteq seen \cup current BY <1>2 DEF MemberInv
<1>12. \A S \in ClosedTypes(types, base) : seen \cup current \subseteq S BY <1>2 DEF MemberInv
<1> HIDE DEF types, ignore, base
<1>13. seen' \cup current' \subseteq DOMAIN types BY <1>4, <1>5, <1>6, <1>7, <1>8
<1>14. base \in seen' \cup current' BY <1>4, <1>7, <1>9
<1>15. ASSUME NEW S \in ClosedTypes(types, base) PROVE seen' \cup current' \subseteq S
  <2>1. seen \cup current \subseteq S BY <1>12
  <2>2. \A u \in S : types[u].embeds \subseteq S BY DEF ClosedTypes
  <2>3. QED BY <1>4, <1>6, <1>7, <2>1, <2>2
<1>16. \A u \in seen' : types[u].embeds \subseteq seen' \cup current' BY <1>4, <1>6, <1>7, <1>11
<1>17. candidates' = query.fits \cap UNION {Offered(types, ignore, u) : u \in seen'} BY <1>4, <1>10
<1>18. MemberInv'
  <2>1. /\ types \in TypeGraphs /\ query.pointer \in BOOLEAN /\ query.type \in DOMAIN types /\ scope = 0
    BY <1>2 DEF MemberInv, types
  <2>2. ~Barred(query') BY <1>1, <1>9
  <2>3. QED BY <1>1, <1>13, <1>14, <1>15, <1>16, <1>17, <2>1, <2>2 DEF MemberInv, types, ignore, base
<1>19. QED BY <1>1, <1>2, <1>18 DEF CandidatesInv

\* Nothing changes.
LEMMA CandidatesStutter ==
  ASSUME CandidatesInv, UNCHANGED candidatesVars
  PROVE  CandidatesInv'
<1>1. query' = query /\ scope' = scope /\ current' = current /\ seen' = seen /\ candidates' = candidates
  BY DEF candidatesVars
<1>2. NameInv' <=> NameInv BY <1>1 DEF NameInv
<1>3. MemberInv' <=> MemberInv BY <1>1 DEF MemberInv
<1>4. QED BY <1>1, <1>2, <1>3 DEF CandidatesInv

-------------------------------------------------------------------------------
(* What is offered at the end.                                             *)

\* The names are those of the scopes around the cursor.
LEMMA NamesAreRight ==
  ASSUME CandidatesAssumption, NameInv, scope = 0
  PROVE  candidates = query.fits \cap Denotable(query.tree, query.pos)
<1> DEFINE tree == query.tree
           pos == query.pos
           around == Around(tree, Start(tree, pos))
<1>1. TreeOK(tree) /\ pos \in Nat BY DEF NameInv, CandidatesAssumption
<1>2. candidates = {n \in query.fits : \E s \in around : n \in DOMAIN tree.names[s] /\ LookupParent(tree, s, n, pos)}
  <2>1. Around(tree, scope) = {} BY DEF Around
  <2>2. around \ {} = around OBVIOUS
  <2>3. QED BY <2>1, <2>2 DEF NameInv
<1>3. Denotable(tree, pos) = UNION {{n \in DOMAIN tree.names[s] : tree.names[s][n] <= pos} : s \in around}
  BY <1>1, SurroundingIs DEF Denotable
<1>4. Start(tree, pos) \in DOMAIN tree.around \cup {0} BY <1>1, SurroundingIs
<1>5. \A s \in around : s \in Around(tree, s) /\ Around(tree, s) \subseteq around
  <2>1. SUFFICES ASSUME NEW s \in around PROVE s \in Around(tree, s) /\ Around(tree, s) \subseteq around OBVIOUS
  <2>2. Start(tree, pos) \in DOMAIN tree.around /\ around = tree.around[Start(tree, pos)] BY <1>4 DEF Around
  <2>3. s \in DOMAIN tree.around /\ tree.around[s] \subseteq around BY <1>1, <2>2, AroundIn
  <2>4. s # 0 /\ s \in tree.around[s] BY <1>1, <2>3, TreeIs
  <2>5. QED BY <2>3, <2>4 DEF Around
<1> HIDE DEF around
<1>6. ASSUME NEW n
      PROVE  (\E s \in around : n \in DOMAIN tree.names[s] /\ LookupParent(tree, s, n, pos))
               <=> \E s \in around : n \in DOMAIN tree.names[s] /\ tree.names[s][n] <= pos
  BY <1>5 DEF LookupParent
<1>7. QED BY <1>2, <1>3, <1>6

\* What a path of embedded types leads to was scanned.
LEMMA PathSeen ==
  ASSUME NEW types, NEW base, NEW S, base \in S, \A u \in S : types[u].embeds \subseteq S,
         NEW depth \in Nat, NEW p \in Paths(types, base, depth)
  PROVE  p[depth] \in S
<1> DEFINE G == {i \in Nat : i <= depth => p[i] \in S}
<1>1. p[0] = base /\ \A i \in 1 .. depth : p[i] \in types[p[i - 1]].embeds BY DEF Paths
<1>2. 0 \in G BY <1>1
<1>3. ASSUME NEW i \in Nat, i \in G PROVE i + 1 \in G
  <2>1. SUFFICES ASSUME i + 1 <= depth PROVE p[i + 1] \in S OBVIOUS
  <2>2. i + 1 \in 1 .. depth /\ (i + 1) - 1 = i /\ i <= depth BY <2>1
  <2>3. p[i + 1] \in types[p[i]].embeds BY <1>1, <2>2
  <2>4. p[i] \in S BY <1>3, <2>2
  <2>5. QED BY <2>3, <2>4
<1> HIDE DEF G
<1>4. Nat \subseteq G BY <1>2, <1>3, SetInduction
<1>5. depth \in G BY <1>4
<1>6. QED BY <1>5 DEF G

\* The members are all that can be selected, and only what is promoted.
LEMMA MembersAreRight ==
  ASSUME CandidatesAssumption, MemberInv, current = {}
  PROVE  /\ query.fits \cap Selectable(query.types, query.pointer, query.type) \subseteq candidates
         /\ candidates \subseteq query.fits \cap Promoted(query.types, query.pointer, query.type)
<1> DEFINE types == query.types
           pointer == query.pointer
           t == query.type
           ignore == IgnoreMethod(types, pointer, t)
           base == Deref(types, pointer, t)
           members(u) == types[u].fields \cup types[u].embeds \cup (IF ignore THEN {} ELSE types[u].methods)
           all(u) == types[u].fields \cup types[u].embeds \cup types[u].methods
           leading(n, depth) == {p \in Paths(types, base, depth) : n \in members(p[depth])}
<1>1. TypesOK(types) BY DEF MemberInv, CandidatesAssumption
<1>2. base \in DOMAIN types /\ t \in DOMAIN types
  BY <1>1 DEF MemberInv, TypesOK, Deref, IgnoreMethod
<1>3. /\ seen \subseteq DOMAIN types /\ \A S \in ClosedTypes(types, base) : seen \subseteq S
      /\ \A u \in seen : types[u].embeds \subseteq seen
      /\ candidates = query.fits \cap UNION {Offered(types, ignore, u) : u \in seen}
      /\ IF Barred(query) THEN seen = {} ELSE base \in seen
  <2>1. seen \cup current = seen OBVIOUS
  <2>2. QED BY <2>1 DEF MemberInv
<1>4. \A u \in DOMAIN types : members(u) \subseteq Offered(types, ignore, u) /\ Offered(types, ignore, u) \subseteq all(u)
  BY <1>1 DEF TypesOK, Offered
<1>5. ASSUME NEW n \in Selectable(types, pointer, t), n \in query.fits PROVE n \in candidates
  <2>1. ~(pointer /\ types[base].kind = "interface") BY <1>5 DEF Selectable
  <2>2. PICK depth \in 0 .. (Cardinality(DOMAIN types) - 1) : \E p \in leading(n, depth) : TRUE
    BY <1>5 DEF Selectable
  <2>3. PICK p \in Paths(types, base, depth) : n \in members(p[depth]) BY <2>2
  <2>4. depth \in Nat
    <3>1. Cardinality(DOMAIN types) \in Nat BY <1>1, FS_CardinalityType DEF TypesOK
    <3>2. QED BY <3>1
  <2>5. CASE Barred(query)
    <3>1. types[base].kind = "interface" /\ ignore /\ pointer = FALSE BY <2>1, <2>5 DEF Barred, IgnoreMethod, MemberInv
    <3>2. types[base].embeds = {} /\ types[base].fields = {} BY <1>1, <1>2, <3>1 DEF TypesOK
    <3>3. p[depth] \in {base}
      <4>1. \A u \in {base} : types[u].embeds \subseteq {base} BY <3>2
      <4>2. QED BY <2>4, <4>1, PathSeen
    <3>4. QED BY <2>3, <3>1, <3>2, <3>3
  <2>6. CASE ~Barred(query)
    <3>1. p[depth] \in seen BY <1>3, <2>4, <2>6, PathSeen
    <3>2. n \in Offered(types, ignore, p[depth]) BY <1>3, <1>4, <2>3, <3>1
    <3>3. QED BY <1>3, <1>5, <3>1, <3>2
  <2>7. QED BY <2>5, <2>6
<1>6. ASSUME NEW n \in candidates PROVE n \in query.fits /\ n \in Promoted(types, pointer, t)
  <2>1. PICK u \in seen : n \in Offered(types, ignore, u) BY <1>3
  <2>2. n \in all(u) /\ u \in DOMAIN types BY <1>3, <1>4, <2>1
  <2>3. \A S \in ClosedTypes(types, base) : \E w \in S : n \in all(w) BY <1>3, <2>2
  <2>4. n \in UNION {all(w) : w \in DOMAIN types} BY <2>2
  <2>5. n \in Promoted(types, pointer, t) BY <2>3, <2>4 DEF Promoted, ClosedTypes
  <2>6. QED BY <1>3, <2>5
<1>7. QED BY <1>5, <1>6

\* Both, in the property's words.
LEMMA InvOffersValid ==
  ASSUME CandidatesAssumption, CandidatesInv
  PROVE  OffersValid
<1>1. CASE query.about = "nothing" BY <1>1 DEF OffersValid, Answered
<1>2. CASE query.about = "name" /\ NameInv BY <1>2, NamesAreRight DEF OffersValid, Answered
<1>3. CASE query.about = "member" /\ MemberInv BY <1>3, MembersAreRight DEF OffersValid, Answered
<1>4. QED BY <1>1, <1>2, <1>3 DEF CandidatesInv

(* The inductive invariant of a completion: what the scopes that were left *)
(* contribute, and that what was scanned is connected and closed up to     *)
(* what comes next (listCandidatesFromScope, scanFieldOrMethod).           *)
THEOREM CandidatesInvariance == CandidatesSpec => []CandidatesInv
<1>1. CandidatesInit => CandidatesInv BY InitCandidatesInv
<1>2. CandidatesInv /\ [CandidatesNext]_candidatesVars => CandidatesInv'
  <2>1. SUFFICES ASSUME CandidatesInv, [CandidatesNext]_candidatesVars PROVE CandidatesInv' OBVIOUS
  <2>2. CASE CompleteName BY <2>1, <2>2, CompleteNameInv, CandidatesAssumption
  <2>3. CASE ListCandidatesFromScope BY <2>1, <2>3, ListCandidatesInv, CandidatesAssumption
  <2>4. CASE ScanFieldOrMethod BY <2>1, <2>4, ScanFieldOrMethodInv, CandidatesAssumption
  <2>5. CASE ScanDepth BY <2>1, <2>5, ScanDepthInv, CandidatesAssumption
  <2>6. CASE UNCHANGED candidatesVars BY <2>1, <2>6, CandidatesStutter
  <2>7. QED BY <2>1, <2>2, <2>3, <2>4, <2>5, <2>6 DEF CandidatesNext
<1>3. QED BY <1>1, <1>2, PTL DEF CandidatesSpec

(* Completion offers the names that an identifier at the cursor can        *)
(* denote, and the members that Go can select, for every tree of scopes    *)
(* and every graph of types, as large and as cyclic as they may be.        *)
THEOREM OffersAreValid == CandidatesSpec => []OffersValid
<1>1. CandidatesInv => OffersValid BY InvOffersValid, CandidatesAssumption
<1>2. QED BY <1>1, CandidatesInvariance, PTL
===============================================================================
