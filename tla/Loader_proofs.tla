----------------------------- MODULE Loader_proofs -----------------------------
(***************************************************************************)
(* Proofs about Loader, for any files, packages and number of versions.      *)
(*                                                                         *)
(* LoadedIsCurrent speaks of the end of a start only.  LoaderInv says what    *)
(* leads there: between starts the files are of the current version, or the   *)
(* server has a newer one, which the next start will find (KeptInv); in a     *)
(* pass of downloadFiles what is fetched is not older than the current        *)
(* version and, because the version file comes last, not newer than it        *)
(* (PassInv).                                                                *)
(***************************************************************************)
EXTENDS Loader, TLAPS

Passing == phase \in {"bootstrap", "fetch"}
Running == phase \in {"load", "data", "run"}

PhaseInv ==
  /\ phase # "off" => since.loader \in Versions /\ since.loader <= published.loader
  /\ phase # "off" => \A p \in Packages : since.package[p] \in Versions /\ since.package[p] <= published.package[p]
  /\ phase = "fetch" /\ LatestFile \notin todo => todo = {}
  /\ phase = "check" => todo = {}
  /\ phase \in {"bootstrap", "fetch", "check"} => \A p \in Packages : loads[p] = 0
  /\ phase = "data" => package \in Packages /\ loads[package] > 0
  /\ phase = "run" => \A p \in Packages : loads[p] > 0
  /\ phase = "check" /\ force => Bootstrap \notin interrupted

\* Nothing is newer than what is published.
PublishedInv ==
  /\ \A f \in Files : disk[f] \in Versions => disk[f] <= published.loader
  /\ current \in Versions => current <= published.loader
  /\ \A p \in Packages : info[p] \in Versions => info[p] <= published.package[p]

\* The version file of this start.
LatestInv ==
  (phase = "fetch" /\ LatestFile \notin todo) \/ phase = "check" \/ Running =>
    /\ disk[LatestFile] \in Versions
    /\ disk[LatestFile] >= since.loader
    /\ current \in Versions => disk[LatestFile] >= current
    /\ Running => current = disk[LatestFile]

KeptInv ==
  Bootstrap \notin interrupted /\ ~(force /\ Passing) /\ current \in Versions =>
    (\A f \in Kept \cup {Bootstrap} : disk[f] = current) \/ published.loader > current

\* What was fetched in this pass.
Done == IF force THEN {Bootstrap} \cup (Fetched \ todo) ELSE {OptionsFile} \ todo

PassInv ==
  /\ phase = "fetch" /\ LatestFile \in todo /\ current \in Versions =>
       \A f \in Done : disk[f] \in Versions /\ disk[f] >= current
  /\ phase \in {"fetch", "check"} /\ LatestFile \notin todo /\ current = disk[LatestFile]
       /\ (Bootstrap \notin interrupted \/ (force /\ phase = "fetch")) =>
         \A f \in Files : disk[f] = current

LoaderInv == PhaseInv /\ PublishedInv /\ LatestInv /\ KeptInv /\ PassInv /\ LoadedIsCurrent

\* The two files of a package.
Pending(p) == phase = "data" /\ package = p /\ loads[p] = 1
PackageInv ==
  \A p \in Packages :
    /\ info[p] = Missing => data[p] = Missing
    /\ p \notin interrupted /\ info[p] = Empty => data[p] = Missing
    /\ p \notin interrupted /\ info[p] \in Versions =>
         data[p] \in {Missing, Empty} \/ data[p] >= info[p] \/ (Pending(p) /\ p \in forced)
    /\ Running /\ loads[p] > 0 =>
         info[p] \in Versions /\ info[p] >= since.package[p] /\ (Pending(p) \/ data[p] \in Versions)

Inv == TypeOK /\ LoaderInv /\ PackageInv
-----------------------------------------------------------------------------
(* What the files and versions are. *)
LEMMA Facts ==
  /\ Files = Kept \cup {Bootstrap, OptionsFile, LatestFile}
  /\ Bootstrap \notin Fetched /\ {OptionsFile, LatestFile} \subseteq Fetched /\ OptionsFile # LatestFile
  /\ {Bootstrap, OptionsFile, LatestFile} \cap Kept = {}
  /\ Versions \subseteq Nat /\ Missing \notin Versions /\ Empty \notin Versions /\ Empty # Missing
  /\ 1 \in Versions /\ 1 \in Nat
  /\ Bootstrap \notin Packages
BY FilesAssumption, NamesAssumption, BoundsAssumption
   DEF Files, Fetched, Bootstrap, OptionsFile, LatestFile, Versions, Missing

\* Versions are ordered as numbers are.
LEMMA VersionOrder ==
  ASSUME NEW u \in Versions, NEW v \in Versions
  PROVE  /\ u >= v /\ u <= v => u = v
         /\ u = v => ~(u > v)
BY BoundsAssumption DEF Versions

\* The fields of the server's versions.
LEMMA PublishedTypes ==
  ASSUME TypeOK
  PROVE  published.loader \in Versions /\ \A p \in Packages : published.package[p] \in Versions
BY DEF TypeOK, Publications

-----------------------------------------------------------------------------
(* Type correctness, step by step. *)
LEMMA InitType == Init => TypeOK
<1> SUFFICES ASSUME Init PROVE TypeOK
  OBVIOUS
<1>1. 0 \in 0 .. MaxLoads
  BY BoundsAssumption
<1>2. published \in Publications /\ since = published
  BY Facts DEF Init, Publications
<1>3. disk \in [Files -> Content] /\ info \in [Packages -> Content] /\ data \in [Packages -> Content]
  BY DEF Init, Content
<1> QED
  BY <1>1, <1>2, <1>3 DEF Init, TypeOK, Content

LEMMA ServerType ==
  ASSUME TypeOK, Publish \/ \E p \in Packages : PublishPackage(p)
  PROVE  /\ TypeOK'
         /\ published'.loader >= published.loader
         /\ \A p \in Packages : published'.package[p] >= published.package[p]
         /\ UNCHANGED <<loaderVars, packageVars, phase, since, interrupted>>
<1>1. /\ published'.loader \in Versions /\ published'.loader >= published.loader
      /\ \A p \in Packages : published'.package[p] \in Versions /\ published'.package[p] >= published.package[p]
      /\ published' \in Publications
  <2>1. CASE Publish
    BY <2>1, BoundsAssumption DEF Publish, TypeOK, Publications, Versions
  <2>2. ASSUME NEW p \in Packages, PublishPackage(p) PROVE <1>1
    <3> DEFINE q == [published.package EXCEPT ![p] = published.package[p] + 1]
    <3>1. published' = [published EXCEPT !.package = q]
      BY <2>2 DEF PublishPackage
    <3>2. q \in [Packages -> Versions] /\ \A r \in Packages : q[r] >= published.package[r]
      BY <2>2, BoundsAssumption DEF PublishPackage, TypeOK, Publications, Versions
    <3> HIDE DEF q
    <3> QED
      BY <3>1, <3>2, BoundsAssumption DEF TypeOK, Publications, Versions
  <2> QED
    BY <2>1, <2>2
<1>2. UNCHANGED <<loaderVars, packageVars, phase, since, interrupted>>
  BY DEF Publish, PublishPackage
<1>3. TypeOK'
  BY <1>1, <1>2 DEF TypeOK, loaderVars, packageVars
<1> QED
  BY <1>1, <1>2, <1>3

LEMMA ComputerType ==
  ASSUME TypeOK, Start \/ Stop \/ Computer
  PROVE  TypeOK'
<1> USE Facts, PublishedTypes DEF TypeOK, Content
<1>1. CASE Start
  <2>1. 0 \in 0 .. MaxLoads
    BY BoundsAssumption
  <2>2. loads' \in [Packages -> 0 .. MaxLoads]
    BY <1>1, <2>1 DEF Start
  <2> QED
    BY <1>1, <2>2 DEF Start
<1>2. Updating \subseteq Packages \cup {Bootstrap}
  BY DEF Updating
<1>3. CASE Stop
  BY <1>2, <1>3 DEF Stop, Ends, EndsWith
<1>4. ASSUME NEW f \in Files, EndsInLoader(f) PROVE TypeOK'
  BY <1>2, <1>4 DEF EndsInLoader, EndsWith
<1>5. CASE FetchBootstrap \/ KeepBootstrap
  <2>1. Bootstrap \in Files
    OBVIOUS
  <2>2. CASE EndsInLoader(Bootstrap)
    BY <2>1, <2>2, <1>4
  <2>3. CASE KeepBootstrap
    BY <2>3 DEF KeepBootstrap, packageVars
  <2>4. CASE FetchBootstrap /\ ~EndsInLoader(Bootstrap)
    BY <2>1, <2>4 DEF FetchBootstrap, packageVars
  <2> QED
    BY <1>5, <2>2, <2>3, <2>4
<1>6. ASSUME NEW f \in Fetched, FetchFile(f) \/ KeepFile(f) PROVE TypeOK'
  <2>1. f \in Files
    BY <1>6 DEF Files
  <2>2. CASE EndsInLoader(f)
    BY <2>1, <2>2, <1>4
  <2>3. CASE KeepFile(f)
    BY <2>3 DEF KeepFile, packageVars
  <2>4. CASE FetchFile(f) /\ ~EndsInLoader(f)
    BY <2>1, <2>4 DEF FetchFile, packageVars
  <2> QED
    BY <1>6, <2>2, <2>3, <2>4
<1>7. CASE LoadFiles \/ CheckVersion
  <2>1. LatestFile \in Files
    OBVIOUS
  <2>2. CASE LoadFiles
    BY <2>2 DEF LoadFiles, loaderVars, packageVars
  <2>3. CASE CheckVersion
    <3>1. current' \in Content /\ force' \in BOOLEAN /\ phase' \in {"load", "bootstrap"}
      BY <2>1, <2>3 DEF CheckVersion
    <3> QED
      BY <2>3, <3>1 DEF CheckVersion, packageVars
  <2> QED
    BY <1>7, <2>2, <2>3
<1>8. CASE StopInCheckVersion
  BY <1>8 DEF StopInCheckVersion, EndsWith
<1>9. ASSUME NEW p \in Packages, LoadPackage(p) PROVE TypeOK'
  BY <1>9, BoundsAssumption DEF LoadPackage, loaderVars
<1>10. ASSUME NEW p \in Packages, StopInLoadPackage(p) PROVE TypeOK'
  BY <1>10 DEF StopInLoadPackage, EndsWith
<1>11. ASSUME NEW p \in Packages, LoadedPackage(p) PROVE TypeOK'
  BY <1>11, BoundsAssumption DEF LoadedPackage, loaderVars
<1>12. CASE FetchData \/ KeepData
  <2>1. data' \in [Packages -> Content]
    BY <1>12 DEF FetchData, KeepData, packageVars
  <2> QED
    BY <1>2, <1>12, <2>1 DEF FetchData, KeepData, loaderVars, packageVars, EndsWith
<1>13. CASE Run
  BY <1>13 DEF Run, loaderVars, packageVars
<1> QED
  BY <1>1, <1>3, <1>5, <1>6, <1>7, <1>8, <1>9, <1>10, <1>11, <1>12, <1>13 DEF Computer

-----------------------------------------------------------------------------
(* The loader's invariant, step by step. *)

\* A new version on the server changes nothing on the computer.
LEMMA ServerKeepsLoader ==
  ASSUME Inv, Publish \/ \E p \in Packages : PublishPackage(p)
  PROVE  LoaderInv'
<1>1. /\ TypeOK /\ TypeOK'
      /\ published'.loader >= published.loader
      /\ \A p \in Packages : published'.package[p] >= published.package[p]
      /\ UNCHANGED <<disk, current, force, todo, info, data, loads, package, forced, phase, since, interrupted>>
  BY ServerType DEF Inv, loaderVars, packageVars
<1>2. /\ Versions \subseteq Nat
      /\ published.loader \in Versions /\ published'.loader \in Versions
      /\ \A p \in Packages : published.package[p] \in Versions /\ published'.package[p] \in Versions
  <2>1. \A p \in Packages : published.package[p] \in Versions /\ published'.package[p] \in Versions
    BY <1>1 DEF TypeOK, Publications
  <2> QED
    BY <1>1, <2>1, Facts DEF TypeOK, Publications
<1> DEFINE old == published.loader
           new == published'.loader
<1>3. /\ \A v \in Versions : (v <= old => v <= new) /\ (old > v => new > v)
      /\ \A p \in Packages, v \in Versions : v <= published.package[p] => v <= published'.package[p]
  <2>1. \A v, a, b \in Nat : b >= a => (v <= a => v <= b) /\ (a > v => b > v)
    OBVIOUS
  <2> QED
    BY <2>1, <1>1, <1>2
<1>4. PhaseInv'
  <2>1. phase # "off" => since.loader \in Versions /\ since.loader <= new
    BY <1>3 DEF Inv, LoaderInv, PhaseInv
  <2>2. phase # "off" => \A p \in Packages : since.package[p] \in Versions /\ since.package[p] <= published'.package[p]
    BY <1>3 DEF Inv, LoaderInv, PhaseInv
  <2> HIDE DEF old, new
  <2> QED
    BY <1>1, <2>1, <2>2 DEF Inv, LoaderInv, PhaseInv, new
<1>5. PublishedInv'
  BY <1>1, <1>3 DEF Inv, LoaderInv, PublishedInv
<1>6. KeptInv'
  BY <1>1, <1>3 DEF Inv, LoaderInv, KeptInv, Passing
<1>7. LatestInv' /\ PassInv' /\ LoadedIsCurrent'
  BY <1>1 DEF Inv, LoaderInv, LatestInv, PassInv, LoadedIsCurrent, Running, Passing, Done
<1> QED
  BY <1>4, <1>5, <1>6, <1>7 DEF LoaderInv

\* A start that ends leaves files that the next start can work with, or is remembered.
LEMMA EndKeepsLoader ==
  ASSUME Inv, NEW lost, EndsWith(lost), Passing /\ force => Bootstrap \in lost,
         \A f \in Files : \/ disk'[f] = disk[f]
                          \/ /\ disk'[f] = Empty
                             /\ f \in Kept \cup {Bootstrap} => disk[f] = Missing \/ (Passing /\ force),
         current' \in {current, Empty},
         \A p \in Packages : info'[p] \in {info[p], Empty}
  PROVE  LoaderInv'
<1>1. /\ phase' = "off" /\ interrupted' = interrupted \cup lost
      /\ UNCHANGED <<published, force, todo, loads, package, forced, since>>
  BY DEF EndsWith
<1>2. PhaseInv' /\ LatestInv' /\ PassInv' /\ LoadedIsCurrent'
  BY <1>1 DEF PhaseInv, LatestInv, PassInv, LoadedIsCurrent, Running
<1>3. PublishedInv'
  BY <1>1, Facts DEF Inv, LoaderInv, PublishedInv
<1>4. KeptInv'
  <2> SUFFICES ASSUME Bootstrap \notin interrupted, ~(Passing /\ force), current \in Versions, current' = current
               PROVE  (\A f \in Kept \cup {Bootstrap} : disk'[f] = current) \/ published.loader > current
    BY <1>1, Facts DEF KeptInv
  <2>1. (\A f \in Kept \cup {Bootstrap} : disk[f] = current) \/ published.loader > current
    BY DEF Inv, LoaderInv, KeptInv
  <2> QED
    BY <2>1, Facts
<1> QED
  BY <1>2, <1>3, <1>4 DEF LoaderInv

\* While the packages are loaded and the program runs, the loader's files do not change.
LEMMA RunKeepsLoader ==
  ASSUME Inv, Running, Running', UNCHANGED <<published, loaderVars, since>>,
         Bootstrap \in interrupted' <=> Bootstrap \in interrupted,
         phase' = "data" => package' \in Packages /\ loads'[package'] > 0,
         phase' = "run" => \A p \in Packages : loads'[p] > 0,
         \A p \in Packages : info'[p] \in Versions => info'[p] <= published.package[p]
  PROVE  LoaderInv'
<1> USE DEF loaderVars
<1>1. PhaseInv'
  BY DEF Inv, LoaderInv, PhaseInv, Running
<1>2. PublishedInv'
  BY DEF Inv, LoaderInv, PublishedInv
<1>3. LatestInv'
  BY DEF Inv, LoaderInv, LatestInv, Running
<1>4. KeptInv' /\ PassInv'
  BY DEF Inv, LoaderInv, KeptInv, PassInv, Running, Passing
<1>5. LoadedIsCurrent'
  BY DEF Inv, LoaderInv, LoadedIsCurrent, Running
<1> QED
  BY <1>1, <1>2, <1>3, <1>4, <1>5 DEF LoaderInv

LEMMA StartKeepsLoader == ASSUME Inv, Start PROVE LoaderInv'
<1> USE DEF Start
<1>1. /\ published.loader \in Versions /\ Versions \subseteq Nat
      /\ \A p \in Packages : published.package[p] \in Versions
  BY Facts, PublishedTypes DEF Inv
<1>2. PhaseInv'
  <2>1. since' = published /\ published' = published
    OBVIOUS
  <2>2. \A v \in Nat : v <= v
    OBVIOUS
  <2>3. /\ since'.loader \in Versions /\ since'.loader <= published'.loader
        /\ \A p \in Packages : since'.package[p] \in Versions /\ since'.package[p] <= published'.package[p]
    BY <1>1, <2>1, <2>2
  <2>4. phase' = "bootstrap" /\ \A p \in Packages : loads'[p] = 0
    OBVIOUS
  <2> QED
    BY <2>3, <2>4 DEF PhaseInv
<1>3. PublishedInv'
  BY DEF Inv, LoaderInv, PublishedInv
<1>4. LatestInv' /\ PassInv' /\ LoadedIsCurrent'
  BY DEF LatestInv, PassInv, LoadedIsCurrent, Running
<1>5. KeptInv'
  BY DEF Inv, LoaderInv, KeptInv, Passing
<1> QED
  BY <1>2, <1>3, <1>4, <1>5 DEF LoaderInv

\* A pass of downloadFiles begins.
LEMMA BootstrapKeepsLoader ==
  ASSUME Inv, TypeOK', (FetchBootstrap /\ ~EndsInLoader(Bootstrap)) \/ KeepBootstrap
  PROVE  LoaderInv'
<1> USE Facts
<1>1. /\ phase = "bootstrap" /\ phase' = "fetch" /\ todo' = Fetched
      /\ UNCHANGED <<published, current, force, packageVars, since, interrupted>>
  BY DEF FetchBootstrap, KeepBootstrap
<1>2. /\ \A f \in Files : f # Bootstrap => disk'[f] = disk[f]
      /\ \/ disk'[Bootstrap] = disk[Bootstrap] /\ ~force
         \/ disk'[Bootstrap] = published.loader /\ (disk[Bootstrap] = Missing \/ force)
  BY DEF FetchBootstrap, KeepBootstrap, Inv, TypeOK
<1>3. published.loader \in Versions /\ \A v \in Versions : v <= v
  BY PublishedTypes DEF Inv
<1>4. PhaseInv'
  BY <1>1 DEF Inv, LoaderInv, PhaseInv, packageVars
<1>5. PublishedInv'
  BY <1>1, <1>2, <1>3 DEF Inv, LoaderInv, PublishedInv, packageVars
<1>6. LatestInv' /\ LoadedIsCurrent'
  BY <1>1 DEF LatestInv, LoadedIsCurrent, Running
<1>7. KeptInv'
  BY <1>1, <1>2, <1>3 DEF Inv, LoaderInv, KeptInv, Passing
<1>8. PassInv'
  <2> SUFFICES ASSUME current \in Versions, NEW f \in Done'
               PROVE  disk'[f] \in Versions /\ disk'[f] >= current
    BY <1>1 DEF PassInv
  <2>1. f = Bootstrap /\ force
    BY <1>1 DEF Done
  <2>2. current <= published.loader
    BY DEF Inv, LoaderInv, PublishedInv
  <2> QED
    BY <2>1, <2>2, <1>2, <1>3
<1> QED
  BY <1>4, <1>5, <1>6, <1>7, <1>8 DEF LoaderInv

\* A file that is fetched has a version between the current and the published one.
LEMMA FileKeepsLoader ==
  ASSUME Inv, TypeOK', NEW f \in Fetched, (FetchFile(f) /\ ~EndsInLoader(f)) \/ KeepFile(f)
  PROVE  LoaderInv'
<1> USE Facts
<1>1. /\ phase = "fetch" /\ phase' = "fetch" /\ f \in todo /\ todo' = todo \ {f}
      /\ f = LatestFile => todo = {LatestFile}
      /\ UNCHANGED <<published, current, force, packageVars, since, interrupted>>
  BY DEF FetchFile, KeepFile, IsNext
<1>2. /\ \A g \in Files : g # f => disk'[g] = disk[g]
      /\ \/ disk'[f] = disk[f] /\ ~MustFetch(f)
         \/ disk'[f] = published.loader /\ MustFetch(f)
  BY DEF FetchFile, KeepFile, Inv, TypeOK, Files
<1>3. published.loader \in Versions /\ \A v \in Versions : v <= v
  BY PublishedTypes DEF Inv
<1>4. f \in Files /\ f # Bootstrap /\ Fetched \subseteq Files
  BY DEF Files
<1>5. current \in Versions => current <= published.loader
  BY DEF Inv, LoaderInv, PublishedInv
<1>6. \A g \in Files : disk[g] \in Versions => disk[g] <= published.loader
  BY DEF Inv, LoaderInv, PublishedInv
<1>7. LatestFile \in todo
  BY <1>1 DEF Inv, LoaderInv, PhaseInv
<1>8. PhaseInv'
  BY <1>1, <1>7 DEF Inv, LoaderInv, PhaseInv, packageVars
<1>9. PublishedInv'
  BY <1>1, <1>2, <1>3 DEF Inv, LoaderInv, PublishedInv, packageVars
<1>10. KeptInv'
  BY <1>1, <1>2, <1>3 DEF Inv, LoaderInv, KeptInv, Passing, MustFetch
<1>11. LoadedIsCurrent'
  BY <1>1 DEF LoadedIsCurrent
<1>12. current \in Versions => \A g \in Done : disk[g] \in Versions /\ disk[g] >= current
  BY <1>1, <1>7 DEF Inv, LoaderInv, PassInv
<1>13. CASE f # LatestFile
  <2>1. LatestFile \in todo'
    BY <1>1, <1>7, <1>13
  <2>2. LatestInv'
    BY <1>1, <2>1 DEF LatestInv, Running
  <2>3. ASSUME current \in Versions, NEW g \in Done'
        PROVE  disk'[g] \in Versions /\ disk'[g] >= current
    <3>1. CASE g # f
      <4>1. g \in Done /\ g \in Files
        BY <1>1, <1>4, <2>3, <3>1 DEF Done
      <4> QED
        BY <4>1, <3>1, <2>3, <1>2, <1>12
    <3>2. CASE g = f
      <4>1. MustFetch(f)
        BY <1>1, <1>4, <2>3, <3>2 DEF Done, MustFetch
      <4> QED
        BY <4>1, <3>2, <2>3, <1>2, <1>3, <1>5
    <3> QED
      BY <3>1, <3>2
  <2>4. PassInv'
    BY <1>1, <2>1, <2>3 DEF PassInv
  <2> QED
    BY <2>2, <2>4, <1>8, <1>9, <1>10, <1>11 DEF LoaderInv
<1>14. CASE f = LatestFile
  <2>1. todo = {LatestFile} /\ todo' = {} /\ disk'[LatestFile] = published.loader
    BY <1>1, <1>2, <1>14 DEF MustFetch
  <2>2. since.loader <= published.loader /\ since.loader \in Versions
    BY <1>1 DEF Inv, LoaderInv, PhaseInv
  <2>3. LatestInv'
    <3>1. published.loader >= since.loader /\ (current \in Versions => published.loader >= current)
      BY <2>2, <1>3, <1>5
    <3> QED
      BY <3>1, <1>1, <2>1, <1>3 DEF LatestInv, Running
  <2>4. ASSUME current = disk'[LatestFile], Bootstrap \notin interrupted \/ force, NEW g \in Files
        PROVE  disk'[g] = current
    <3>1. current = published.loader /\ current \in Versions
      BY <2>1, <2>4, <1>3
    <3>2. CASE g = LatestFile
      BY <2>4, <3>2
    <3>3. CASE g \in Done /\ g # LatestFile
      <4>1. disk[g] \in Versions /\ disk[g] >= current /\ disk[g] <= current
        BY <3>1, <3>3, <1>6, <1>12
      <4>2. disk[g] = current
        BY <4>1, <3>1, VersionOrder
      <4> QED
        BY <4>2, <3>3, <1>2, <1>14
    <3>4. CASE g \in Kept \cup {Bootstrap} /\ ~force
      <4>1. ~(published.loader > current)
        BY <3>1, VersionOrder
      <4>2. disk[g] = current
        BY <4>1, <3>1, <3>4, <2>4 DEF Inv, LoaderInv, KeptInv
      <4> QED
        BY <4>2, <3>4, <1>2, <1>14
    <3> QED
      BY <3>2, <3>3, <3>4, <2>1 DEF Done, Files
  <2>5. PassInv'
    BY <1>1, <2>1, <2>4 DEF PassInv
  <2> QED
    BY <2>3, <2>5, <1>8, <1>9, <1>10, <1>11 DEF LoaderInv
<1> QED
  BY <1>13, <1>14

\* The pass is over: what it found is in PassInv.
LEMMA LoadKeepsLoader == ASSUME Inv, LoadFiles PROVE LoaderInv'
<1>1. /\ phase = "fetch" /\ todo = {} /\ phase' = "check"
      /\ interrupted' = IF force THEN interrupted \ {Bootstrap} ELSE interrupted
      /\ UNCHANGED <<published, loaderVars, packageVars, since>>
  BY DEF LoadFiles
<1> USE DEF loaderVars, packageVars
<1>2. PhaseInv'
  BY <1>1 DEF Inv, LoaderInv, PhaseInv
<1>3. PublishedInv'
  BY <1>1 DEF Inv, LoaderInv, PublishedInv
<1>4. LatestInv'
  BY <1>1 DEF Inv, LoaderInv, LatestInv, Running
<1>5. PassInv'
  BY <1>1 DEF Inv, LoaderInv, PassInv
<1>6. KeptInv'
  <2> SUFFICES ASSUME Bootstrap \notin interrupted', current \in Versions
               PROVE  (\A f \in Kept \cup {Bootstrap} : disk[f] = current) \/ published.loader > current
    BY <1>1 DEF KeptInv
  <2>1. CASE ~force
    BY <2>1, <1>1 DEF Inv, LoaderInv, KeptInv
  <2>2. CASE force /\ current = disk[LatestFile]
    BY <2>2, <1>1, Facts DEF Inv, LoaderInv, PassInv
  <2>3. CASE force /\ current # disk[LatestFile]
    <3>1. disk[LatestFile] \in Versions /\ disk[LatestFile] >= current /\ disk[LatestFile] <= published.loader
      BY <1>1, Facts DEF Inv, LoaderInv, LatestInv, PublishedInv
    <3>2. published.loader \in Versions /\ \A u, v \in Versions : u # v /\ u >= v => u > v
      BY Facts, PublishedTypes DEF Inv
    <3>3. \A u, v, w \in Versions : u > v /\ u <= w => w > v
      BY Facts
    <3> QED
      BY <3>1, <3>2, <3>3, <2>3
  <2> QED
    BY <2>1, <2>2, <2>3
<1>7. LoadedIsCurrent'
  BY <1>1 DEF LoadedIsCurrent
<1> QED
  BY <1>2, <1>3, <1>4, <1>5, <1>6, <1>7 DEF LoaderInv

\* Either the files are of the current version, or everything is fetched again.
LEMMA CheckKeepsLoader == ASSUME Inv, CheckVersion PROVE LoaderInv'
<1>1. /\ phase = "check" /\ current' = disk[LatestFile]
      /\ \/ current = disk[LatestFile] /\ phase' = "load" /\ force' = force
         \/ current # disk[LatestFile] /\ phase' = "bootstrap" /\ force' = TRUE
      /\ UNCHANGED <<published, disk, todo, packageVars, since, interrupted>>
  BY DEF CheckVersion
<1> USE DEF packageVars
<1>2. disk[LatestFile] \in Versions /\ disk[LatestFile] >= since.loader /\ disk[LatestFile] <= published.loader
  BY <1>1, Facts DEF Inv, LoaderInv, LatestInv, PublishedInv
<1>3. PhaseInv'
  BY <1>1 DEF Inv, LoaderInv, PhaseInv
<1>4. PublishedInv'
  BY <1>1, <1>2 DEF Inv, LoaderInv, PublishedInv
<1>5. CASE current = disk[LatestFile]
  <2>1. phase' = "load" /\ current' = current
    BY <1>1, <1>5
  <2>2. todo = {} /\ (Bootstrap \notin interrupted => \A f \in Files : disk[f] = current)
    BY <1>1, <1>5 DEF Inv, LoaderInv, PhaseInv, PassInv
  <2>3. LatestInv'
    <3>1. \A v \in Versions : v >= v
      BY Facts
    <3> QED
      BY <3>1, <2>1, <1>1, <1>2, <1>5 DEF LatestInv, Running
  <2>4. KeptInv' /\ LoadedIsCurrent' /\ PassInv'
    BY <2>1, <2>2, <1>1, Facts DEF KeptInv, LoadedIsCurrent, PassInv
  <2> QED
    BY <2>3, <2>4, <1>3, <1>4 DEF LoaderInv
<1>6. CASE current # disk[LatestFile]
  <2>1. phase' = "bootstrap" /\ force'
    BY <1>1, <1>6
  <2>2. LatestInv' /\ KeptInv' /\ LoadedIsCurrent' /\ PassInv'
    BY <2>1 DEF LatestInv, Running, KeptInv, Passing, LoadedIsCurrent, PassInv
  <2> QED
    BY <2>2, <1>3, <1>4 DEF LoaderInv
<1> QED
  BY <1>5, <1>6

\* Every other way in which a start goes on or ends is one of the above.
LEMMA ComputerKeepsLoader ==
  ASSUME Inv, TypeOK', Stop \/ Computer
  PROVE  LoaderInv'
<1>1. Passing /\ force => Bootstrap \in Updating
  BY DEF Passing, Updating
<1>2. CASE Stop
  <2>1. EndsWith(Updating) /\ UNCHANGED <<disk, current, info, data>>
    BY <1>2 DEF Stop, Ends
  <2> QED
    BY <2>1, <1>1, EndKeepsLoader
<1>3. ASSUME NEW f \in Files, EndsInLoader(f), disk[f] = Missing \/ (Passing /\ force) \/ f \in {OptionsFile, LatestFile}
      PROVE  LoaderInv'
  <2>1. EndsWith(Updating) /\ UNCHANGED <<current, info, data>>
    BY <1>3 DEF EndsInLoader
  <2>2. \A g \in Files : \/ disk'[g] = disk[g]
                         \/ /\ disk'[g] = Empty
                            /\ g \in Kept \cup {Bootstrap} => disk[g] = Missing \/ (Passing /\ force)
    BY <1>3, Facts DEF EndsInLoader, Inv, TypeOK
  <2> QED
    BY <2>1, <2>2, <1>1, EndKeepsLoader
<1>4. CASE FetchBootstrap \/ KeepBootstrap
  <2>1. CASE EndsInLoader(Bootstrap) /\ FetchBootstrap
    <3>1. Bootstrap \in Files /\ (disk[Bootstrap] = Missing \/ (Passing /\ force))
      BY <2>1, Facts DEF FetchBootstrap, Passing
    <3> QED
      BY <3>1, <2>1, <1>3
  <2>2. CASE ~(EndsInLoader(Bootstrap) /\ FetchBootstrap)
    BY <2>2, <1>4, BootstrapKeepsLoader
  <2> QED
    BY <2>1, <2>2
<1>5. ASSUME NEW f \in Fetched, FetchFile(f) \/ KeepFile(f) PROVE LoaderInv'
  <2>1. CASE EndsInLoader(f) /\ FetchFile(f)
    <3>1. f \in Files /\ (disk[f] = Missing \/ (Passing /\ force) \/ f \in {OptionsFile, LatestFile})
      BY <2>1 DEF FetchFile, IsNext, MustFetch, Passing, Files
    <3> QED
      BY <3>1, <2>1, <1>3
  <2>2. CASE ~(EndsInLoader(f) /\ FetchFile(f))
    BY <2>2, <1>5, FileKeepsLoader
  <2> QED
    BY <2>1, <2>2
<1>6. CASE StopInCheckVersion
  <2>1. EndsWith({}) /\ current' = Empty /\ UNCHANGED <<disk, info, data>> /\ ~Passing
    BY <1>6 DEF StopInCheckVersion, Passing
  <2> QED
    BY <2>1, EndKeepsLoader
<1>7. ASSUME NEW p \in Packages, StopInLoadPackage(p) PROVE LoaderInv'
  <2>1. PICK lost : EndsWith(lost)
    BY <1>7 DEF StopInLoadPackage
  <2>2. ~Passing /\ UNCHANGED <<disk, current>>
    BY <1>7 DEF StopInLoadPackage, Passing
  <2>3. \A q \in Packages : info'[q] \in {info[q], Empty}
    BY <1>7 DEF StopInLoadPackage, Inv, TypeOK
  <2> QED
    BY <2>1, <2>2, <2>3, EndKeepsLoader
<1>8. ASSUME NEW p \in Packages, LoadPackage(p) \/ LoadedPackage(p) PROVE LoaderInv'
  <2>1. /\ Running /\ phase' = "data" /\ package' = p /\ UNCHANGED <<published, loaderVars, since, interrupted>>
    BY <1>8 DEF LoadPackage, LoadedPackage, Running
  <2>2. loads'[p] > 0
    BY <1>8, BoundsAssumption DEF LoadPackage, LoadedPackage, Inv, TypeOK
  <2>3. \A q \in Packages : info'[q] \in Versions => info'[q] <= published.package[q]
    <3>1. \A q \in Packages : published.package[q] \in Versions /\ published.package[q] <= published.package[q]
      <4>1. \A v \in Versions : v <= v
        BY Facts
      <4> QED
        BY <4>1, PublishedTypes DEF Inv
    <3>2. \A q \in Packages : info'[q] = info[q] \/ info'[q] = published.package[q]
      BY <1>8 DEF LoadPackage, LoadedPackage, Inv, TypeOK
    <3> QED
      BY <3>1, <3>2 DEF Inv, LoaderInv, PublishedInv
  <2> QED
    BY <1>8, <2>1, <2>2, <2>3, RunKeepsLoader DEF Running
<1>9. CASE FetchData
  <2>1. CASE phase' = "off"
    <3>1. EndsWith(Updating) /\ UNCHANGED <<disk, current, info>>
      BY <1>9, <2>1 DEF FetchData
    <3> QED
      BY <3>1, <1>1, EndKeepsLoader
  <2>2. CASE phase' # "off"
    <3>1. /\ Running /\ phase' = "load" /\ interrupted' = interrupted \ {package} /\ package \in Packages
          /\ UNCHANGED <<published, loaderVars, info, since>>
      BY <1>9, <2>2 DEF FetchData, Running, EndsWith, Inv, LoaderInv, PhaseInv
    <3> QED
      BY <3>1, RunKeepsLoader, Facts DEF Running, Inv, LoaderInv, PublishedInv
  <2> QED
    BY <2>1, <2>2
<1>10. CASE KeepData \/ Run
  <2>1. Running /\ phase' \in {"load", "run"} /\ UNCHANGED <<published, loaderVars, info, since, interrupted>>
    BY <1>10 DEF KeepData, Run, Running, packageVars
  <2>2. phase' = "run" => \A p \in Packages : loads'[p] > 0
    BY <1>10 DEF KeepData, Run, packageVars
  <2> QED
    BY <2>1, <2>2, RunKeepsLoader DEF Running, Inv, LoaderInv, PublishedInv
<1> QED
  BY <1>2, <1>4, <1>5, <1>6, <1>7, <1>8, <1>9, <1>10, LoadKeepsLoader, CheckKeepsLoader DEF Computer

-----------------------------------------------------------------------------
(* The packages' invariant, step by step. *)

\* What PackageInv says of one package.
PackageOK(p) ==
  /\ info[p] = Missing => data[p] = Missing
  /\ p \notin interrupted /\ info[p] = Empty => data[p] = Missing
  /\ p \notin interrupted /\ info[p] \in Versions =>
       data[p] \in {Missing, Empty} \/ data[p] >= info[p] \/ (Pending(p) /\ p \in forced)
  /\ Running /\ loads[p] > 0 =>
       info[p] \in Versions /\ info[p] >= since.package[p] /\ (Pending(p) \/ data[p] \in Versions)

\* Before the packages are loaded, and when a start ends before or between them.
LEMMA LoaderKeepsPackages ==
  ASSUME Inv, UNCHANGED <<info, data, loads, package, forced, since>>,
         phase # "data" \/ UNCHANGED phase, phase' # "data" \/ UNCHANGED phase,
         Running' => Running \/ \A p \in Packages : loads[p] = 0,
         \A p \in Packages : p \in interrupted => p \in interrupted'
  PROVE  PackageInv'
<1> SUFFICES ASSUME NEW p \in Packages PROVE PackageOK(p)'
  BY DEF PackageInv, PackageOK
<1>1. PackageOK(p) /\ (Pending(p) <=> Pending(p)')
  BY DEF Inv, PackageInv, PackageOK, Pending
<1>2. Running' /\ loads[p] > 0 => Running
  OBVIOUS
<1> QED
  BY <1>1, <1>2 DEF PackageOK

\* When a start ends between the files of a package.
LEMMA EndKeepsPackages ==
  ASSUME Inv, phase = "data", EndsWith(Updating), info' = info,
         \A p \in Packages : data'[p] = data[p] \/ (data'[p] = Empty /\ p = package)
  PROVE  PackageInv'
<1> SUFFICES ASSUME NEW p \in Packages PROVE PackageOK(p)'
  BY DEF PackageInv, PackageOK
<1>1. phase' = "off" /\ interrupted' = interrupted \cup Updating
  BY DEF EndsWith
<1>2. PackageOK(p)
  BY DEF Inv, PackageInv, PackageOK
<1>3. Pending(p) /\ p \in forced => p \in interrupted'
  BY <1>1 DEF Pending, Updating
<1>4. p = package => info[p] \in Versions
  BY <1>2 DEF Inv, LoaderInv, PhaseInv, PackageOK, Running
<1> QED
  BY <1>1, <1>2, <1>3, <1>4, Facts DEF PackageOK, Running

\* The computer stops while it writes the first file of a package.
LEMMA StopInLoadKeepsPackages ==
  ASSUME Inv, NEW q \in Packages, StopInLoadPackage(q)
  PROVE  PackageInv'
<1> SUFFICES ASSUME NEW p \in Packages PROVE PackageOK(p)'
  BY DEF PackageInv, PackageOK
<1>1. /\ phase' = "off" /\ UNCHANGED data
      /\ interrupted' = interrupted \cup (IF data[q] = Missing THEN {} ELSE {q})
      /\ p # q => info'[p] = info[p]
      /\ info'[q] = Empty
  BY DEF StopInLoadPackage, EndsWith, Inv, TypeOK
<1>2. PackageOK(p) /\ ~Pending(p)
  BY DEF Inv, PackageInv, PackageOK, StopInLoadPackage, Pending
<1> QED
  BY <1>1, <1>2, Facts DEF PackageOK, Running

\* A new version of a package makes its data be fetched.
LEMMA LoadKeepsPackages ==
  ASSUME Inv, NEW q \in Packages, LoadPackage(q)
  PROVE  PackageInv'
<1> SUFFICES ASSUME NEW p \in Packages PROVE PackageOK(p)'
  BY DEF PackageInv, PackageOK
<1>1. /\ phase = "load" /\ phase' = "data" /\ package' = q /\ UNCHANGED <<data, interrupted, since>>
      /\ loads' = [loads EXCEPT ![q] = 1]
      /\ info' = [info EXCEPT ![q] = published.package[q]]
      /\ forced' = IF info[q] \notin {Missing, Empty, info'[q]} THEN forced \cup {q} ELSE forced
  BY DEF LoadPackage
<1>2. /\ \A r \in Packages \ {q} : info'[r] = info[r] /\ loads'[r] = loads[r]
      /\ info'[q] = published.package[q] /\ loads'[q] = 1 /\ info[q] \in Content
  BY <1>1 DEF Inv, TypeOK
<1>3. PackageOK(p) /\ ~Pending(p)
  BY <1>1 DEF Inv, PackageInv, PackageOK, Pending
<1>4. CASE p = q
  <2>1. info'[p] \in Versions /\ info'[p] >= since'.package[p] /\ Pending(p)'
    <3>1. published.package[p] \in Versions /\ since.package[p] \in Versions /\ since.package[p] <= published.package[p]
      BY <1>1, PublishedTypes DEF Inv, LoaderInv, PhaseInv
    <3>2. published.package[p] >= since.package[p]
      BY <3>1, Facts
    <3> QED
      BY <3>1, <3>2, <1>1, <1>2, <1>4 DEF Pending
  <2>2. CASE info[p] = Missing \/ info[p] = Empty
    BY <2>1, <2>2, <1>1, <1>3, Facts DEF PackageOK
  <2>3. CASE info[p] = info'[p]
    BY <2>1, <2>3, <1>1, <1>3, Facts DEF PackageOK
  <2>4. CASE info[p] \notin {Missing, Empty, info'[p]}
    BY <2>1, <2>4, <1>1, <1>4, Facts DEF PackageOK
  <2> QED
    BY <2>2, <2>3, <2>4
<1>5. CASE p # q
  BY <1>1, <1>2, <1>3, <1>5 DEF PackageOK, Running
<1> QED
  BY <1>4, <1>5

\* A package that was loaded before keeps its files, or gets new data.
LEMMA DataKeepsPackages ==
  ASSUME Inv, (FetchData /\ phase' # "off") \/ KeepData \/ \E q \in Packages : LoadedPackage(q)
  PROVE  PackageInv'
<1> SUFFICES ASSUME NEW p \in Packages PROVE PackageOK(p)'
  BY DEF PackageInv, PackageOK
<1>1. PackageOK(p) /\ Running /\ Running' /\ UNCHANGED <<info, forced, since>>
  BY DEF Inv, PackageInv, PackageOK, FetchData, EndsWith, KeepData, LoadedPackage, packageVars, Running
<1>2. CASE FetchData /\ phase' # "off"
  <2>1. /\ phase = "data" /\ phase' = "load" /\ interrupted' = interrupted \ {package} /\ UNCHANGED loads
        /\ data' = [data EXCEPT ![package] = published.package[package]]
    BY <1>2 DEF FetchData, EndsWith
  <2>2. package \in Packages /\ loads[package] > 0
    BY <2>1 DEF Inv, LoaderInv, PhaseInv
  <2>3. CASE p = package
    <3>1. data'[p] = published.package[p] /\ data'[p] \in Versions /\ info[p] \in Versions
      BY <2>1, <2>2, <2>3, <1>1, PublishedTypes DEF Inv, TypeOK, PackageOK
    <3>2. info[p] <= published.package[p]
      BY <3>1 DEF Inv, LoaderInv, PublishedInv
    <3>3. data'[p] >= info[p]
      BY <3>1, <3>2, Facts
    <3>4. info'[p] \in Versions /\ info'[p] >= since'.package[p]
      BY <2>2, <2>3, <1>1 DEF PackageOK
    <3>5. info'[p] # Missing /\ info'[p] # Empty /\ data'[p] >= info'[p]
      BY <3>1, <3>3, <1>1, Facts
    <3> QED
      BY <3>1, <3>4, <3>5 DEF PackageOK
  <2>4. CASE p # package
    <3>1. data'[p] = data[p] /\ (p \in interrupted' <=> p \in interrupted) /\ ~Pending(p) /\ ~Pending(p)'
      BY <2>1, <2>4 DEF Inv, TypeOK, Pending
    <3> QED
      BY <3>1, <2>1, <1>1 DEF PackageOK
  <2> QED
    BY <2>3, <2>4
<1>3. CASE KeepData
  <2>1. /\ phase = "data" /\ phase' = "load" /\ UNCHANGED <<data, loads, interrupted>>
        /\ data[package] \notin {Missing, Empty} /\ package \notin forced /\ package \in Packages
    BY <1>3 DEF KeepData, packageVars, Inv, LoaderInv, PhaseInv
  <2>2. Pending(p) => data[p] \in Versions /\ p \notin forced
    BY <2>1 DEF Inv, TypeOK, Content, Pending
  <2> QED
    BY <2>1, <2>2, <1>1 DEF PackageOK
<1>4. ASSUME NEW q \in Packages, LoadedPackage(q) PROVE PackageOK(p)'
  <2>1. /\ phase = "load" /\ UNCHANGED <<data, interrupted>> /\ loads[q] > 0
        /\ loads' = [loads EXCEPT ![q] = loads[q] + 1]
    BY <1>4, BoundsAssumption DEF LoadedPackage
  <2>2. ~Pending(p) /\ (loads'[p] > 0 => loads[p] > 0)
    BY <2>1 DEF Pending, Inv, TypeOK
  <2> QED
    BY <2>1, <2>2, <1>1 DEF PackageOK
<1> QED
  BY <1>2, <1>3, <1>4

\* All other steps of a computer leave the packages alone.
LEMMA ComputerKeepsPackages ==
  ASSUME Inv, Start \/ Stop \/ Computer
  PROVE  PackageInv'
<1>1. CASE Start
  <2>1. phase = "off" /\ phase' = "bootstrap" /\ UNCHANGED <<info, data, interrupted>>
    BY <1>1 DEF Start
  <2> QED
    BY <2>1 DEF Inv, PackageInv, Pending, Running
<1>2. CASE Stop /\ phase = "data"
  <2>1. EndsWith(Updating) /\ info' = info /\ data' = data
    BY <1>2 DEF Stop, Ends
  <2> QED
    BY <2>1, <1>2, EndKeepsPackages
<1>3. CASE Stop /\ phase # "data"
  BY <1>3, LoaderKeepsPackages DEF Stop, Ends, EndsWith, Running
<1>4. CASE FetchBootstrap \/ KeepBootstrap
  BY <1>4, LoaderKeepsPackages DEF FetchBootstrap, KeepBootstrap, EndsInLoader, EndsWith, packageVars, Running
<1>5. ASSUME NEW f \in Fetched, FetchFile(f) \/ KeepFile(f) PROVE PackageInv'
  BY <1>5, LoaderKeepsPackages DEF FetchFile, KeepFile, IsNext, EndsInLoader, EndsWith, packageVars, Running
<1>6. CASE LoadFiles
  <2>1. \A p \in Packages : p \in interrupted => p \in interrupted'
    BY <1>6, Facts DEF LoadFiles
  <2> QED
    BY <2>1, <1>6, LoaderKeepsPackages DEF LoadFiles, packageVars, Running
<1>7. CASE CheckVersion
  <2>1. \A p \in Packages : loads[p] = 0
    BY <1>7 DEF CheckVersion, Inv, LoaderInv, PhaseInv
  <2>2. phase = "check" /\ phase' \in {"load", "bootstrap"}
    BY <1>7 DEF CheckVersion
  <2> QED
    BY <2>1, <2>2, <1>7, LoaderKeepsPackages DEF CheckVersion, packageVars
<1>8. CASE StopInCheckVersion
  BY <1>8, LoaderKeepsPackages DEF StopInCheckVersion, EndsWith, Running
<1>9. CASE FetchData /\ phase' = "off"
  <2>1. /\ phase = "data" /\ EndsWith(Updating) /\ info' = info
        /\ data' = [data EXCEPT ![package] = Empty]
    BY <1>9 DEF FetchData
  <2>2. \A p \in Packages : data'[p] = data[p] \/ (data'[p] = Empty /\ p = package)
    BY <2>1 DEF Inv, TypeOK
  <2> QED
    BY <2>1, <2>2, EndKeepsPackages
<1>10. CASE Run
  BY <1>10, LoaderKeepsPackages DEF Run, packageVars, Running
<1> QED
  BY <1>1, <1>2, <1>3, <1>4, <1>5, <1>6, <1>7, <1>8, <1>9, <1>10,
     StopInLoadKeepsPackages, LoadKeepsPackages, DataKeepsPackages DEF Computer

\* A new version of a package changes nothing on the computer.
LEMMA ServerKeepsPackages ==
  ASSUME Inv, Publish \/ \E p \in Packages : PublishPackage(p)
  PROVE  PackageInv'
<1>1. UNCHANGED <<loaderVars, packageVars, phase, since, interrupted>>
  BY DEF Publish, PublishPackage
<1> QED
  BY <1>1, LoaderKeepsPackages DEF packageVars, Running

-----------------------------------------------------------------------------
LEMMA InitInv == Init => Inv
<1> SUFFICES ASSUME Init PROVE Inv
  OBVIOUS
<1>1. TypeOK
  BY InitType
<1>2. LoaderInv
  BY Facts DEF Init, LoaderInv, PhaseInv, PublishedInv, LatestInv, KeptInv, PassInv, LoadedIsCurrent, Running
<1>3. PackageInv
  BY Facts DEF Init, PackageInv, Running
<1> QED
  BY <1>1, <1>2, <1>3 DEF Inv

\* Every step keeps the invariant.
LEMMA StepInv == Inv /\ [Next]_vars => Inv'
<1> SUFFICES ASSUME Inv, [Next]_vars PROVE Inv'
  OBVIOUS
<1>1. TypeOK
  BY DEF Inv
<1>2. CASE Publish \/ \E p \in Packages : PublishPackage(p)
  BY <1>1, <1>2, ServerType, ServerKeepsLoader, ServerKeepsPackages DEF Inv
<1>3. CASE Start \/ Stop \/ Computer
  <2>1. TypeOK'
    BY <1>1, <1>3, ComputerType
  <2>2. LoaderInv'
    BY <2>1, <1>3, StartKeepsLoader, ComputerKeepsLoader
  <2>3. PackageInv'
    BY <1>3, ComputerKeepsPackages
  <2> QED
    BY <2>1, <2>2, <2>3 DEF Inv
<1>4. CASE UNCHANGED vars
  <2> USE <1>4 DEF vars, loaderVars, packageVars
  <2>1. TypeOK'
    BY DEF Inv, TypeOK
  <2>2. PhaseInv' /\ PublishedInv' /\ LatestInv'
    BY DEF Inv, LoaderInv, PhaseInv, PublishedInv, LatestInv, Running
  <2>3. KeptInv' /\ PassInv' /\ LoadedIsCurrent'
    BY DEF Inv, LoaderInv, KeptInv, PassInv, LoadedIsCurrent, Passing, Done
  <2>4. PackageInv'
    BY DEF Inv, PackageInv, Pending, Running
  <2> QED
    BY <2>1, <2>2, <2>3, <2>4 DEF Inv, LoaderInv
<1> QED
  BY <1>2, <1>3, <1>4 DEF Next

\* The inductive invariant holds in every state.
THEOREM Invariance == Spec => []Inv
BY InitInv, StepInv, PTL DEF Spec

\* Server, disk and start keep their types, for any files, packages and versions.
THEOREM TypeCorrect == Spec => []TypeOK
<1>1. Inv => TypeOK
  BY DEF Inv
<1> QED
  BY <1>1, Invariance, PTL

\* What Loader:LoadProgram starts from are loader files of the version that
\* CheckVersion wrote, unless an update of the loader was cut off, whatever was
\* published and wherever else the computer stopped.
THEOREM LoadedIsCurrentCorrect == Spec => []LoadedIsCurrent
<1>1. Inv => LoadedIsCurrent
  BY DEF Inv, LoaderInv
<1> QED
  BY <1>1, Invariance, PTL

\* What a start of GithubLoaderInGame ends up with is at least what was published
\* when it began: every file of the loader, whatever was kept on the disk, and the
\* data of every package, unless an update of them was cut off.
THEOREM UpToDateCorrect == Spec => []UpToDate
<1>1. Inv => UpToDate
  <2>1. ASSUME Inv, Running, Bootstrap \notin interrupted, NEW f \in Files
        PROVE  disk[f] \in Versions /\ disk[f] >= since.loader
    <3>1. disk[f] = current /\ disk[LatestFile] = current
      BY <2>1, Facts DEF Inv, LoaderInv, LoadedIsCurrent, Running
    <3> QED
      BY <3>1, <2>1 DEF Inv, LoaderInv, LatestInv
  <2>2. ASSUME Inv, phase = "run", NEW p \in Packages, p \notin interrupted
        PROVE  data[p] \in Versions /\ data[p] >= since.package[p]
    <3>1. /\ info[p] \in Versions /\ info[p] >= since.package[p]
          /\ data[p] \in Versions /\ since.package[p] \in Versions
      BY <2>2 DEF Inv, LoaderInv, PhaseInv, PackageInv, Pending, Running
    <3>2. data[p] >= info[p]
      BY <3>1, <2>2, Facts DEF Inv, PackageInv, Pending
    <3>3. \A u, v, w \in Versions : u >= v /\ v >= w => u >= w
      BY Facts
    <3> QED
      BY <3>1, <3>2, <3>3
  <2> QED
    BY <2>1, <2>2 DEF UpToDate, Running
<1> QED
  BY <1>1, Invariance, PTL

\* Package:Download leaves no data older than the Info file, unless the update of
\* the package was cut off and none followed.
THEOREM DataNotOlderCorrect == Spec => []DataNotOlder
<1>1. Inv => DataNotOlder
  <2> SUFFICES ASSUME Inv, phase = "run", NEW p \in Packages, p \notin interrupted
               PROVE  data[p] >= info[p]
    BY DEF DataNotOlder
  <2>1. loads[p] > 0
    BY DEF Inv, LoaderInv, PhaseInv
  <2>2. info[p] \in Versions /\ data[p] \in Versions
    BY <2>1 DEF Inv, PackageInv, Pending, Running
  <2> QED
    BY <2>2, Facts DEF Inv, PackageInv, Pending
<1> QED
  BY <1>1, Invariance, PTL
===============================================================================
