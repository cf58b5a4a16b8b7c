-------------------------------- MODULE Loader --------------------------------
(***************************************************************************)
(* The start of a computer: Github-Loading/GithubLoaderInGame.lua,           *)
(* Loader.lua and Loader/*_PackageLoader.lua, *_Package.lua.                 *)
(*                                                                         *)
(* The files of the loader and the packages are fetched from a server that   *)
(* may publish a new version between any two requests, onto a disk that      *)
(* keeps them when the computer stops.  A file is reduced to the version it   *)
(* belongs to.  One that was opened for writing when the computer stopped is  *)
(* left empty; it exists, and whoever executes it gets nil.  A step is        *)
(* one request and the writing of its answer.                                 *)
(***************************************************************************)
EXTENDS Naturals, FiniteSets

CONSTANTS
  Kept,         \* the files of the loader but for the two that are always fetched
  Packages,     \* the packages of the chosen option, with those they require
  NoPackage,
  Empty,        \* the content of a file whose writing was cut off
  MaxVersion,   \* bound: versions that are published
  MaxLoads      \* bound: how often one package is asked for in one start

\* Executed by the computer itself, and the files fetched at every start.
Bootstrap == "Loader.lua"
OptionsFile == "00_Options.lua"
LatestFile == "Version.latest.txt"

Fetched == Kept \cup {OptionsFile, LatestFile}
Files == Fetched \cup {Bootstrap}

Versions == 1 .. MaxVersion
Missing == 0
Content == Versions \cup {Missing, Empty}
Publications == [loader : Versions, package : [Packages -> Versions]]

ASSUME FilesAssumption == {Bootstrap, OptionsFile, LatestFile} \cap Kept = {}
ASSUME NamesAssumption == NoPackage \notin Packages /\ Bootstrap \notin Packages /\ Empty \notin Nat
ASSUME BoundsAssumption == MaxVersion \in Nat \ {0} /\ MaxLoads \in Nat \ {0}

VARIABLES
  published,   \* the server's version of the loader, and of each package
  disk,        \* the files of the loader
  current,     \* Version.current.txt
  info, data,  \* __info.lua and __data.lua of each package
  phase,       \* how far the start has come
  force,       \* loaderForceDownload
  todo,        \* loader files that downloadFiles has not come to
  loads,       \* how often each package was asked for in this start
  package,     \* the package whose data is needed next
  forced,      \* packages with m_forceDownload
  since,       \* history: what was published when the computer started
  interrupted  \* history: what was being updated when a start ended; Bootstrap for the loader

loaderVars == <<disk, current, force, todo>>
packageVars == <<info, data, loads, package, forced>>
vars == <<published, loaderVars, packageVars, phase, since, interrupted>>

Init ==
  /\ published = [loader |-> 1, package |-> [p \in Packages |-> 1]]
  /\ disk = [f \in Files |-> Missing]
  /\ current = Missing
  /\ info = [p \in Packages |-> Missing]
  /\ data = [p \in Packages |-> Missing]
  /\ phase = "off"
  /\ force = FALSE
  /\ todo = {}
  /\ loads = [p \in Packages |-> 0]
  /\ package = NoPackage
  /\ forced = {}
  /\ since = published
  /\ interrupted = {}

-----------------------------------------------------------------------------
(* The server. *)

Publish ==
  /\ published.loader < MaxVersion
  /\ published' = [published EXCEPT !.loader = published.loader + 1]
  /\ UNCHANGED <<loaderVars, packageVars, phase, since, interrupted>>

PublishPackage(p) ==
  /\ published.package[p] < MaxVersion
  /\ published' = [published EXCEPT !.package[p] = published.package[p] + 1]
  /\ UNCHANGED <<loaderVars, packageVars, phase, since, interrupted>>

-----------------------------------------------------------------------------
(* The end of a start: an error, a panic, or a stop of the computer.  What   *)
(* it was updating is interrupted: the loader from the CheckVersion that      *)
(* found a new version to the next one, a package between its two files.      *)

Updating ==
  {b \in {Bootstrap} : phase \in {"bootstrap", "fetch"} /\ force}
    \cup {p \in forced : phase = "data" /\ p = package /\ loads[p] = 1}

EndsWith(lost) ==
  /\ phase' = "off"
  /\ interrupted' = interrupted \cup lost
  /\ UNCHANGED <<published, force, todo, loads, package, forced, since>>

Ends == EndsWith(Updating) /\ UNCHANGED <<disk, current, info, data>>
EndsInLoader(f) ==
  /\ EndsWith(Updating)
  /\ disk' = [disk EXCEPT ![f] = Empty]
  /\ UNCHANGED <<current, info, data>>

Stop == phase # "off" /\ Ends

-----------------------------------------------------------------------------
(* GithubLoaderInGame.lua *)

Start ==
  /\ phase = "off"
  /\ phase' = "bootstrap"
  /\ force' = FALSE
  /\ loads' = [p \in Packages |-> 0]
  /\ package' = NoPackage
  /\ forced' = {}
  /\ since' = published
  /\ UNCHANGED <<published, disk, current, info, data, todo, interrupted>>

\* A wrong LoaderFiles that lists Loader.lua, too.
KeepBootstrapListed ==
  /\ phase = "bootstrap"
  /\ disk[Bootstrap] \notin {Missing, Empty} /\ ~force
  /\ phase' = "fetch" /\ todo' = Files
  /\ UNCHANGED <<published, disk, current, force, packageVars, since, interrupted>>

\* The loader itself.  What the server answers is written, an error page, too,
\* which is as good as nothing when it is executed.
FetchBootstrap ==
  /\ phase = "bootstrap"
  /\ disk[Bootstrap] = Missing \/ force
  /\ \/ /\ disk' = [disk EXCEPT ![Bootstrap] = published.loader]
        /\ phase' = "fetch" /\ todo' = Fetched
        /\ UNCHANGED <<published, current, force, packageVars, since, interrupted>>
     \/ EndsInLoader(Bootstrap)

KeepBootstrap ==
  /\ phase = "bootstrap"
  /\ disk[Bootstrap] \notin {Missing, Empty} /\ ~force
  /\ phase' = "fetch" /\ todo' = Fetched
  /\ UNCHANGED <<published, disk, current, force, packageVars, since, interrupted>>

-----------------------------------------------------------------------------
(* Loader.lua: downloadFiles, in the order of LoaderFiles, of which it        *)
(* matters that Version.latest.txt comes last; then loadFiles.  An empty file  *)
(* is executed without an error; who needs its result fails: Stop.            *)

\* A wrong LoaderFiles, in which Version.latest.txt does not come last.
IsNextInAnyOrder(f) == phase = "fetch" /\ f \in todo
IsNext(f) == phase = "fetch" /\ f \in todo /\ (f = LatestFile => todo = {LatestFile})

\* A wrong downloadFile that keeps the version file, too.
MustFetchOnce(f) == force \/ f = OptionsFile \/ disk[f] = Missing
MustFetch(f) == force \/ f \in {OptionsFile, LatestFile} \/ disk[f] = Missing

FetchFile(f) ==
  /\ IsNext(f) /\ MustFetch(f)
  /\ \/ /\ disk' = [disk EXCEPT ![f] = published.loader]
        /\ todo' = todo \ {f}
        /\ UNCHANGED <<published, current, force, packageVars, phase, since, interrupted>>
     \/ EndsInLoader(f)

KeepFile(f) ==
  /\ IsNext(f) /\ ~MustFetch(f)
  /\ todo' = todo \ {f}
  /\ UNCHANGED <<published, disk, current, force, packageVars, phase, since, interrupted>>

LoadFiles ==
  /\ phase = "fetch" /\ todo = {}
  /\ phase' = "check"
  /\ interrupted' = IF force THEN interrupted \ {Bootstrap} ELSE interrupted
  /\ UNCHANGED <<published, loaderVars, packageVars, since>>

\* A wrong CheckVersion that does not write the version it found.
CheckVersionUnsaved ==
  /\ phase = "check"
  /\ IF current = disk[LatestFile]
     THEN phase' = "load" /\ UNCHANGED force
     ELSE phase' = "bootstrap" /\ force' = TRUE
  /\ UNCHANGED <<published, disk, current, todo, packageVars, since, interrupted>>

\* The new version is written before anything of it was fetched.
CheckVersion ==
  /\ phase = "check"
  /\ current' = disk[LatestFile]
  /\ IF current = disk[LatestFile]
     THEN phase' = "load" /\ UNCHANGED force
     ELSE phase' = "bootstrap" /\ force' = TRUE
  /\ UNCHANGED <<published, disk, todo, packageVars, since, interrupted>>

StopInCheckVersion ==
  /\ phase = "check"
  /\ current' = Empty
  /\ EndsWith({})
  /\ UNCHANGED <<disk, info, data>>

-----------------------------------------------------------------------------
(* The package loader: DownloadPackage of the option's packages, in any       *)
(* order in which they may require one another.  A package that was loaded in  *)
(* this start is not loaded again, but its data is downloaded again.           *)

\* A wrong internalDownloadPackage that reads the old version after the download.
LoadPackageUnforced(p) ==
  /\ phase = "load" /\ loads[p] = 0
  /\ info' = [info EXCEPT ![p] = published.package[p]]
  /\ phase' = "data" /\ package' = p /\ loads' = [loads EXCEPT ![p] = 1]
  /\ UNCHANGED <<published, loaderVars, data, forced, since, interrupted>>

LoadPackage(p) ==
  /\ phase = "load" /\ loads[p] = 0
  /\ info' = [info EXCEPT ![p] = published.package[p]]
  /\ forced' = IF info[p] \notin {Missing, Empty, info'[p]} THEN forced \cup {p} ELSE forced
  /\ phase' = "data" /\ package' = p /\ loads' = [loads EXCEPT ![p] = 1]
  /\ UNCHANGED <<published, loaderVars, data, since, interrupted>>

StopInLoadPackage(p) ==
  /\ phase = "load" /\ loads[p] = 0
  /\ info' = [info EXCEPT ![p] = Empty]
  /\ EndsWith(IF data[p] = Missing THEN {} ELSE {p})
  /\ UNCHANGED <<disk, current, data>>

LoadedPackage(p) ==
  /\ phase = "load" /\ loads[p] \in 1 .. MaxLoads - 1
  /\ phase' = "data" /\ package' = p /\ loads' = [loads EXCEPT ![p] = loads[p] + 1]
  /\ UNCHANGED <<published, loaderVars, info, data, forced, since, interrupted>>

FetchData ==
  /\ phase = "data"
  /\ data[package] = Missing \/ package \in forced
  /\ \/ /\ data' = [data EXCEPT ![package] = published.package[package]]
        /\ phase' = "load"
        /\ interrupted' = interrupted \ {package}
        /\ UNCHANGED <<published, loaderVars, info, loads, package, forced, since>>
     \/ /\ data' = [data EXCEPT ![package] = Empty]
        /\ EndsWith(Updating)
        /\ UNCHANGED <<disk, current, info>>

KeepData ==
  /\ phase = "data"
  /\ data[package] \notin {Missing, Empty} /\ package \notin forced
  /\ phase' = "load"
  /\ UNCHANGED <<published, loaderVars, packageVars, since, interrupted>>

Run ==
  /\ phase = "load"
  /\ \A p \in Packages : loads[p] > 0
  /\ phase' = "run"
  /\ UNCHANGED <<published, loaderVars, packageVars, since, interrupted>>

-----------------------------------------------------------------------------
Computer ==
  \/ FetchBootstrap \/ KeepBootstrap
  \/ \E f \in Fetched : FetchFile(f) \/ KeepFile(f)
  \/ LoadFiles \/ CheckVersion \/ StopInCheckVersion
  \/ \E p \in Packages : LoadPackage(p) \/ StopInLoadPackage(p) \/ LoadedPackage(p)
  \/ FetchData \/ KeepData \/ Run

Next ==
  \/ Publish
  \/ \E p \in Packages : PublishPackage(p)
  \/ Start
  \/ Stop
  \/ Computer

Spec == Init /\ [][Next]_vars

(* A start goes on until it runs the program, or ends.                       *)
FairSpec == Spec /\ WF_vars(Computer \/ (phase # "run" /\ Stop))

-----------------------------------------------------------------------------
(* Type invariant: of the server, the disk and the running start. *)
TypeOK ==
  /\ published \in Publications
  /\ disk \in [Files -> Content]
  /\ current \in Content
  /\ info \in [Packages -> Content]
  /\ data \in [Packages -> Content]
  /\ phase \in {"off", "bootstrap", "fetch", "check", "load", "data", "run"}
  /\ force \in BOOLEAN
  /\ todo \subseteq Fetched
  /\ loads \in [Packages -> 0 .. MaxLoads]
  /\ package \in Packages \cup {NoPackage}
  /\ forced \subseteq Packages
  /\ since \in Publications
  /\ interrupted \subseteq Packages \cup {Bootstrap}

(* The loader that runs is of one version, the one CheckVersion found: also  *)
(* if the server published others between any two downloads, and after stops  *)
(* anywhere but in the update of the loader.                                 *)
LoadedIsCurrent ==
  phase \in {"load", "data", "run"} /\ Bootstrap \notin interrupted => \A f \in Files : disk[f] = current

(* What runs is what was published when the computer started, or newer: every *)
(* file of the loader and the data of every package, but for those of which   *)
(* an update was cut off.  The loader keeps old files while the version file   *)
(* says what it said; the package loader keeps data while the index does.     *)
UpToDate ==
  /\ phase \in {"load", "data", "run"} /\ Bootstrap \notin interrupted =>
       \A f \in Files : disk[f] \in Versions /\ disk[f] >= since.loader
  /\ phase = "run" =>
       \A p \in Packages \ interrupted : data[p] \in Versions /\ data[p] >= since.package[p]

(* The program's modules are never older than the index that lists them,      *)
(* unless an update of that package was cut off between its two files; the     *)
(* next update repairs that.                                                 *)
DataNotOlder ==
  phase = "run" => \A p \in Packages \ interrupted : data[p] >= info[p]

(* A start ends: CheckVersion does not restart the loader for ever.           *)
StartsEnd == phase = "bootstrap" ~> phase \in {"off", "run"}
=============================================================================
