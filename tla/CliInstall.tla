------------------------------ MODULE CliInstall ------------------------------
(***************************************************************************)
(* Installing one command-line model (providers/src/cli/install.ts) on     *)
(* several servers, each with a directory of its own, that share a cache   *)
(* of binaries (docs/DEPLOY.md: "every Compose project on the host shares  *)
(* it").                                                                   *)
(*                                                                         *)
(* Any step of an install may fail or be its server's last.  Files are     *)
(* renamed into place at once but written little by little: `open` holds   *)
(* who is writing a file, or Dead for a writer that stopped in the middle. *)
(* Servers write the same temporary file of the cache.  Only its version   *)
(* and whether it is whole are modelled of a binary; `--version` tells a   *)
(* whole one from another.  Machines do not change their architecture.     *)
(***************************************************************************)
EXTENDS Naturals, FiniteSets

CONSTANTS
  Servers,
  Pins,        \* [Servers -> the versions it may be set to, NoVersion for the latest]
  MaxVersion,  \* bound on versions released
  MaxInstalls  \* bound on installs begun

Versions == 1 .. MaxVersion
NoVersion == 0
Dead == "dead"
ASSUME InstallPinsAssumption ==
  Pins \in [Servers -> SUBSET (Versions \cup {NoVersion})] /\ Dead \notin Servers
ASSUME InstallBoundsAssumption == MaxVersion \in Nat \ {0} /\ MaxInstalls \in Nat

VARIABLES
  latest,    \* the latest version there is
  pin,       \* the version each server is set to
  binary,    \* of each server: the binary in place, [version, whole]
  manifest,  \* the version its manifest names
  install,   \* where its install is: [stage, version, whole], of what is staged
  cached,    \* of each version in the cache: [tmp, bin, meta]
  torn,      \* the servers that stopped between a binary and its manifest
  installs

installVars == <<latest, pin, binary, manifest, install, cached, torn, installs>>

NoFile == [exists |-> FALSE, open |-> {}]
File == [exists : BOOLEAN, open : SUBSET (Servers \cup {Dead})]
NoEntry == [tmp |-> NoFile, bin |-> NoFile, meta |-> FALSE]
NotInstalling == [stage |-> "none", version |-> NoVersion, whole |-> FALSE]

Stages == {"none", "resolve", "cache", "download", "write", "writing", "rename", "meta", "place",
           "manifest", "ok", "failed"}
Installs == [stage : Stages, version : Versions \cup {NoVersion}, whole : BOOLEAN]
Entries == [tmp : File, bin : File, meta : BOOLEAN]

InstallTypeOK ==
  /\ latest \in Versions /\ pin \in [Servers -> Versions \cup {NoVersion}]
  /\ binary \in [Servers -> [version : Versions \cup {NoVersion}, whole : BOOLEAN]]
  /\ manifest \in [Servers -> Versions \cup {NoVersion}]
  /\ install \in [Servers -> Installs] /\ cached \in [Versions -> Entries]
  /\ torn \subseteq Servers /\ installs \in 0 .. MaxInstalls

InstallInit ==
  /\ latest = 1
  /\ pin \in [Servers -> Versions \cup {NoVersion}] /\ \A s \in Servers : pin[s] \in Pins[s]
  /\ binary = [s \in Servers |-> [version |-> NoVersion, whole |-> FALSE]]
  /\ manifest = [s \in Servers |-> NoVersion]
  /\ install = [s \in Servers |-> NotInstalling]
  /\ cached = [v \in Versions |-> NoEntry]
  /\ torn = {} /\ installs = 0

Installing(s) == install[s].stage \notin {"none", "ok", "failed"}
InstallIs(s, stage, version, whole) ==
  install' = [install EXCEPT ![s] = [stage |-> stage, version |-> version, whole |-> whole]]
InstallAt(s, stage) == InstallIs(s, stage, install[s].version, install[s].whole)
InstallFailed(s) == InstallIs(s, "failed", NoVersion, FALSE)
Installed(s) == manifest[s] # NoVersion /\ binary[s].version # NoVersion

\* A mutant of CanSkip: what is there will do, whatever was asked for.
SkipInstalled(s, update) == Installed(s) /\ ~update
\* canSkip
CanSkip(s, update) ==
  Installed(s) /\ IF pin[s] # NoVersion THEN manifest[s] = pin[s] ELSE ~update

\* install and execute: a second request joins the install under way.
BeginInstall(s) ==
  /\ ~Installing(s) /\ installs < MaxInstalls /\ installs' = installs + 1
  /\ \E update \in BOOLEAN :
       IF CanSkip(s, update) THEN InstallIs(s, "ok", manifest[s], FALSE)
                             ELSE InstallIs(s, "resolve", NoVersion, FALSE)
  /\ UNCHANGED <<latest, pin, binary, manifest, cached, torn>>

Release == /\ latest < MaxVersion /\ latest' = latest + 1
           /\ UNCHANGED <<pin, binary, manifest, install, cached, torn, installs>>

\* resolve: the pinned version, or the latest.
Wanted(s) == IF pin[s] # NoVersion THEN pin[s] ELSE latest
Resolve(s) ==
  /\ install[s].stage = "resolve"
  /\ InstallIs(s, IF Installed(s) /\ manifest[s] = Wanted(s) THEN "ok" ELSE "cache", Wanted(s), FALSE)
  /\ UNCHANGED <<latest, pin, binary, manifest, cached, torn, installs>>

\* A mutant of Probe: nobody asks the cached binary for its version.
NoProbe(file) == TRUE
\* fromCache: a copy of the cached binary that passes the probe; an entry that
\* cannot be read, or whose binary does not pass, is removed.
Probe(file) == file.open = {}
FromCache(s) ==
  LET entry == cached[install[s].version] IN
  /\ install[s].stage = "cache"
  /\ \/ /\ entry.bin.exists /\ entry.meta /\ Probe(entry.bin)
        /\ InstallIs(s, "place", install[s].version, entry.bin.open = {})
        /\ UNCHANGED cached
     \/ /\ entry.bin.exists /\ InstallAt(s, "download")
        /\ cached' = [cached EXCEPT ![install[s].version] = NoEntry]
     \/ ~(entry.bin.exists /\ entry.meta) /\ InstallAt(s, "download") /\ UNCHANGED cached
  /\ UNCHANGED <<latest, pin, binary, manifest, torn, installs>>

\* fetchArtifact and placeBinary: what was downloaded is verified and probed.
Download(s) ==
  /\ install[s].stage = "download"
  /\ InstallIs(s, "write", install[s].version, TRUE)
  /\ UNCHANGED <<latest, pin, binary, manifest, cached, torn, installs>>

\* toCache: the binary under a temporary name, its rename, and the meta data.  A
\* failure removes the entry, whoever else is at it, and does not fail the install.
Entry(s, entry) == cached' = [cached EXCEPT ![install[s].version] = entry]
CacheOpened(file, s) == [exists |-> TRUE, open |-> (file.open \ {Dead}) \cup {s}]
Written(file, s) == [file EXCEPT !.open = @ \ {s}]
BeginCacheWrite(s) ==
  /\ install[s].stage = "write" /\ InstallAt(s, "writing")
  /\ Entry(s, [cached[install[s].version] EXCEPT !.tmp = CacheOpened(@, s)])
  /\ UNCHANGED <<latest, pin, binary, manifest, torn, installs>>

\* Its writer holds the file under whichever name it has by now.
EndCacheWrite(s) ==
  /\ install[s].stage = "writing" /\ InstallAt(s, "rename")
  /\ Entry(s, [cached[install[s].version] EXCEPT !.tmp = Written(@, s), !.bin = Written(@, s)])
  /\ UNCHANGED <<latest, pin, binary, manifest, torn, installs>>

RenameInCache(s) ==
  LET entry == cached[install[s].version] IN
  /\ install[s].stage = "rename"
  /\ \/ /\ entry.tmp.exists /\ InstallAt(s, "meta")
        /\ Entry(s, [entry EXCEPT !.tmp = NoFile, !.bin = entry.tmp])
     \/ ~entry.tmp.exists /\ InstallAt(s, "place") /\ Entry(s, NoEntry)
  /\ UNCHANGED <<latest, pin, binary, manifest, torn, installs>>

WriteMeta(s) ==
  LET entry == cached[install[s].version] IN
  /\ install[s].stage = "meta" /\ InstallAt(s, "place")
  /\ Entry(s, IF entry.bin.exists \/ entry.tmp.exists THEN [entry EXCEPT !.meta = TRUE] ELSE NoEntry)
  /\ UNCHANGED <<latest, pin, binary, manifest, torn, installs>>

CacheFails(s) ==
  /\ install[s].stage \in {"write", "writing", "rename", "meta"} /\ InstallAt(s, "place")
  /\ Entry(s, NoEntry)
  /\ UNCHANGED <<latest, pin, binary, manifest, torn, installs>>

\* The staged binary is renamed into place, and then the manifest is written; the
\* settings that are written last may still fail.
Place(s) ==
  /\ install[s].stage = "place" /\ InstallAt(s, "manifest")
  /\ binary' = [binary EXCEPT ![s] = [version |-> install[s].version, whole |-> install[s].whole]]
  /\ UNCHANGED <<latest, pin, manifest, cached, torn, installs>>

WriteManifest(s) ==
  /\ install[s].stage = "manifest"
  /\ InstallAt(s, "ok") \/ InstallFailed(s)
  /\ manifest' = [manifest EXCEPT ![s] = install[s].version]
  /\ torn' = torn \ {s}
  /\ UNCHANGED <<latest, pin, binary, cached, installs>>

\* A step of the install throws, or its server stops, at any time.
Torn(s) == IF install[s].stage = "manifest" THEN torn \cup {s} ELSE torn
InstallFails(s) ==
  /\ install[s].stage \in {"resolve", "cache", "download", "place", "manifest"}
  /\ InstallFailed(s)
  /\ torn' = Torn(s)
  /\ UNCHANGED <<latest, pin, binary, manifest, cached, installs>>

Abandoned(file, s) == IF s \in file.open THEN [file EXCEPT !.open = (@ \ {s}) \cup {Dead}] ELSE file
ServerStops(s) ==
  /\ \E version \in Pins[s] : pin' = [pin EXCEPT ![s] = version]
  /\ install' = [install EXCEPT ![s] = NotInstalling]
  /\ torn' = Torn(s)
  /\ cached' = [v \in Versions |-> [cached[v] EXCEPT !.tmp = Abandoned(@, s), !.bin = Abandoned(@, s)]]
  /\ UNCHANGED <<latest, binary, manifest, installs>>

InstallNext ==
  \/ Release
  \/ \E s \in Servers :
       \/ BeginInstall(s) \/ Resolve(s) \/ FromCache(s) \/ Download(s)
       \/ BeginCacheWrite(s) \/ EndCacheWrite(s) \/ RenameInCache(s) \/ WriteMeta(s) \/ CacheFails(s)
       \/ Place(s) \/ WriteManifest(s) \/ InstallFails(s) \/ ServerStops(s)

InstallSpec == InstallInit /\ [][InstallNext]_installVars

-----------------------------------------------------------------------------
\* The binary in place is always a whole one, although servers write, rename and
\* remove the same files of the cache and stop in the middle of it.
BinariesAreWhole == \A s \in Servers : binary[s].version # NoVersion => binary[s].whole

\* The manifest names the binary that is there, and an install that answered with
\* a version left that version, the pinned one if there is a pin, unless the
\* last install stopped between the binary and its manifest.
OkMeansInstalled ==
  \A s \in Servers \ torn :
    /\ install[s].stage # "manifest" => manifest[s] = binary[s].version
    /\ install[s].stage = "ok" => /\ binary[s].version = install[s].version
                                  /\ pin[s] # NoVersion => install[s].version = pin[s]

\* What is installed is what was asked for: whole, and as the manifest and the
\* answer say.
InstallsAreTrue == BinariesAreWhole /\ OkMeansInstalled
=============================================================================
