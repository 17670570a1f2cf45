--------------------------- MODULE InstallerMirror ---------------------------
(***************************************************************************)
(* The installers a collector offers: the main thread mirrors the latest   *)
(* release into a directory (collector/src/release_mirror.cpp, main.cpp)   *)
(* and scans it (installer_dist.cpp), handler threads of the HTTP server   *)
(* serve manifest and files (http_server.cpp). Other files may have been   *)
(* put there by hand. The directory survives a restart, the manifest does  *)
(* not.                                                                    *)
(*                                                                         *)
(* The content of a file is the release it is from and whether it is       *)
(* whole; a hash tells contents apart. A fetch of the release description  *)
(* that fails changes nothing and is left out. A .part file is not parsed  *)
(* as an installer.                                                        *)
(***************************************************************************)
EXTENDS Naturals

CONSTANTS
    Reader,         \* handler threads
    Mirrored,       \* StableAssetNames
    Staged,         \* files put into the directory by hand
    PlatformOf,     \* ParseInstallerFilename
    NoFile

ASSUME MirrorAssumption ==
    /\ Mirrored \cap Staged = {}
    /\ DOMAIN PlatformOf = Mirrored \cup Staged
    /\ NoFile \notin Mirrored \cup Staged

Name == Mirrored \cup Staged
Platform == {PlatformOf[n] : n \in Name}

VARIABLES
    release,        \* the release mirrored last
    files,          \* the directory
    versionFile,    \* version.txt; 0 if it is missing or empty
    manifest,       \* InstallerDist: version_ and, for each platform, the
                    \* file offered and the hash of its content
    sync,           \* SyncOnce
    download,       \* each reader: its request
    served,         \* history: what downloads delivered
    complete,       \* history: the last sync got every installer and wrote
                    \* version.txt, and scans could read what is there
    syncsLeft, slipsLeft, downloadsLeft      \* bounds

mirrorVars == <<release, files, versionFile, manifest, sync, download, served,
                complete, syncsLeft, slipsLeft, downloadsLeft>>

Absent == [of |-> 0, state |-> "absent"]
File(r, state) == [of |-> r, state |-> state]
NoSync == [pc |-> "idle", of |-> 0, left |-> {}, part |-> NoFile, got |-> {},
           wrote |-> FALSE]
NoDownload == [pc |-> "idle", platform |-> NoFile, from |-> NoFile,
               bytes |-> Absent, rescanned |-> FALSE]

Present == {n \in Name : files[n] # Absent}

(* The directory is listed in any order and the first file of a platform   *)
(* that can be read is taken.                                              *)
Choices(present) ==
    {c \in [Platform -> present \cup {NoFile}] :
        \A p \in Platform :
            IF \E n \in present : PlatformOf[n] = p
            THEN c[p] # NoFile /\ PlatformOf[c[p]] = p ELSE c[p] = NoFile}

Manifest(version, choice, dir) ==
    [version |-> version, offer |-> choice,
     hash |-> [p \in Platform |-> IF choice[p] = NoFile THEN Absent ELSE dir[choice[p]]]]

(* What InstallerDist::Scan may find: files that cannot be read are        *)
(* skipped, and the version is the default if that file cannot be.         *)
Scanned(readAll) ==
    IF readAll THEN {Manifest(versionFile, c, files) : c \in Choices(Present)}
    ELSE UNION {{Manifest(v, c, files) : v \in {versionFile, 0}, c \in Choices(some)} :
                    some \in SUBSET Present}

(* The directory is empty but for the staged files. (The first scan of a   *)
(* process that cannot read them is a case of Restart.)                    *)
MirrorInit ==
    /\ release = 1
    /\ files = [n \in Name |-> IF n \in Staged THEN File(0, "whole") ELSE Absent]
    /\ versionFile = 0
    /\ manifest \in Scanned(TRUE)
    /\ sync = NoSync
    /\ download = [r \in Reader |-> NoDownload]
    /\ served = {}
    /\ complete = FALSE

Slips(n) == slipsLeft >= n /\ slipsLeft' = slipsLeft - n
Slip == Slips(1)

-----------------------------------------------------------------------------
(* InstallerDist::Scan, under its lock.                                    *)
Scan(readAll) ==
    /\ IF readAll THEN UNCHANGED slipsLeft ELSE Slip
    /\ manifest' \in Scanned(readAll)
    /\ download' = [r \in Reader |-> [download[r] EXCEPT !.rescanned = TRUE]]

(* SyncOnce reads the description of the latest release, the one of the    *)
(* last sync or a newer one; it need not have every installer.             *)
SyncBegin(r, assets) ==
    /\ sync.pc = "idle" /\ syncsLeft > 0
    /\ syncsLeft' = syncsLeft - 1
    /\ IF assets = Mirrored THEN UNCHANGED slipsLeft ELSE Slip
    /\ release' = r
    /\ sync' = [NoSync EXCEPT !.pc = "fetch", !.of = r, !.left = assets]
    /\ complete' = FALSE
    /\ UNCHANGED <<files, versionFile, manifest, download, served,
                   downloadsLeft>>

(* Mutant: the download goes to the file itself.                           *)
FetchStart_inPlace(n) ==
    /\ sync.pc = "fetch" /\ sync.part = NoFile /\ n \in sync.left
    /\ sync' = [sync EXCEPT !.part = n]
    /\ files' = [files EXCEPT ![n] = File(sync.of, "partial")]
    /\ UNCHANGED <<release, versionFile, manifest, download, served, complete,
                   syncsLeft, slipsLeft, downloadsLeft>>

(* DownloadToFile writes a .part file ...                                  *)
FetchStart(n) ==
    /\ sync.pc = "fetch" /\ sync.part = NoFile /\ n \in sync.left
    /\ sync' = [sync EXCEPT !.part = n]
    /\ UNCHANGED <<release, files, versionFile, manifest, download, served, complete,
                   syncsLeft, slipsLeft, downloadsLeft>>

(* ... and renames it. The result of fclose is not looked at: if the disk  *)
(* fills up there, the file is cut. Any other failure keeps the old file.  *)
FetchEnd ==
    LET n == sync.part
        rest == [sync EXCEPT !.part = NoFile, !.left = @ \ {n}]
    IN
    /\ sync.pc = "fetch" /\ n # NoFile
    /\ \/ /\ files' = [files EXCEPT ![n] = File(sync.of, "whole")]
          /\ sync' = [rest EXCEPT !.got = @ \cup {n}]
          /\ UNCHANGED slipsLeft
       \/ /\ Slip
          /\ files' = [files EXCEPT ![n] = File(sync.of, "cut")]
          /\ sync' = [rest EXCEPT !.got = @ \cup {n}]
       \/ Slip /\ sync' = rest /\ UNCHANGED files
    /\ UNCHANGED <<release, versionFile, manifest, download, served, complete,
                   syncsLeft, downloadsLeft>>

(* version.txt is opened, which empties it, and written, whatever was      *)
(* downloaded. SyncOnce looks at the result of neither.                    *)
TruncateVersion ==
    /\ sync.pc = "fetch" /\ sync.left = {}
    /\ \/ versionFile' = 0 /\ sync' = [sync EXCEPT !.pc = "version"] /\ UNCHANGED slipsLeft
       \/ Slip /\ sync' = [sync EXCEPT !.pc = "end"] /\ UNCHANGED versionFile
    /\ UNCHANGED <<release, files, manifest, download, served, complete,
                   syncsLeft, downloadsLeft>>

WriteVersion ==
    /\ sync.pc = "version"
    /\ \/ /\ versionFile' = sync.of
          /\ sync' = [sync EXCEPT !.pc = "end", !.wrote = TRUE]
          /\ UNCHANGED slipsLeft
       \/ Slip /\ sync' = [sync EXCEPT !.pc = "end"] /\ UNCHANGED versionFile
    /\ UNCHANGED <<release, files, manifest, download, served, complete,
                   syncsLeft, downloadsLeft>>

(* Mutant: the directory is scanned only if nothing failed.                *)
SyncEnd_ifAll ==
    /\ sync.pc = "end"
    /\ \E readAll \in BOOLEAN :
         /\ IF sync.got = Mirrored THEN Scan(readAll)
            ELSE readAll /\ UNCHANGED <<manifest, download, slipsLeft>>
         /\ complete' = (sync.got = Mirrored /\ sync.wrote /\ readAll)
    /\ sync' = NoSync
    /\ UNCHANGED <<release, files, versionFile, served, syncsLeft, downloadsLeft>>

(* SyncOnce returns downloaded > 0: only then main scans again.            *)
SyncEnd ==
    /\ sync.pc = "end"
    /\ \E readAll \in BOOLEAN :
         /\ IF sync.got # {} THEN Scan(readAll)
            ELSE readAll /\ UNCHANGED <<manifest, download, slipsLeft>>
         /\ complete' = (sync.got = Mirrored /\ sync.wrote /\ readAll)
    /\ sync' = NoSync
    /\ UNCHANGED <<release, files, versionFile, served, syncsLeft, downloadsLeft>>

(* The collector ends and starts again: main scans before it serves.       *)
Restart ==
    /\ \E readAll \in BOOLEAN :
         /\ Slips(IF readAll THEN 1 ELSE 2)
         /\ manifest' \in Scanned(readAll)
         /\ complete' = (complete /\ sync.pc = "idle" /\ readAll)
    /\ sync' = NoSync
    /\ download' = [r \in Reader |-> NoDownload]
    /\ UNCHANGED <<release, files, versionFile, served, syncsLeft, downloadsLeft>>

-----------------------------------------------------------------------------
(* GET /api/installers/download: three calls, each with the lock.          *)
Has(r, p) ==
    /\ download[r].pc = "idle" /\ downloadsLeft > 0
    /\ manifest.offer[p] # NoFile
    /\ downloadsLeft' = downloadsLeft - 1
    /\ download' = [download EXCEPT ![r] = [NoDownload EXCEPT !.pc = "load", !.platform = p]]
    /\ UNCHANGED <<release, files, versionFile, manifest, sync, served, complete,
                   syncsLeft, slipsLeft>>

(* 500 if the platform is gone or the file cannot be read.                 *)
Load(r) ==
    LET n == manifest.offer[download[r].platform] IN
    /\ download[r].pc = "load"
    /\ \/ /\ n # NoFile
          /\ download' = [download EXCEPT ![r].pc = "name", ![r].from = n,
                                          ![r].bytes = files[n], ![r].rescanned = FALSE]
          /\ UNCHANGED slipsLeft
       \/ /\ download' = [download EXCEPT ![r] = NoDownload]
          /\ IF n = NoFile THEN UNCHANGED slipsLeft ELSE Slip
    /\ UNCHANGED <<release, files, versionFile, manifest, sync, served, complete,
                   syncsLeft, downloadsLeft>>

(* 404 if the platform is gone.                                            *)
DownloadName(r) ==
    LET d == download[r]
        n == manifest.offer[d.platform]
    IN
    /\ d.pc = "name"
    /\ served' = IF n = NoFile THEN served
                 ELSE served \cup {[platform |-> d.platform, bytes |-> d.bytes,
                                    from |-> d.from, as |-> n, rescanned |-> d.rescanned]}
    /\ download' = [download EXCEPT ![r] = NoDownload]
    /\ UNCHANGED <<release, files, versionFile, manifest, sync, complete,
                   syncsLeft, slipsLeft, downloadsLeft>>

-----------------------------------------------------------------------------
MirrorStep ==
    \/ \E r \in {release, release + 1}, assets \in SUBSET Mirrored : SyncBegin(r, assets)
    \/ \E n \in Mirrored : FetchStart(n)
    \/ FetchEnd \/ TruncateVersion \/ WriteVersion \/ SyncEnd
    \/ \E r \in Reader : Load(r) \/ DownloadName(r)

(* Scan, SyncOnce: while no sync is under way, the hash the manifest gives *)
(* for an installer is that of the file a download will read; and if the   *)
(* last sync got every installer and could write version.txt, and no scan  *)
(* met a file it could not read, each mirrored installer that is offered   *)
(* is of the version the manifest shows.                                   *)
ManifestHonest ==
    sync.pc = "idle" => \A p \in Platform :
        LET n == manifest.offer[p] IN n # NoFile =>
            /\ manifest.hash[p] = files[n]
            /\ complete /\ n \in Mirrored => manifest.hash[p].of = manifest.version

(* DownloadToFile, the download handler: a download never delivers a file  *)
(* that is still being fetched, only files of the platform asked for, and  *)
(* under the name of the file it read unless a scan came in between.       *)
ServedWhole ==
    \A s \in served :
        /\ s.bytes.state \in {"whole", "cut"}
        /\ PlatformOf[s.from] = s.platform
        /\ s.as = s.from \/ s.rescanned
=============================================================================
