------------------------------ MODULE Installer ------------------------------
(***************************************************************************)
(* The installer service (service/installer/installer.c): a loop that      *)
(* looks into the download directory once a second, unpacks every package  *)
(* it finds and renames the result into the app directory, and starts the  *)
(* upgrade script for a system image.                                      *)
(*                                                                         *)
(* External: whoever delivers releases into the directory; the file        *)
(* system, whose operations are atomic and survive a crash of the process; *)
(* zip_extract, which opens the archive and writes one file after another. *)
(*                                                                         *)
(* A directory is the function from the files in it to what they hold: the *)
(* release they were unpacked from, or Torn for a file cut short.          *)
(***************************************************************************)
EXTENDS Integers

CONSTANTS
    Package,   \* the names of packages in the download directory, <x>.app
    SysImg,    \* the name of the system image, sys.img
    App,       \* the directories under app/
    Stem,      \* the app directory of a package: its name up to the first dot
    Release,   \* what may ever be delivered
    NameOf,    \* the name each release is delivered under
    Files,     \* the files in its archive
    InPlace,   \* whether a package may be written under its final name
    IoFails,   \* whether unpacking may fail
    MaxCrash,  \* bound: crashes of the installer
    None,      \* no file
    NoDir,     \* no directory
    Torn       \* the contents of a file that was not written to its end

Name == Package \cup {SysImg}
File == UNION {Files[r] : r \in Release}
Dir == UNION {[S -> Release \cup {Torn}] : S \in SUBSET File}

ASSUME NameAssumption ==
    SysImg \notin Package /\ Stem \in [Package -> App] /\ NameOf \in [Release -> Name]
ASSUME ReleaseAssumption ==
    None \notin Release /\ Torn \notin Release
    /\ \A r \in Release : Files[r] # {}
ASSUME DirAssumption == NoDir \notin Dir
ASSUME SwitchAssumption == InPlace \in BOOLEAN /\ IoFails \in BOOLEAN /\ MaxCrash \in Nat

VARIABLES
    download,  \* the download directory: the release under each name
    writing,   \* releases still being written under their final name
    delivered, \* releases whose delivery has begun
    tmp,       \* the directory each package is unpacked to, tmp/<x>.app.tmp
    app,       \* the installed apps
    lock,      \* sys.img.lock: the image last handed to the upgrade script
    pc,        \* where the installer is
    seen,      \* the names readdir has returned in this scan
    due,       \* the names that were there when the scan began
    pkg,       \* the package being installed
    rel,       \* the release zip_extract has open, Torn if it was overwritten
    left,      \* the files it has still to unpack
    started,   \* history: images the upgrade script was started on
    latest,    \* history: the last release delivered under each name
    overrun,   \* history: releases delivered while their package was unpacked
    spoilt,    \* history: releases that were not, or not wholly, unpacked
    dropped,   \* history: images whose upgrade a crash cut off
    crashes    \* history: how often the installer crashed

files == <<download, writing, delivered, latest, overrun>>
disk == <<tmp, app, lock>>
scan == <<seen, due>>
job == <<pkg, rel, left>>
history == <<started, spoilt, dropped, crashes>>
vars == <<files, disk, pc, scan, job, history>>

TypeOK ==
    /\ download \in [Name -> Release \cup {None}]
    /\ writing \subseteq delivered /\ delivered \subseteq Release
    /\ tmp \in [Package -> Dir \cup {NoDir}] /\ app \in [App -> Dir \cup {NoDir}]
    /\ lock \in Release \cup {None}
    /\ pc \in {"sleep", "scan", "extract", "rename", "system", "dead"}
    /\ seen \subseteq Name /\ due \subseteq Name
    /\ pkg \in Package \cup {None} /\ rel \in Release \cup {None, Torn} /\ left \subseteq File
    /\ latest \in [Name -> Release \cup {None}]
    /\ overrun \subseteq Release /\ spoilt \subseteq Release
    /\ started \subseteq Release /\ dropped \subseteq Release /\ crashes \in 0 .. MaxCrash

Init ==
    /\ download = [n \in Name |-> None] /\ latest = download
    /\ tmp = [p \in Package |-> NoDir] /\ app = [a \in App |-> NoDir] /\ lock = None
    /\ pc = "sleep" /\ seen = {} /\ due = {}
    /\ pkg = None /\ rel = None /\ left = {}
    /\ writing = {} /\ delivered = {} /\ started = {} /\ overrun = {} /\ spoilt = {}
    /\ dropped = {} /\ crashes = 0

Present == {n \in Name : download[n] # None}

(***************************************************************************)
(* Deliveries                                                              *)
(***************************************************************************)

Arrive(r) ==
    /\ r \notin delivered
    /\ delivered' = delivered \cup {r}
    /\ download' = [download EXCEPT ![NameOf[r]] = r]
    /\ latest' = [latest EXCEPT ![NameOf[r]] = r]
    /\ overrun' = IF pc = "extract" /\ pkg = NameOf[r] THEN overrun \cup {r} ELSE overrun

\* A finished release is moved into the directory; the file an earlier one had
\* stays open for whoever reads it.
deliver(r) ==
    /\ Arrive(r)
    /\ UNCHANGED <<writing, disk, pc, scan, job, history>>

\* A package is written under its final name, over the bytes of an earlier one.
\* (An image is not looked into here, so how it is written makes no difference.)
deliver_begin(r) ==
    /\ InPlace /\ NameOf[r] \in Package /\ Arrive(r)
    /\ writing' = writing \cup {r}
    /\ rel' = IF left # {} /\ rel = download[NameOf[r]] THEN Torn ELSE rel
    /\ spoilt' = IF rel' # rel THEN spoilt \cup {rel} ELSE spoilt
    /\ UNCHANGED <<disk, pc, scan, pkg, left, started, dropped, crashes>>

deliver_end(r) ==
    /\ r \in writing
    /\ writing' = writing \ {r}
    /\ UNCHANGED <<download, delivered, latest, overrun, disk, pc, scan, job, history>>

(***************************************************************************)
(* The scan: sniff_new                                                     *)
(***************************************************************************)

opendir ==
    /\ pc = "sleep"
    /\ pc' = "scan" /\ seen' = {} /\ due' = Present
    /\ UNCHANGED <<files, disk, job, history>>

\* Mutant: start() looks into the directory once.
scan_end_once ==
    /\ pc = "scan" /\ due \cap Present \subseteq seen
    /\ pc' = "dead"
    /\ UNCHANGED <<files, disk, scan, job, history>>

\* Every name that stays for the whole scan is returned, once; one that comes
\* during it may be.
scan_end ==
    /\ pc = "scan" /\ due \cap Present \subseteq seen
    /\ pc' = "sleep"
    /\ UNCHANGED <<files, disk, scan, job, history>>

Next_entry(n) == pc = "scan" /\ n \in Present \ seen /\ seen' = seen \cup {n}

(***************************************************************************)
(* A package: install_app, unzip_and_install                               *)
(***************************************************************************)

\* verify() accepts everything.  The archive's directory is at its end, so one
\* that is still being written cannot be opened.
zip_open(p) ==
    /\ Next_entry(p)
    /\ pkg' = p /\ pc' = "extract"
    /\ rel' = download[p]
    /\ \/ /\ download[p] \notin writing
          /\ left' = Files[download[p]] /\ UNCHANGED spoilt
       \/ /\ download[p] \in writing \/ IoFails
          /\ left' = {} /\ spoilt' = spoilt \cup {download[p]}
    /\ UNCHANGED <<files, disk, due, started, dropped, crashes>>

EmptyDir == [f \in {} |-> None]
Inside(d) == IF d = NoDir THEN EmptyDir ELSE d

\* A directory, made if it is not there, with c in file f.
With(d, f, c) == [g \in DOMAIN Inside(d) \cup {f} |-> IF g = f THEN c ELSE Inside(d)[g]]

\* Mutant: a file that is there already is not unpacked again.
zip_extract_missing(f) ==
    /\ pc = "extract" /\ f \in left /\ rel # Torn
    /\ tmp' = [tmp EXCEPT ![pkg] = IF f \in DOMAIN Inside(@) THEN @ ELSE With(@, f, rel)]
    /\ left' = left \ {f}
    /\ UNCHANGED <<files, app, lock, pc, scan, pkg, rel, history>>

\* One file of the archive, over whatever an earlier attempt left behind.
zip_extract(f) ==
    /\ pc = "extract" /\ f \in left /\ rel # Torn
    /\ tmp' = [tmp EXCEPT ![pkg] = With(@, f, rel)]
    /\ left' = left \ {f}
    /\ UNCHANGED <<files, app, lock, pc, scan, pkg, rel, history>>

\* What is on the disk when the unpacking of a file is cut short: nothing new,
\* the directory made for it, or the file itself.
CutShort(f) ==
    \/ UNCHANGED tmp
    \/ tmp' = [tmp EXCEPT ![pkg] = Inside(@)]
    \/ tmp' = [tmp EXCEPT ![pkg] = With(@, f, Torn)]

\* zip_extract stops at the first failure; its result is not looked at.
zip_fails(f) ==
    /\ pc = "extract" /\ f \in left /\ (IoFails \/ rel = Torn)
    /\ CutShort(f)
    /\ left' = {} /\ spoilt' = IF rel = Torn THEN spoilt ELSE spoilt \cup {rel}
    /\ UNCHANGED <<files, app, lock, pc, scan, pkg, rel, started, dropped, crashes>>

\* Mutant: the package is removed before it is unpacked to the end.
remove_early ==
    /\ pc = "extract" /\ download[pkg] # None
    /\ download' = [download EXCEPT ![pkg] = None]
    /\ pc' = IF left = {} THEN "rename" ELSE pc
    /\ UNCHANGED <<writing, delivered, latest, overrun, disk, scan, job, history>>

\* remove(pkg_path): whatever has that name by now.  check() does nothing.
remove ==
    /\ pc = "extract" /\ left = {}
    /\ download' = [download EXCEPT ![pkg] = None]
    /\ pc' = "rename"
    /\ UNCHANGED <<writing, delivered, latest, overrun, disk, scan, job, history>>

\* Mutant: the new files are copied over an installed app.
rename_merge ==
    /\ pc = "rename" /\ pc' = "scan"
    /\ IF tmp[pkg] # NoDir
       THEN /\ app' = [app EXCEPT ![Stem[pkg]] =
                [f \in DOMAIN tmp[pkg] \cup DOMAIN Inside(@) |->
                    IF f \in DOMAIN tmp[pkg] THEN tmp[pkg][f] ELSE Inside(@)[f]]]
            /\ tmp' = [tmp EXCEPT ![pkg] = NoDir]
       ELSE UNCHANGED <<tmp, app>>
    /\ pkg' = None /\ rel' = None
    /\ UNCHANGED <<files, lock, scan, left, history>>

\* Mutant: the app directory gets the package's name.
rename_unsplit ==
    /\ pc = "rename" /\ pc' = "scan"
    /\ IF tmp[pkg] # NoDir
       THEN app' = [a \in App \cup {pkg} |-> IF a = pkg THEN tmp[pkg] ELSE app[a]] /\ tmp' = [tmp EXCEPT ![pkg] = NoDir]
       ELSE UNCHANGED <<tmp, app>>
    /\ pkg' = None /\ rel' = None
    /\ UNCHANGED <<files, lock, scan, left, history>>

\* rename(unzip_path, app_path): it takes the place of no directory or of an
\* empty one, and fails, unnoticed, on any other.
rename ==
    /\ pc = "rename" /\ pc' = "scan"
    /\ IF tmp[pkg] # NoDir /\ app[Stem[pkg]] \in {NoDir, EmptyDir}
       THEN /\ app' = [app EXCEPT ![Stem[pkg]] = tmp[pkg]]
            /\ tmp' = [tmp EXCEPT ![pkg] = NoDir]
       ELSE UNCHANGED <<tmp, app>>
    /\ pkg' = None /\ rel' = None
    /\ UNCHANGED <<files, lock, scan, left, history>>

(***************************************************************************)
(* The system image: upgrade_sys                                           *)
(***************************************************************************)

\* The image is renamed, over the one of an earlier upgrade.
lock_image ==
    /\ Next_entry(SysImg)
    /\ lock' = download[SysImg] /\ download' = [download EXCEPT ![SysImg] = None]
    /\ pc' = "system"
    /\ UNCHANGED <<writing, delivered, latest, overrun, tmp, app, due, job, history>>

\* Mutant: the 0 of the rename is taken for a failure.
start_script_never ==
    /\ pc = "system" /\ pc' = "scan"
    /\ UNCHANGED <<files, disk, scan, job, history>>

\* system("nohup ./init/upgrade.sh &")
start_script ==
    /\ pc = "system" /\ pc' = "scan"
    /\ started' = started \cup {lock}
    /\ UNCHANGED <<files, disk, scan, job, spoilt, dropped, crashes>>

(***************************************************************************)
(* Crash and restart                                                       *)
(***************************************************************************)

Crash ==
    /\ pc # "dead" /\ crashes < MaxCrash
    /\ pc' = "dead" /\ crashes' = crashes + 1
    /\ dropped' = IF pc = "system" THEN dropped \cup {lock} ELSE dropped
    /\ \/ UNCHANGED tmp
       \/ pc = "extract" /\ \E f \in left : CutShort(f)
    /\ pkg' = None /\ rel' = None /\ left' = {} /\ seen' = {} /\ due' = {}
    /\ UNCHANGED <<files, app, lock, started, spoilt>>

start ==
    /\ pc = "dead" /\ pc' = "sleep"
    /\ UNCHANGED <<files, disk, scan, job, history>>

(***************************************************************************)
(* Specification                                                           *)
(***************************************************************************)

Next ==
    \/ \E r \in Release : deliver(r)
    \/ \E r \in Release : deliver_begin(r)
    \/ \E r \in Release : deliver_end(r)
    \/ opendir
    \/ scan_end
    \/ \E p \in Package : zip_open(p)
    \/ \E f \in File : zip_extract(f)
    \/ \E f \in File : zip_fails(f)
    \/ remove
    \/ rename
    \/ lock_image
    \/ start_script
    \/ Crash
    \/ start

Spec == Init /\ [][Next]_vars

\* The installer's own thread keeps running while its process is alive.
Work ==
    \/ opendir \/ scan_end \/ remove \/ rename \/ lock_image \/ start_script
    \/ \E p \in Package : zip_open(p)
    \/ \E f \in File : zip_extract(f) \/ zip_fails(f)

FairSpec == Spec /\ WF_vars(Work)

(***************************************************************************)
(* Properties                                                              *)
(***************************************************************************)

Holds(d, r) == d # NoDir /\ Files[r] \subseteq DOMAIN d /\ \A f \in Files[r] : d[f] = r

\* Nothing delivered is lost quietly: the last release delivered under a
\* package's name is still to be found, packed or wholly unpacked, unless it came
\* while an earlier one was being unpacked (installer.c:211 removes by name), or
\* it could not be unpacked (installer.c:210 ignores that).
LatestKept ==
    \A p \in Package :
        \/ latest[p] \in {None} \cup overrun \cup spoilt
        \/ download[p] = latest[p]
        \/ Holds(tmp[p], latest[p])
        \/ Holds(app[Stem[p]], latest[p])

\* While nothing fails to unpack, an installed app has every file of one
\* release, wherever the installer may have crashed before (installer.c:210-219).
InstalledWhole ==
    \A a \in App : app[a] # NoDir => spoilt # {} \/ \E r \in Release : Holds(app[a], r)

\* An app is put together from files of two releases only if the installer
\* crashed: what an attempt left in tmp is not cleared (installer.c:207-210).
MixedOnlyAfterCrash ==
    \A a \in App : app[a] # NoDir =>
        \/ crashes > 0
        \/ \A f, g \in DOMAIN app[a] : app[a][f] = app[a][g] \/ Torn \in {app[a][f], app[a][g]}

\* An image that was moved away is upgraded to, or is being, unless the
\* installer crashed between the two steps (installer.c:150-164): the next scan
\* does not find it.
ImageStarted == lock = None \/ lock \in started \cup dropped \/ pc = "system"

\* While the process lives, every package is dealt with, and the app it names is
\* there in the end unless its packages could not be unpacked (installer.c:82-85).
Dealt(r) ==
    /\ download[NameOf[r]] # r
    /\ app[Stem[NameOf[r]]] # NoDir \/ \E s \in spoilt : NameOf[s] = NameOf[r]
EveryAppArrives ==
    []<>(crashes > 0 \/ \A r \in delivered : NameOf[r] \in Package => Dealt(r))
=============================================================================
