-------------------------- MODULE Installer_proofs --------------------------
(***************************************************************************)
(* Proofs about Installer, for every set of packages, releases and apps,   *)
(* whichever way packages are delivered and however often it crashes.      *)
(***************************************************************************)
EXTENDS Installer, TLAPS

\* What each place of the loop knows about the job.
Busy ==
    /\ pc \in {"extract", "rename"} => pkg \in Package /\ rel \in Release \cup {Torn}
    /\ left # {} => pc = "extract"
    /\ pc = "system" => lock \in Release

\* What lies in the download directory is the last release of its name.
Known ==
    \A n \in Name :
        /\ download[n] \in {None, latest[n]}
        /\ latest[n] # None => NameOf[latest[n]] = n

\* While a package is unpacked the last release is still there; unless it is excused,
\* it is the one unpacked, and the files not left to unpack are in tmp.
Unpacked ==
    pc = "extract" =>
        /\ download[pkg] \in Release /\ latest[pkg] = download[pkg]
        /\ latest[pkg] \notin overrun \cup spoilt =>
               /\ rel = latest[pkg]
               /\ \A f \in Files[rel] \ left :
                      tmp[pkg] # NoDir /\ f \in DOMAIN tmp[pkg] /\ tmp[pkg][f] = rel

\* A directory whose files come from one release, but for those cut short.
Pure(d, r) == \A f \in DOMAIN d : d[f] \in {r, Torn}

\* Before the first crash, what is in tmp is of the release being unpacked, or will
\* never leave it because the app is there.
Sorted ==
    crashes = 0 =>
        \A p \in Package :
            \/ tmp[p] = NoDir
            \/ app[Stem[p]] \notin {NoDir, EmptyDir}
            \/ /\ pc \in {"extract", "rename"} /\ p = pkg
               /\ \E r \in Release : Pure(tmp[p], r) /\ rel \in {r, Torn}

\* While nothing has failed to unpack, what is unpacked is one release, and the files
\* not left to unpack are in tmp.
Whole ==
    spoilt = {} =>
        /\ pc \in {"extract", "rename"} => rel \in Release
        /\ pc = "extract" =>
              \A f \in Files[rel] \ left : tmp[pkg] # NoDir /\ f \in DOMAIN tmp[pkg] /\ tmp[pkg][f] = rel
        /\ pc = "rename" => Holds(tmp[pkg], rel)

-----------------------------------------------------------------------------
(* Directories. *)

\* Inside is a directory, with what was in it.
LEMMA InsideIsDir ==
    ASSUME NEW d \in Dir \cup {NoDir}
    PROVE  /\ Inside(d) \in Dir
           /\ d # NoDir => Inside(d) = d
           /\ d = NoDir => DOMAIN Inside(d) = {}
<1>1. CASE d = NoDir
    <2>1. Inside(d) = EmptyDir
        BY <1>1 DEF Inside
    <2>2. EmptyDir \in [{} -> Release \cup {Torn}]
        BY DEF EmptyDir
    <2>3. EmptyDir \in Dir
        BY <2>2 DEF Dir
    <2>4. DOMAIN EmptyDir = {}
        BY DEF EmptyDir
    <2> QED
        BY <1>1, <2>1, <2>3, <2>4
<1>2. CASE d # NoDir
    BY <1>2 DEF Inside
<1> QED
    BY <1>1, <1>2

\* With puts one file into a directory and leaves the others alone.
LEMMA WithIsDir ==
    ASSUME NEW d \in Dir \cup {NoDir}, NEW f \in File, NEW c \in Release \cup {Torn}
    PROVE  /\ With(d, f, c) \in Dir
           /\ f \in DOMAIN With(d, f, c) /\ With(d, f, c)[f] = c
           /\ d # NoDir => \A g \in DOMAIN d \ {f} : g \in DOMAIN With(d, f, c) /\ With(d, f, c)[g] = d[g]
           /\ \A g \in DOMAIN With(d, f, c) \ {f} : d # NoDir /\ g \in DOMAIN d /\ With(d, f, c)[g] = d[g]
<1> DEFINE i == Inside(d)
<1>1. i \in Dir /\ (d # NoDir => i = d) /\ (d = NoDir => DOMAIN i = {})
    BY InsideIsDir
<1> HIDE DEF i
<1>2. With(d, f, c) = [g \in DOMAIN i \cup {f} |-> IF g = f THEN c ELSE i[g]]
    BY DEF With, i
<1>3. PICK S \in SUBSET File : i \in [S -> Release \cup {Torn}]
    BY <1>1 DEF Dir
<1>4. With(d, f, c) \in [S \cup {f} -> Release \cup {Torn}]
    BY <1>2, <1>3
<1>5. S \cup {f} \in SUBSET File
    BY <1>3
<1>6. With(d, f, c) \in Dir
    BY <1>4, <1>5 DEF Dir
<1> QED
    BY <1>1, <1>2, <1>3, <1>6

\* A file cut short changes the package's directory only, and mixes nothing.
LEMMA CutShortIsDir ==
    ASSUME TypeOK, pkg \in Package, NEW f \in File, CutShort(f)
    PROVE  /\ tmp' \in [Package -> Dir \cup {NoDir}]
           /\ \A p \in Package \ {pkg} : tmp'[p] = tmp[p]
           /\ \A r \in Release : tmp[pkg] = NoDir \/ Pure(tmp[pkg], r) => Pure(tmp'[pkg], r) \/ tmp'[pkg] = NoDir
<1> DEFINE d == tmp[pkg]
<1>1. tmp \in [Package -> Dir \cup {NoDir}] /\ d \in Dir \cup {NoDir}
    BY DEF TypeOK
<1>2. Inside(d) \in Dir /\ With(d, f, Torn) \in Dir
    BY <1>1, InsideIsDir, WithIsDir
<1>3. \A r \in Release : d = NoDir \/ Pure(d, r) => Pure(Inside(d), r) /\ Pure(With(d, f, Torn), r)
    BY <1>1, InsideIsDir, WithIsDir DEF Pure
<1>4. tmp' = tmp \/ tmp' = [tmp EXCEPT ![pkg] = Inside(d)] \/ tmp' = [tmp EXCEPT ![pkg] = With(d, f, Torn)]
    BY DEF CutShort
<1> HIDE DEF d
<1>5. CASE tmp' = tmp
    BY <1>1, <1>5 DEF d
<1>6. CASE tmp' = [tmp EXCEPT ![pkg] = Inside(d)]
    BY <1>1, <1>2, <1>3, <1>6 DEF d
<1>7. CASE tmp' = [tmp EXCEPT ![pkg] = With(d, f, Torn)]
    BY <1>1, <1>2, <1>3, <1>7 DEF d
<1> QED
    BY <1>4, <1>5, <1>6, <1>7

-----------------------------------------------------------------------------
(* Types. *)

LEMMA TypeInit == Init => TypeOK /\ Busy
<1> SUFFICES ASSUME Init PROVE TypeOK /\ Busy
    OBVIOUS
<1>1. crashes \in 0 .. MaxCrash
    BY SwitchAssumption DEF Init
<1> QED
    BY <1>1 DEF Init, TypeOK, Busy

\* A delivery puts a release under its name.
LEMMA ArriveTypes ==
    ASSUME TypeOK, NEW r \in Release, Arrive(r)
    PROVE  /\ download' \in [Name -> Release \cup {None}] /\ latest' \in [Name -> Release \cup {None}]
           /\ delivered' \subseteq Release /\ writing \subseteq delivered'
           /\ r \in delivered' /\ overrun' \subseteq Release
BY NameAssumption DEF TypeOK, Arrive

LEMMA TypeStep ==
    ASSUME TypeOK, Busy, [Next]_vars
    PROVE  TypeOK' /\ Busy'
<1> USE DEF files, disk, scan, job, history
<1>1. ASSUME NEW r \in Release, deliver(r) PROVE TypeOK' /\ Busy'
    <2>1. Arrive(r) /\ UNCHANGED <<writing, disk, pc, scan, job, history>>
        BY <1>1 DEF deliver
    <2> QED
        BY <2>1, ArriveTypes DEF TypeOK, Busy
<1>2. ASSUME NEW r \in Release, deliver_begin(r) PROVE TypeOK' /\ Busy'
    <2>1. Arrive(r)
        BY <1>2 DEF deliver_begin
    <2>2. rel' \in {rel, Torn} /\ spoilt' \subseteq Release
        BY <1>2, ReleaseAssumption DEF deliver_begin, TypeOK, Busy
    <2>3. writing' \subseteq delivered'
        BY <1>2, <2>1, ArriveTypes DEF deliver_begin
    <2> QED
        BY <1>2, <2>1, <2>2, <2>3, ArriveTypes DEF deliver_begin, TypeOK, Busy
<1>3. ASSUME NEW r \in Release, deliver_end(r) PROVE TypeOK' /\ Busy'
    BY <1>3 DEF deliver_end, TypeOK, Busy
<1>4. ASSUME opendir PROVE TypeOK' /\ Busy'
    BY <1>4 DEF opendir, Present, TypeOK, Busy
<1>5. ASSUME scan_end PROVE TypeOK' /\ Busy'
    BY <1>5 DEF scan_end, TypeOK, Busy
<1>6. ASSUME NEW p \in Package, zip_open(p) PROVE TypeOK' /\ Busy'
    <2>1. p \in Name /\ download[p] \in Release /\ seen' \subseteq Name
        BY <1>6 DEF zip_open, Next_entry, Present, TypeOK, Name
    <2>2. left' \subseteq File /\ spoilt' \subseteq Release
        BY <1>6, <2>1 DEF zip_open, TypeOK, File
    <2> QED
        BY <1>6, <2>1, <2>2 DEF zip_open, Next_entry, TypeOK, Busy
<1>7. ASSUME NEW f \in File, zip_extract(f) PROVE TypeOK' /\ Busy'
    <2>1. pkg \in Package /\ rel \in Release
        BY <1>7 DEF zip_extract, Busy
    <2>2. tmp[pkg] \in Dir \cup {NoDir}
        BY <2>1 DEF TypeOK
    <2>3. With(tmp[pkg], f, rel) \in Dir
        BY <2>1, <2>2, WithIsDir
    <2>4. tmp' \in [Package -> Dir \cup {NoDir}]
        BY <1>7, <2>1, <2>3 DEF zip_extract, TypeOK
    <2> QED
        BY <1>7, <2>4 DEF zip_extract, TypeOK, Busy
<1>8. ASSUME NEW f \in File, zip_fails(f) PROVE TypeOK' /\ Busy'
    <2>1. pkg \in Package /\ CutShort(f)
        BY <1>8 DEF zip_fails, Busy
    <2>2. tmp' \in [Package -> Dir \cup {NoDir}]
        BY <2>1, CutShortIsDir
    <2>3. spoilt' \subseteq Release
        BY <1>8 DEF zip_fails, TypeOK, Busy
    <2> QED
        BY <1>8, <2>2, <2>3 DEF zip_fails, TypeOK, Busy
<1>9. ASSUME remove PROVE TypeOK' /\ Busy'
    BY <1>9 DEF remove, TypeOK, Busy
<1>10. ASSUME rename PROVE TypeOK' /\ Busy'
    <2>1. pkg \in Package /\ Stem[pkg] \in App /\ tmp[pkg] \in Dir \cup {NoDir}
        BY <1>10, NameAssumption DEF rename, Busy, TypeOK
    <2>2. tmp' \in [Package -> Dir \cup {NoDir}] /\ app' \in [App -> Dir \cup {NoDir}]
        BY <1>10, <2>1 DEF rename, TypeOK
    <2> QED
        BY <1>10, <2>2 DEF rename, TypeOK, Busy
<1>11. ASSUME lock_image PROVE TypeOK' /\ Busy'
    <2>1. download[SysImg] \in Release /\ SysImg \in Name
        BY <1>11 DEF lock_image, Next_entry, Present, TypeOK, Name
    <2> QED
        BY <1>11, <2>1 DEF lock_image, Next_entry, TypeOK, Busy
<1>12. ASSUME start_script PROVE TypeOK' /\ Busy'
    BY <1>12 DEF start_script, TypeOK, Busy
<1>13. ASSUME Crash PROVE TypeOK' /\ Busy'
    <2>1. tmp' \in [Package -> Dir \cup {NoDir}]
        <3>1. CASE UNCHANGED tmp
            BY <3>1 DEF TypeOK
        <3>2. CASE pc = "extract" /\ \E f \in left : CutShort(f)
            <4>1. PICK f \in left : CutShort(f)
                BY <3>2
            <4>2. f \in File /\ pkg \in Package
                BY <3>2, <4>1 DEF TypeOK, Busy
            <4> QED
                BY <4>1, <4>2, CutShortIsDir
        <3> QED
            BY <1>13, <3>1, <3>2 DEF Crash
    <2>2. dropped' \subseteq Release
        BY <1>13 DEF Crash, TypeOK, Busy
    <2>3. crashes' \in 0 .. MaxCrash
        BY <1>13, SwitchAssumption DEF Crash, TypeOK
    <2> QED
        BY <1>13, <2>1, <2>2, <2>3 DEF Crash, TypeOK, Busy
<1>14. ASSUME start PROVE TypeOK' /\ Busy'
    BY <1>14 DEF start, TypeOK, Busy
<1>15. ASSUME UNCHANGED vars PROVE TypeOK' /\ Busy'
    BY <1>15 DEF vars, TypeOK, Busy
<1> QED
    BY <1>1, <1>2, <1>3, <1>4, <1>5, <1>6, <1>7, <1>8, <1>9, <1>10, <1>11, <1>12, <1>13, <1>14, <1>15
    DEF Next

-----------------------------------------------------------------------------
(* The last release of every name. *)

LEMMA KnownStep ==
    ASSUME TypeOK, Busy, Known, [Next]_vars
    PROVE  Known'
<1> USE DEF files, disk, scan, job, history
<1>1. ASSUME NEW r \in Release, Arrive(r) PROVE Known'
    <2>1. NameOf[r] \in Name
        BY NameAssumption
    <2>2. \A n \in Name : download'[n] = (IF n = NameOf[r] THEN r ELSE download[n])
                        /\ latest'[n] = (IF n = NameOf[r] THEN r ELSE latest[n])
        BY <1>1, <2>1 DEF Arrive, TypeOK
    <2> QED
        BY <2>2 DEF Known
<1>2. ASSUME NEW m \in Name, download' = [download EXCEPT ![m] = None], latest' = latest PROVE Known'
    BY <1>2 DEF Known, TypeOK
<1>3. ASSUME UNCHANGED <<download, latest>> PROVE Known'
    BY <1>3 DEF Known
<1>4. CASE (\E r \in Release : deliver(r) \/ deliver_begin(r))
    BY <1>1, <1>4 DEF deliver, deliver_begin
<1>5. CASE remove \/ lock_image
    <2>1. pkg \in Name \/ lock_image
        BY <1>5 DEF remove, Busy, Name
    <2>2. SysImg \in Name
        BY DEF Name
    <2> QED
        BY <1>2, <1>5, <2>1, <2>2 DEF remove, lock_image
<1>6. CASE ~ (remove \/ lock_image \/ \E r \in Release : deliver(r) \/ deliver_begin(r))
    <2>1. UNCHANGED <<download, latest>>
        BY <1>6 DEF Next, vars, deliver_end, opendir, scan_end, zip_open, zip_extract, zip_fails, rename, start_script, Crash, start
    <2> QED
        BY <2>1, <1>3
<1> QED
    BY <1>4, <1>5, <1>6

LEMMA UnpackedStep ==
    ASSUME TypeOK, Busy, Known, Unpacked, [Next]_vars
    PROVE  Unpacked'
<1> USE DEF files, disk, scan, job, history
<1>1. ASSUME NEW r \in Release, Arrive(r), UNCHANGED <<tmp, pc, pkg, left>>, spoilt \subseteq spoilt',
             rel' = rel \/ (rel = download[NameOf[r]] /\ rel' = Torn)
      PROVE  Unpacked'
    <2> SUFFICES ASSUME pc = "extract" PROVE Unpacked'
        BY <1>1 DEF Unpacked
    <2>1. pkg \in Package /\ pkg \in Name /\ NameOf[r] \in Name
        BY NameAssumption DEF Busy, Name
    <2>2. CASE NameOf[r] = pkg
        BY <1>1, <2>1, <2>2 DEF Arrive, Unpacked, TypeOK
    <2>3. CASE NameOf[r] # pkg
        <3>1. download'[pkg] = download[pkg] /\ latest'[pkg] = latest[pkg] /\ overrun' = overrun
            BY <1>1, <2>1, <2>3 DEF Arrive, TypeOK
        <3>2. ASSUME latest[pkg] \notin overrun' \cup spoilt' PROVE rel' = rel
            <4>1. rel = latest[pkg] /\ latest[pkg] \in Release
                BY <1>1, <3>1, <3>2 DEF Unpacked
            <4>2. NameOf[rel] = pkg
                BY <4>1, <2>1, ReleaseAssumption DEF Known
            <4>3. rel # download[NameOf[r]]
                BY <4>1, <4>2, <2>1, <2>3, ReleaseAssumption DEF Known
            <4> QED
                BY <1>1, <4>3
        <3> QED
            BY <1>1, <3>1, <3>2 DEF Unpacked
    <2> QED
        BY <2>2, <2>3
<1>2. ASSUME UNCHANGED <<download, latest, overrun, spoilt, tmp, pc, pkg, rel, left>> PROVE Unpacked'
    BY <1>2 DEF Unpacked
<1>3. ASSUME pc' # "extract" PROVE Unpacked'
    BY <1>3 DEF Unpacked
<1>4. ASSUME NEW r \in Release, deliver(r) \/ deliver_begin(r) PROVE Unpacked'
    BY <1>1, <1>4 DEF deliver, deliver_begin
<1>5. ASSUME NEW p \in Package, zip_open(p) PROVE Unpacked'
    <2>1. p \in Name /\ download[p] \in Release
        BY <1>5 DEF zip_open, Next_entry, Present, TypeOK, Name
    <2>2. latest[p] = download[p]
        BY <2>1, ReleaseAssumption DEF Known
    <2>3. left' = Files[download[p]] \/ download[p] \in spoilt'
        BY <1>5 DEF zip_open
    <2> QED
        BY <1>5, <2>1, <2>2, <2>3 DEF zip_open, Unpacked
<1>6. ASSUME NEW f \in File, zip_extract(f) PROVE Unpacked'
    <2>1. pkg \in Package /\ rel \in Release /\ pc = "extract"
        BY <1>6 DEF zip_extract, Busy
    <2>2. tmp[pkg] \in Dir \cup {NoDir} /\ tmp'[pkg] = With(tmp[pkg], f, rel)
        BY <1>6, <2>1 DEF zip_extract, TypeOK
    <2>3. tmp'[pkg] # NoDir /\ f \in DOMAIN tmp'[pkg] /\ tmp'[pkg][f] = rel
        BY <2>1, <2>2, WithIsDir, DirAssumption
    <2>4. \A g \in Files[rel] \ left' :
             g = f \/ g \in Files[rel] \ left
        BY <1>6 DEF zip_extract
    <2>5. tmp[pkg] # NoDir => \A g \in DOMAIN tmp[pkg] \ {f} : g \in DOMAIN tmp'[pkg] /\ tmp'[pkg][g] = tmp[pkg][g]
        BY <2>1, <2>2, WithIsDir
    <2> QED
        BY <1>6, <2>1, <2>3, <2>4, <2>5 DEF zip_extract, Unpacked
<1>7. ASSUME NEW f \in File, zip_fails(f) PROVE Unpacked'
    <2>1. pc = "extract" /\ UNCHANGED <<download, latest, overrun, pc, pkg, rel>>
        BY <1>7 DEF zip_fails
    <2>2. latest[pkg] \in overrun \cup spoilt'
        BY <1>7, <2>1, ReleaseAssumption DEF zip_fails, Unpacked
    <2> QED
        BY <2>1, <2>2 DEF Unpacked
<1>8. CASE remove \/ rename \/ lock_image \/ start_script \/ Crash \/ start \/ opendir \/ scan_end
    <2>1. pc' # "extract"
        BY <1>8 DEF remove, rename, lock_image, start_script, Crash, start, opendir, scan_end
    <2> QED
        BY <2>1, <1>3
<1>9. CASE (\E r \in Release : deliver_end(r)) \/ UNCHANGED vars
    BY <1>2, <1>9 DEF deliver_end, vars
<1> QED
    BY <1>4, <1>5, <1>6, <1>7, <1>8, <1>9 DEF Next

-----------------------------------------------------------------------------
(* No package is lost. *)

\* What keeps a package, when a step leaves the others alone.
Kept(p) ==
    \/ latest[p] \in {None} \cup overrun \cup spoilt
    \/ download[p] = latest[p]
    \/ Holds(tmp[p], latest[p])
    \/ Holds(app[Stem[p]], latest[p])

LEMMA KeptStep ==
    ASSUME TypeOK, Busy, Known, Unpacked, LatestKept, [Next]_vars
    PROVE  LatestKept'
<1> USE DEF files, disk, scan, job, history
<1> SUFFICES ASSUME NEW p \in Package PROVE Kept(p)'
    BY DEF Kept, LatestKept
<1>1. Kept(p) /\ p \in Name /\ p # SysImg
    BY NameAssumption DEF Kept, LatestKept, Name
<1>2. ASSUME NEW r \in Release, Arrive(r), UNCHANGED <<tmp, app>>, spoilt \subseteq spoilt' PROVE Kept(p)'
    <2>1. NameOf[r] \in Name /\ overrun \subseteq overrun'
        BY <1>2, NameAssumption DEF Arrive
    <2>2. CASE NameOf[r] = p
        BY <1>2, <1>1, <2>2 DEF Arrive, Kept, TypeOK
    <2>3. CASE NameOf[r] # p
        <3>1. download'[p] = download[p] /\ latest'[p] = latest[p]
            BY <1>1, <1>2, <2>3 DEF Arrive, TypeOK
        <3> QED
            BY <1>1, <1>2, <2>1, <3>1 DEF Kept, Holds
    <2> QED
        BY <2>2, <2>3
<1>3. ASSUME UNCHANGED <<download, latest, overrun, tmp, app>>, spoilt \subseteq spoilt' PROVE Kept(p)'
    BY <1>1, <1>3 DEF Kept, Holds
\* Only the package being unpacked has its directory written, and it is not removed yet.
<1>4. ASSUME pc = "extract", pkg \in Package, UNCHANGED <<download, latest, overrun, app>>,
             spoilt \subseteq spoilt', \A q \in Package \ {pkg} : tmp'[q] = tmp[q]
      PROVE  Kept(p)'
    <2>1. CASE p = pkg
        BY <1>4, <2>1 DEF Unpacked, Kept
    <2>2. CASE p # pkg
        <3>1. tmp'[p] = tmp[p]
            BY <1>4, <2>2
        <3> QED
            BY <1>1, <1>4, <3>1 DEF Kept, Holds
    <2> QED
        BY <2>1, <2>2
<1>5. ASSUME NEW r \in Release, deliver(r) \/ deliver_begin(r) PROVE Kept(p)'
    BY <1>2, <1>5 DEF deliver, deliver_begin
<1>6. ASSUME NEW q \in Package, zip_open(q) PROVE Kept(p)'
    <2>1. spoilt \subseteq spoilt' /\ UNCHANGED <<download, latest, overrun, tmp, app>>
        BY <1>6 DEF zip_open
    <2> QED
        BY <2>1, <1>3
<1>7. ASSUME NEW f \in File, zip_extract(f) PROVE Kept(p)'
    <2>1. pc = "extract" /\ pkg \in Package /\ \A q \in Package \ {pkg} : tmp'[q] = tmp[q]
        BY <1>7 DEF zip_extract, Busy, TypeOK
    <2> QED
        BY <2>1, <1>4, <1>7 DEF zip_extract
<1>8. ASSUME NEW f \in File, zip_fails(f) PROVE Kept(p)'
    <2>1. pc = "extract" /\ pkg \in Package /\ CutShort(f)
        BY <1>8 DEF zip_fails, Busy
    <2>2. \A q \in Package \ {pkg} : tmp'[q] = tmp[q]
        BY <2>1, CutShortIsDir
    <2>3. spoilt \subseteq spoilt' /\ UNCHANGED <<download, latest, overrun, app>>
        BY <1>8 DEF zip_fails
    <2> QED
        BY <2>1, <2>2, <2>3, <1>4
<1>9. CASE remove
    <2>1. pc = "extract" /\ left = {} /\ pkg \in Package /\ pkg \in Name
        BY <1>9 DEF remove, Busy, Name
    <2>2. UNCHANGED <<latest, overrun, spoilt, tmp, app>> /\ download' = [download EXCEPT ![pkg] = None]
        BY <1>9 DEF remove
    <2>3. CASE p = pkg
        <3>1. ASSUME latest[p] \notin overrun \cup spoilt PROVE Holds(tmp[p], latest[p])
            <4>1. rel = latest[p] /\ rel \in Release
                BY <2>1, <2>3, <3>1 DEF Unpacked
            <4>2. \A f \in Files[rel] : tmp[p] # NoDir /\ f \in DOMAIN tmp[p] /\ tmp[p][f] = rel
                BY <2>1, <2>3, <3>1 DEF Unpacked
            <4>3. Files[rel] # {}
                BY <4>1, ReleaseAssumption
            <4> QED
                BY <4>1, <4>2, <4>3 DEF Holds
        <3> QED
            BY <2>2, <3>1 DEF Kept, Holds
    <2>4. CASE p # pkg
        <3>1. download'[p] = download[p]
            BY <1>1, <2>1, <2>2, <2>4 DEF TypeOK
        <3> QED
            BY <1>1, <2>2, <3>1 DEF Kept, Holds
    <2> QED
        BY <2>3, <2>4
<1>10. CASE rename
    <2>1. pkg \in Package /\ Stem[pkg] \in App /\ Stem[p] \in App
        BY <1>10, NameAssumption DEF rename, Busy
    <2>2. UNCHANGED <<download, latest, overrun, spoilt>>
        BY <1>10 DEF rename
    <2>3. CASE tmp[pkg] # NoDir /\ app[Stem[pkg]] \in {NoDir, EmptyDir}
        <3>1. /\ app' = [app EXCEPT ![Stem[pkg]] = tmp[pkg]]
              /\ tmp' = [tmp EXCEPT ![pkg] = NoDir]
            BY <1>10, <2>3 DEF rename
        <3>2. app'[Stem[pkg]] = tmp[pkg] /\ (Stem[p] # Stem[pkg] => app'[Stem[p]] = app[Stem[p]])
            BY <2>1, <3>1 DEF TypeOK
        <3>3. p # pkg => tmp'[p] = tmp[p]
            BY <2>1, <3>1 DEF TypeOK
        \* Nothing was held by a directory that was not there or empty.
        <3>4. ASSUME NEW r \in Release PROVE ~ Holds(app[Stem[pkg]], r)
            <4>1. DOMAIN EmptyDir = {}
                BY DEF EmptyDir
            <4>2. Files[r] # {}
                BY ReleaseAssumption
            <4> QED
                BY <2>3, <4>1, <4>2 DEF Holds
        <3>5. latest[p] \in Release \cup {None}
            BY <1>1 DEF TypeOK
        <3>6. ASSUME Holds(tmp[p], latest[p]) PROVE Holds(tmp'[p], latest[p]) \/ Holds(app'[Stem[p]], latest[p])
            BY <3>2, <3>3, <3>6
        <3>7. ASSUME Holds(app[Stem[p]], latest[p]), latest[p] # None PROVE Holds(app'[Stem[p]], latest[p])
            BY <3>2, <3>4, <3>5, <3>7
        <3> QED
            BY <1>1, <2>2, <3>6, <3>7 DEF Kept
    <2>4. CASE ~ (tmp[pkg] # NoDir /\ app[Stem[pkg]] \in {NoDir, EmptyDir})
        <3>1. UNCHANGED <<tmp, app>>
            BY <1>10, <2>4 DEF rename
        <3> QED
            BY <1>3, <2>2, <3>1
    <2> QED
        BY <2>3, <2>4
<1>11. CASE lock_image
    <2>1. download'[p] = download[p] /\ UNCHANGED <<latest, overrun, spoilt, tmp, app>>
        BY <1>1, <1>11 DEF lock_image, TypeOK
    <2> QED
        BY <1>1, <2>1 DEF Kept, Holds
<1>12. CASE Crash
    <2>1. UNCHANGED <<download, latest, overrun, spoilt, app>>
        BY <1>12 DEF Crash
    <2>2. CASE UNCHANGED tmp
        BY <2>1, <2>2, <1>3
    <2>3. CASE pc = "extract" /\ \E f \in left : CutShort(f)
        <3>1. PICK f \in left : CutShort(f)
            BY <2>3
        <3>2. f \in File /\ pkg \in Package
            BY <2>3, <3>1 DEF TypeOK, Busy
        <3>3. \A q \in Package \ {pkg} : tmp'[q] = tmp[q]
            BY <3>1, <3>2, CutShortIsDir
        <3> QED
            BY <2>1, <2>3, <3>2, <3>3, <1>4
    <2> QED
        BY <1>12, <2>2, <2>3 DEF Crash
<1>13. CASE opendir \/ scan_end \/ start_script \/ start \/ (\E r \in Release : deliver_end(r)) \/ UNCHANGED vars
    <2>1. UNCHANGED <<download, latest, overrun, spoilt, tmp, app>>
        BY <1>13 DEF opendir, scan_end, start_script, start, deliver_end, vars
    <2> QED
        BY <2>1, <1>3
<1> QED
    BY <1>5, <1>6, <1>7, <1>8, <1>9, <1>10, <1>11, <1>12, <1>13 DEF Next

-----------------------------------------------------------------------------
(* No app is put together from two releases before the first crash. *)

LEMMA SortedStep ==
    ASSUME TypeOK, Busy, Known, Unpacked, Sorted, [Next]_vars
    PROVE  Sorted'
<1> USE DEF files, disk, scan, job, history
<1> SUFFICES ASSUME crashes' = 0, NEW p \in Package
             PROVE  \/ tmp'[p] = NoDir
                    \/ app'[Stem[p]] \notin {NoDir, EmptyDir}
                    \/ /\ pc' \in {"extract", "rename"} /\ p = pkg'
                       /\ \E r \in Release : Pure(tmp[p], r)' /\ rel' \in {r, Torn}
    BY DEF Sorted
<1> DEFINE Goal ==
        \/ tmp'[p] = NoDir
        \/ app'[Stem[p]] \notin {NoDir, EmptyDir}
        \/ /\ pc' \in {"extract", "rename"} /\ p = pkg'
           /\ \E r \in Release : Pure(tmp[p], r)' /\ rel' \in {r, Torn}
<1> SUFFICES Goal
    OBVIOUS
<1>1. crashes = 0
    BY DEF Next, vars, deliver, deliver_begin, deliver_end, opendir, scan_end, zip_open, zip_extract, zip_fails,
           remove, rename, lock_image, start_script, Crash, start, TypeOK
<1>2. \/ tmp[p] = NoDir
      \/ app[Stem[p]] \notin {NoDir, EmptyDir}
      \/ /\ pc \in {"extract", "rename"} /\ p = pkg
         /\ \E r \in Release : Pure(tmp[p], r) /\ rel \in {r, Torn}
    BY <1>1 DEF Sorted
<1>3. ASSUME UNCHANGED <<tmp, app, pkg>>, rel' \in {rel, Torn},
             pc \in {"extract", "rename"} => pc' \in {"extract", "rename"}
      PROVE  Goal
    BY <1>2, <1>3 DEF Pure
\* A step of another place of the loop finds the job done.
<1>4. ASSUME UNCHANGED <<tmp, app>>, pc \notin {"extract", "rename"} PROVE Goal
    BY <1>2, <1>4
\* Only the directory of the package at hand is written to.
<1>5. ASSUME pc = "extract", pkg \in Package, UNCHANGED <<app, pc, pkg, rel>>,
             \A q \in Package \ {pkg} : tmp'[q] = tmp[q],
             \A r \in Release : rel \in {r, Torn} /\ (tmp[pkg] = NoDir \/ Pure(tmp[pkg], r))
                                    => tmp'[pkg] = NoDir \/ Pure(tmp[pkg], r)'
      PROVE  Goal
    <2>1. CASE p = pkg
        <3>1. CASE app[Stem[p]] \notin {NoDir, EmptyDir}
            BY <1>5, <3>1
        <3>2. CASE tmp[p] = NoDir
            <4>1. PICK r \in Release : rel \in {r, Torn}
                <5>1. rel \in Release \/ (rel = Torn /\ download[pkg] \in Release)
                    BY <1>5 DEF Busy, Unpacked
                <5> QED
                    BY <5>1
            <4> QED
                BY <1>5, <2>1, <3>2, <4>1
        <3>3. CASE \E r \in Release : Pure(tmp[p], r) /\ rel \in {r, Torn}
            BY <1>5, <2>1, <3>3
        <3> QED
            BY <1>2, <3>1, <3>2, <3>3
    <2>2. CASE p # pkg
        BY <1>2, <1>5, <2>2
    <2> QED
        BY <2>1, <2>2
<1> HIDE DEF Goal
<1>6. CASE \E r \in Release : deliver(r) \/ deliver_begin(r) \/ deliver_end(r)
    <2>1. UNCHANGED <<tmp, app, pkg, pc>> /\ rel' \in {rel, Torn}
        BY <1>6 DEF deliver, deliver_begin, deliver_end
    <2> QED
        BY <2>1, <1>3
<1>7. CASE opendir \/ scan_end \/ lock_image \/ start_script \/ start \/ \E q \in Package : zip_open(q)
    <2>1. UNCHANGED <<tmp, app>> /\ pc \notin {"extract", "rename"}
        BY <1>7 DEF opendir, scan_end, lock_image, start_script, start, zip_open, Next_entry
    <2> QED
        BY <2>1, <1>4
<1>8. ASSUME NEW f \in File, zip_extract(f) PROVE Goal
    <2>1. pc = "extract" /\ pkg \in Package /\ rel \in Release /\ rel # Torn
        BY <1>8 DEF zip_extract, Busy
    <2>2. tmp[pkg] \in Dir \cup {NoDir} /\ tmp'[pkg] = With(tmp[pkg], f, rel)
          /\ \A q \in Package \ {pkg} : tmp'[q] = tmp[q]
        BY <1>8, <2>1 DEF zip_extract, TypeOK
    <2>3. ASSUME NEW r \in Release, rel \in {r, Torn}, tmp[pkg] = NoDir \/ Pure(tmp[pkg], r)
          PROVE  Pure(tmp'[pkg], r)
        BY <2>1, <2>2, <2>3, WithIsDir DEF Pure
    <2>4. UNCHANGED <<app, pc, pkg, rel>>
        BY <1>8 DEF zip_extract
    <2> QED
        BY <2>1, <2>2, <2>3, <2>4, <1>5 DEF Pure
<1>9. ASSUME NEW f \in File, zip_fails(f) PROVE Goal
    <2>1. pc = "extract" /\ pkg \in Package /\ CutShort(f)
        BY <1>9 DEF zip_fails, Busy
    <2>2. /\ \A q \in Package \ {pkg} : tmp'[q] = tmp[q]
          /\ \A r \in Release : tmp[pkg] = NoDir \/ Pure(tmp[pkg], r) => Pure(tmp'[pkg], r) \/ tmp'[pkg] = NoDir
        BY <2>1, CutShortIsDir
    <2>3. UNCHANGED <<app, pc, pkg, rel>>
        BY <1>9 DEF zip_fails
    <2> QED
        BY <2>1, <2>2, <2>3, <1>5 DEF Pure
<1>10. CASE remove \/ UNCHANGED vars
    <2>1. UNCHANGED <<tmp, app, pkg, rel>> /\ (pc \in {"extract", "rename"} => pc' \in {"extract", "rename"})
        BY <1>10 DEF remove, vars
    <2> QED
        BY <2>1, <1>3
<1>11. CASE rename
    <2>1. pkg \in Package /\ Stem[pkg] \in App /\ Stem[p] \in App
        BY <1>11, NameAssumption DEF rename, Busy
    <2>2. CASE tmp[pkg] # NoDir /\ app[Stem[pkg]] \in {NoDir, EmptyDir}
        <3>1. app' = [app EXCEPT ![Stem[pkg]] = tmp[pkg]] /\ tmp' = [tmp EXCEPT ![pkg] = NoDir]
            BY <1>11, <2>2 DEF rename
        <3>2. CASE p = pkg
            BY <3>1, <3>2 DEF Goal, TypeOK
        <3>3. CASE p # pkg
            <4>1. tmp'[p] = tmp[p]
                BY <2>1, <3>1, <3>3 DEF TypeOK
            <4>2. Stem[p] # Stem[pkg] => app'[Stem[p]] = app[Stem[p]]
                BY <2>1, <3>1 DEF TypeOK
            <4>3. tmp[p] = NoDir \/ app[Stem[p]] \notin {NoDir, EmptyDir}
                BY <1>2, <3>3
            <4> QED
                BY <2>2, <4>1, <4>2, <4>3 DEF Goal
        <3> QED
            BY <3>2, <3>3
    <2>3. CASE ~ (tmp[pkg] # NoDir /\ app[Stem[pkg]] \in {NoDir, EmptyDir})
        <3>1. UNCHANGED <<tmp, app>>
            BY <1>11, <2>3 DEF rename
        <3> QED
            BY <1>2, <2>3, <3>1 DEF Goal
    <2> QED
        BY <2>2, <2>3
<1>12. CASE Crash
    <2>1. crashes' # 0
        BY <1>12, SwitchAssumption DEF Crash, TypeOK
    <2> QED
        BY <2>1
<1> QED
    BY <1>6, <1>7, <1>8, <1>9, <1>10, <1>11, <1>12 DEF Next

LEMMA MixedStep ==
    ASSUME TypeOK, Busy, Sorted, MixedOnlyAfterCrash, [Next]_vars
    PROVE  MixedOnlyAfterCrash'
<1> USE DEF files, disk, scan, job, history
<1>1. crashes' = 0 => crashes = 0
    BY SwitchAssumption
    DEF Next, vars, deliver, deliver_begin, deliver_end, opendir, scan_end, zip_open, zip_extract, zip_fails,
        remove, rename, lock_image, start_script, Crash, start, TypeOK
<1>2. crashes' \in Nat
    BY TypeStep, SwitchAssumption DEF TypeOK
<1>3. CASE UNCHANGED app
    BY <1>1, <1>2, <1>3 DEF MixedOnlyAfterCrash, TypeOK
<1>4. CASE rename /\ app' # app
    <2>1. pkg \in Package /\ Stem[pkg] \in App /\ tmp[pkg] # NoDir /\ app[Stem[pkg]] \in {NoDir, EmptyDir}
          /\ app' = [app EXCEPT ![Stem[pkg]] = tmp[pkg]] /\ crashes' = crashes
        BY <1>4, NameAssumption DEF rename, Busy
    <2>2. ASSUME crashes = 0 PROVE \E r \in Release : Pure(tmp[pkg], r)
        BY <2>1, <2>2 DEF Sorted
    <2>3. ASSUME NEW a \in App, app'[a] # NoDir, ~ crashes' > 0
          PROVE  \A f, g \in DOMAIN app'[a] : app'[a][f] = app'[a][g] \/ Torn \in {app'[a][f], app'[a][g]}
        <3>1. CASE a = Stem[pkg]
            <4>1. app'[a] = tmp[pkg] /\ crashes = 0
                BY <1>2, <2>1, <2>3, <3>1 DEF TypeOK
            <4> QED
                BY <2>2, <4>1 DEF Pure
        <3>2. CASE a # Stem[pkg]
            <4>1. app'[a] = app[a]
                BY <2>1, <3>2 DEF TypeOK
            <4> QED
                BY <2>1, <2>3, <4>1 DEF MixedOnlyAfterCrash
        <3> QED
            BY <3>1, <3>2
    <2> QED
        BY <2>3 DEF MixedOnlyAfterCrash
<1>5. rename \/ UNCHANGED app
    BY DEF Next, vars, deliver, deliver_begin, deliver_end, opendir, scan_end, zip_open, zip_extract, zip_fails,
           remove, lock_image, start_script, Crash, start
<1> QED
    BY <1>3, <1>4, <1>5

-----------------------------------------------------------------------------
(* What is installed is whole. *)

LEMMA WholeStep ==
    ASSUME TypeOK, Busy, Unpacked, Whole, InstalledWhole, [Next]_vars
    PROVE  Whole' /\ InstalledWhole'
<1> USE DEF files, disk, scan, job, history
<1> DEFINE Goal == Whole' /\ InstalledWhole'
<1>0. spoilt \subseteq spoilt'
    BY DEF Next, vars, deliver, deliver_begin, deliver_end, opendir, scan_end, zip_open, zip_extract, zip_fails,
           remove, rename, lock_image, start_script, Crash, start
<1>1. ASSUME spoilt' # {} PROVE Goal
    BY <1>1 DEF Whole, InstalledWhole
<1>2. ASSUME UNCHANGED <<app, spoilt>>, Whole' PROVE Goal
    BY <1>2 DEF InstalledWhole, Holds
<1>3. ASSUME UNCHANGED <<app, spoilt, tmp, pkg, rel, left, pc>> PROVE Goal
    <2>1. Whole'
        BY <1>3 DEF Whole, Holds
    <2> QED
        BY <1>2, <1>3, <2>1
<1>4. ASSUME UNCHANGED <<app, spoilt>>, pc' \notin {"extract", "rename"} PROVE Goal
    BY <1>2, <1>4 DEF Whole
<1>5. CASE \E r \in Release : deliver(r) \/ deliver_begin(r) \/ deliver_end(r)
    <2>1. CASE \E r \in Release : deliver(r) \/ deliver_end(r)
        BY <1>3, <2>1 DEF deliver, deliver_end
    <2>2. ASSUME NEW r \in Release, deliver_begin(r) PROVE Goal
        <3>1. CASE rel' = rel
            BY <1>3, <2>2, <3>1 DEF deliver_begin
        <3>2. CASE rel' # rel
            BY <1>1, <2>2, <3>2 DEF deliver_begin
        <3> QED
            BY <3>1, <3>2
    <2> QED
        BY <1>5, <2>1, <2>2
<1>6. CASE opendir \/ scan_end \/ lock_image \/ start_script \/ Crash \/ start
    BY <1>4, <1>6 DEF opendir, scan_end, lock_image, start_script, Crash, start
<1>7. ASSUME NEW p \in Package, zip_open(p) PROVE Goal
    <2>1. CASE left' = Files[download[p]] /\ UNCHANGED spoilt
        <3>1. download[p] \in Release
            BY <1>7 DEF zip_open, Next_entry, Present, Name, TypeOK
        <3>2. pc' = "extract" /\ rel' = download[p] /\ UNCHANGED app
            BY <1>7 DEF zip_open
        <3>3. Whole'
            BY <2>1, <3>1, <3>2 DEF Whole
        <3> QED
            BY <1>2, <2>1, <3>2, <3>3
    <2>2. CASE spoilt' = spoilt \cup {download[p]}
        BY <1>1, <2>2
    <2> QED
        BY <1>7, <2>1, <2>2 DEF zip_open
<1>8. ASSUME NEW f \in File, zip_extract(f) PROVE Goal
    <2>1. /\ pc = "extract" /\ pc' = pc /\ rel' = rel /\ pkg' = pkg /\ spoilt' = spoilt /\ app' = app
          /\ left' = left \ {f} /\ tmp' = [tmp EXCEPT ![pkg] = With(tmp[pkg], f, rel)]
          /\ rel # Torn
        BY <1>8 DEF zip_extract
    <2>2. pkg \in Package /\ rel \in Release /\ tmp[pkg] \in Dir \cup {NoDir}
        BY <2>1 DEF Busy, TypeOK
    <2> DEFINE d == With(tmp[pkg], f, rel)
    <2>3. /\ d \in Dir /\ f \in DOMAIN d /\ d[f] = rel
          /\ tmp[pkg] # NoDir => \A g \in DOMAIN tmp[pkg] \ {f} : g \in DOMAIN d /\ d[g] = tmp[pkg][g]
        <3>1. rel \in Release \cup {Torn} /\ tmp[pkg] \in Dir \cup {NoDir}
            BY <2>2
        <3>2. d \in Dir
            BY <3>1, WithIsDir
        <3>3. f \in DOMAIN d /\ d[f] = rel
            BY <3>1, WithIsDir
        <3>4. tmp[pkg] # NoDir => \A g \in DOMAIN tmp[pkg] \ {f} : g \in DOMAIN d /\ d[g] = tmp[pkg][g]
            BY <3>1, WithIsDir
        <3> QED
            BY <3>2, <3>3, <3>4
    <2> HIDE DEF d
    <2>4. tmp'[pkg] = d
        BY <2>1, <2>2 DEF TypeOK, d
    <2>5. d # NoDir
        BY <2>3, DirAssumption
    <2>6. spoilt = {} => \A g \in Files[rel] \ left' : g \in DOMAIN d /\ d[g] = rel
        BY <2>1, <2>3 DEF Whole
    <2>7. Whole'
        BY <2>1, <2>2, <2>4, <2>5, <2>6 DEF Whole
    <2> QED
        BY <1>2, <2>1, <2>7
<1>9. ASSUME NEW f \in File, zip_fails(f) PROVE Goal
    <2>1. CASE rel = Torn
        <3>1. spoilt # {}
            BY <1>9, <2>1, ReleaseAssumption DEF zip_fails, Whole
        <3> QED
            BY <1>0, <1>1, <3>1
    <2>2. CASE rel # Torn
        BY <1>1, <1>9, <2>2 DEF zip_fails
    <2> QED
        BY <2>1, <2>2
<1>10. CASE remove
    <2>1. /\ pc = "extract" /\ left = {} /\ pc' = "rename" /\ UNCHANGED <<app, spoilt, tmp, pkg, rel>>
        BY <1>10 DEF remove
    <2>2. ASSUME spoilt = {} PROVE rel \in Release /\ Holds(tmp[pkg], rel)
        <3>1. rel \in Release /\ \A f \in Files[rel] : tmp[pkg] # NoDir /\ f \in DOMAIN tmp[pkg] /\ tmp[pkg][f] = rel
            BY <2>1, <2>2 DEF Whole
        <3>2. Files[rel] # {}
            BY <3>1, ReleaseAssumption
        <3> QED
            BY <3>1, <3>2 DEF Holds
    <2>3. Whole'
        BY <2>1, <2>2 DEF Whole, Holds
    <2> QED
        BY <1>2, <2>1, <2>3
<1>11. CASE rename
    <2>1. pc = "rename" /\ pc' = "scan" /\ spoilt' = spoilt
        BY <1>11 DEF rename
    <2>2. CASE app' = app
        BY <1>4, <2>1, <2>2
    <2>3. CASE app' # app
        <3>1. app' = [app EXCEPT ![Stem[pkg]] = tmp[pkg]]
            BY <1>11, <2>3 DEF rename
        <3>2. \A a \in App : app'[a] \in {app[a], tmp[pkg]}
            BY <3>1 DEF TypeOK
        <3>3. spoilt = {} => \E r \in Release : Holds(tmp[pkg], r)
            BY <2>1 DEF Whole
        <3>4. InstalledWhole'
            BY <2>1, <3>2, <3>3 DEF InstalledWhole, Holds
        <3>5. Whole'
            BY <2>1 DEF Whole
        <3> QED
            BY <3>4, <3>5
    <2> QED
        BY <2>2, <2>3
<1>12. CASE UNCHANGED vars
    BY <1>3, <1>12 DEF vars
<1> QED
    BY <1>5, <1>6, <1>7, <1>8, <1>9, <1>10, <1>11, <1>12 DEF Next

\* An image is moved away by one step, and the next is the script's or a crash.
LEMMA ImageStep ==
    ASSUME Busy, ImageStarted, [Next]_vars
    PROVE  ImageStarted'
<1> USE DEF files, disk, scan, job, history
<1>1. CASE lock_image
    BY <1>1 DEF lock_image, ImageStarted
<1>2. CASE start_script
    BY <1>2 DEF start_script, ImageStarted
<1>3. CASE Crash
    BY <1>3 DEF Crash, ImageStarted
<1>4. ASSUME UNCHANGED <<lock, started, dropped>>, pc = "system" => pc' = "system"
      PROVE  ImageStarted'
    BY <1>4 DEF ImageStarted
<1> QED
    BY <1>1, <1>2, <1>3, <1>4
    DEF Next, vars, deliver, deliver_begin, deliver_end, opendir, scan_end, zip_open, zip_extract, zip_fails,
        remove, rename, start, Next_entry

-----------------------------------------------------------------------------
(* The specification. *)

IInv ==
    /\ TypeOK /\ Busy /\ Known /\ Unpacked /\ LatestKept /\ Sorted /\ MixedOnlyAfterCrash
    /\ Whole /\ InstalledWhole /\ ImageStarted

LEMMA Inductive == Spec => []IInv
<1>1. Init => IInv
    <2> SUFFICES ASSUME Init PROVE IInv
        OBVIOUS
    <2>1. TypeOK /\ Busy
        BY TypeInit
    <2>2. Known /\ Unpacked
        BY DEF Init, Known, Unpacked
    <2>3. LatestKept
        BY DEF Init, LatestKept, Name
    <2>4. Sorted /\ MixedOnlyAfterCrash
        BY DEF Init, Sorted, MixedOnlyAfterCrash
    <2>5. Whole /\ InstalledWhole /\ ImageStarted
        BY DEF Init, Whole, InstalledWhole, ImageStarted
    <2> QED
        BY <2>1, <2>2, <2>3, <2>4, <2>5 DEF IInv
<1>2. IInv /\ [Next]_vars => IInv'
    BY TypeStep, KnownStep, UnpackedStep, KeptStep, SortedStep, MixedStep, WholeStep, ImageStep DEF IInv
<1> QED
    BY <1>1, <1>2, PTL DEF Spec

\* Types, for every set of packages, releases, files and apps.
THEOREM TypeCorrect == Spec => []TypeOK
<1>1. IInv => TypeOK
    BY DEF IInv
<1> QED
    BY <1>1, Inductive, PTL

\* Whatever is delivered when, and wherever the installer crashes or fails to unpack,
\* the last release of a package is lost only by the removal by name or because it
\* could not be unpacked (installer.c:210-219).
THEOREM NothingLost == Spec => []LatestKept
<1>1. IInv => LatestKept
    BY DEF IInv
<1> QED
    BY <1>1, Inductive, PTL

\* Before the first crash no app is put together from two releases, although tmp is
\* never cleared (installer.c:207-219).
THEOREM NothingMixed == Spec => []MixedOnlyAfterCrash
<1>1. IInv => MixedOnlyAfterCrash
    BY DEF IInv
<1> QED
    BY <1>1, Inductive, PTL

\* Whichever way packages are delivered and wherever the installer crashes, an
\* installed app has every file of one release while nothing fails to unpack
\* (installer.c:210-219).
THEOREM NothingHalfInstalled == Spec => []InstalledWhole
<1>1. IInv => InstalledWhole
    BY DEF IInv
<1> QED
    BY <1>1, Inductive, PTL

\* An image that was moved away is upgraded to, or about to be, unless a crash came
\* between the two steps (installer.c:150-164).
THEOREM NoImageForgotten == Spec => []ImageStarted
<1>1. IInv => ImageStarted
    BY DEF IInv
<1> QED
    BY <1>1, Inductive, PTL
=============================================================================
