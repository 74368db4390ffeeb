---------------------------- MODULE StartupProofs ----------------------------
(***************************************************************************)
(* Proofs about Startup, for any number of namespaces, files, types,       *)
(* descriptors and changes.                                                *)
(***************************************************************************)
EXTENDS Startup, ListLemmas, FiniteSetTheorems

-----------------------------------------------------------------------------
(***************************************************************************)
(* The inductive invariant.                                                *)
(***************************************************************************)
Scanning == {"initFiles", "open", "getFileEtag"}

Mapping == {"mapStaticFSData"} \cup Scanning

Location == Mapping \cup Over \cup
  {"disableSignals", "setTerminationHandler", "setupSocket", "dropPrivileges",
   "ServerLoop"}

\* How far init has come: the namespaces done, the descriptors held, the signals
\* set up.  While files are listed and opened a descriptor is free.
ProgressInv ==
  /\ pc \in Location
  /\ pc = "mapStaticFSData" => mapped = Host \ todo
  /\ pc \in Scanning => Hostname \in Host /\ mapped \cup {Hostname} = Host \ todo
  /\ pc \notin Mapping \cup Over => mapped = Host
  /\ pc \notin Over \cup {"getFileEtag"} => fd = 0
  /\ pc \in Mapping \cup {"disableSignals", "setTerminationHandler", "setupSocket"}
       => ServerSocketFD = 0
  /\ pc \in {"dropPrivileges", "ServerLoop"} => ServerSocketFD # 0
  /\ pc \in {"setTerminationHandler", "setupSocket", "dropPrivileges", "ServerLoop"}
       => ignored
  /\ pc \in {"setupSocket", "dropPrivileges", "ServerLoop"} => handler
  /\ pc = "ServerLoop" => ~privileged
  /\ pc \in {"mapStaticFSData", "initFiles", "open"} => Free # {}

\* Contents only get newer, and a file nobody touches keeps its content: so the
\* descriptor of the file being processed is not newer than the file.
VersionInv ==
  /\ \A f \in File : disk[f] <= changes + 1
  /\ pc = "getFileEtag" =>
       /\ _Files # <<>>
       /\ fd \in FD /\ fds[fd] # None
       /\ fds[fd].file = Head(_Files)
       /\ fds[fd].version <= changes + 1
       /\ disk[Head(_Files)] # Absent => fds[fd].version <= disk[Head(_Files)]
       /\ Head(_Files) \notin touched => fds[fd].version = disk[Head(_Files)]

\* A file is listed once, and only while its namespace has no entry for it.
ListingInv ==
  /\ mimes \in Seq(Range(Mimetypes))
  /\ IsInjective(mimes)
  /\ IsInjective(_Files)
  /\ \A h \in todo : Entries(h) = {}
  /\ pc = "initFiles" => /\ Entries(Hostname) = {}
                         /\ \A f \in Range(_Files) : Extension[f] \notin Range(mimes)
  /\ pc \in Scanning => Range(_Files) \cap Entries(Hostname) = {}

\* The files of a namespace that nobody has touched.
Stable(h) ==
  {f \in File \ touched : /\ disk[f] # Absent
                          /\ Dir[f] = Path[h]
                          /\ Extension[f] \in Range(Mimetypes)}

\* None of them is passed over.
CompleteInv ==
  /\ \A h \in mapped : Stable(h) \subseteq Entries(h)
  /\ pc = "initFiles" =>
       \A f \in Stable(Hostname) : Extension[f] \in Range(mimes) \/ f \in Range(_Files)
  /\ pc \in {"open", "getFileEtag"} =>
       Stable(Hostname) \subseteq Range(_Files) \cup Entries(Hostname)

\* The entry of a file nobody has touched is that of its content.
ContentInv ==
  \A h \in Host : \A f \in Entries(h) \ touched :
    LET e == _FilesExtended[h][f]
    IN  /\ fds[e.Filedescriptor] = [file |-> f, version |-> disk[f]]
        /\ e.FileSize = disk[f]
        /\ e.ETag = disk[f]

\* DescriptorsOwned, said of one namespace and file at a time.
OwnedInv ==
  /\ fd # 0 => fds[fd] # None
  /\ ServerSocketFD # 0 => fds[ServerSocketFD] # None
  /\ \A h \in Host : \A f \in Entries(h) :
       LET n == _FilesExtended[h][f].Filedescriptor
       IN  fds[n] # None /\ fds[n].file = f /\ n # fd /\ n # ServerSocketFD
  /\ \A h, i \in Host : \A f \in Entries(h), g \in Entries(i) :
       _FilesExtended[h][f].Filedescriptor = _FilesExtended[i][g].Filedescriptor
         => h = i /\ f = g
  /\ \A n \in FD \ {fd, ServerSocketFD} : fds[n] # None =>
       \E h \in Host : \E f \in Entries(h) : _FilesExtended[h][f].Filedescriptor = n

Inv ==
  /\ TypeOK
  /\ ProgressInv
  /\ VersionInv
  /\ ListingInv
  /\ CompleteInv
  /\ ContentInv
  /\ OwnedInv
  /\ EtagNotOlder

-----------------------------------------------------------------------------
\* open(), socket() and an ifstream get a descriptor that is free.
LEMMA LowestFreeIsFree ==
  ASSUME Inv, Free # {}
  PROVE  LowestFree \in FD /\ fds[LowestFree] = None
<1>1. Free \subseteq Nat
  BY StartupAssumption DEF Free, FD
<1>2. \E n \in Free : \A m \in Free : n <= m
  BY <1>1, LowestExists
<1>3. LowestFree \in Free
  BY <1>2 DEF LowestFree
<1> QED  BY <1>3 DEF Free

\* A listing has every file of the directory and type, and has it once.
LEMMA ListingMembers ==
  ASSUME NEW d, NEW type, NEW t \in GetDirListingByFiletype(d, type)
  PROVE  /\ t \in Seq(File)
         /\ IsInjective(t)
         /\ Range(t) = {f \in File : disk[f] # Absent /\ Dir[f] = d
                                    /\ Extension[f] = type}
<1> DEFINE found == {f \in File : disk[f] # Absent /\ Dir[f] = d
                                  /\ Extension[f] = type}
           n == Cardinality(found)
<1>1. IsFiniteSet(found) /\ found \subseteq File
  BY FS_Subset, StartupAssumption
<1>2. n \in Nat
  BY <1>1, FS_CardinalityType
<1>3. /\ t \in [1 .. n -> found]
      /\ IsInjective(t)
      /\ \A f \in found : \E i \in 1 .. n : t[i] = f
  BY DEF GetDirListingByFiletype, Bijection, Injection, Surjection
<1> HIDE DEF found, n
<1>4. t \in Seq(File)
  BY <1>1, <1>2, <1>3
<1>5. Range(t) = found
  BY <1>3 DEF Range
<1> QED  BY <1>3, <1>4, <1>5 DEF found

\* A process that enters Server::init has opened and listed nothing.
LEMMA InvInit == Init => Inv
<1> SUFFICES ASSUME Init  PROVE Inv
  OBVIOUS
<1> USE DEF Init
<1>0. \A h \in Host : Entries(h) = {}
  BY DEF Entries
<1>1. TypeOK
  <2>1. disk \in [File -> Nat]
    BY DEF Absent
  <2>2. /\ changes \in 0 .. MaxChanges
        /\ fd \in FD \cup {0} /\ ServerSocketFD \in FD \cup {0}
        /\ todo \subseteq Host /\ mapped \subseteq Host /\ touched \subseteq File
    BY StartupAssumption
  <2>3. _Files \in Seq(File)
    OBVIOUS
  <2>4. /\ fds \in [FD -> OpenFile \cup {None}]
        /\ _FilesExtended \in [Host -> [File -> FileProperties_t \cup {None}]]
    OBVIOUS
  <2> QED  BY <2>1, <2>2, <2>3, <2>4 DEF TypeOK
<1>2. ProgressInv
  <2>1. 1 \in FD
    BY StartupAssumption DEF FD
  <2>2. 1 \in Free
    BY <2>1 DEF Free
  <2> QED  BY <2>2 DEF ProgressInv, Location, Mapping, Scanning, Over
<1>3. VersionInv
  BY StartupAssumption DEF VersionInv, Absent
<1>4. ListingInv
  BY <1>0 DEF ListingInv, Scanning, IsInjective
<1>5. CompleteInv
  BY DEF CompleteInv
<1>6. ContentInv
  BY <1>0 DEF ContentInv
<1>7. OwnedInv
  BY <1>0 DEF OwnedInv
<1>8. EtagNotOlder
  BY <1>0 DEF EtagNotOlder
<1> QED  BY <1>1, <1>2, <1>3, <1>4, <1>5, <1>6, <1>7, <1>8 DEF Inv

\* Who owns which descriptor changes only with the descriptors and the entries.
LEMMA OwnedKept ==
  ASSUME OwnedInv, UNCHANGED <<fds, fd, ServerSocketFD, _FilesExtended>>
  PROVE  OwnedInv'
  BY DEF OwnedInv, Entries

\* A descriptor that is opened while no other is held becomes fd or the socket.
LEMMA OwnedOpened ==
  ASSUME OwnedInv, fd = 0, ServerSocketFD = 0, 0 \notin FD,
         NEW n \in FD, fds[n] = None, fds'[n] # None,
         \A m \in FD : m # n => fds'[m] = fds[m],
         \A h \in Host : \A f \in Entries(h) :
           /\ _FilesExtended[h][f].Filedescriptor \in FD
           /\ _FilesExtended[h][f].Filedescriptor # n,
         _FilesExtended' = _FilesExtended,
         \/ fd' = n /\ ServerSocketFD' = 0
         \/ fd' = 0 /\ ServerSocketFD' = n
  PROVE  OwnedInv'
<1>1. \A h : Entries(h)' = Entries(h)
  BY DEF Entries
<1>2. ASSUME NEW h \in Host, NEW f \in Entries(h)
      PROVE  LET m == _FilesExtended[h][f].Filedescriptor
             IN  fds'[m] # None /\ fds'[m].file = f /\ m # fd' /\ m # ServerSocketFD'
  <2> DEFINE m == _FilesExtended[h][f].Filedescriptor
  <2>1. m \in FD /\ m # n
    OBVIOUS
  <2>2. fds[m] # None /\ fds[m].file = f
    BY DEF OwnedInv
  <2> HIDE DEF m
  <2>3. fds'[m] # None /\ fds'[m].file = f /\ m # fd' /\ m # ServerSocketFD'
    BY <2>1, <2>2
  <2> QED  BY <2>3 DEF m
<1>3. \A h, i \in Host : \A f \in Entries(h), g \in Entries(i) :
        _FilesExtended[h][f].Filedescriptor = _FilesExtended[i][g].Filedescriptor
          => h = i /\ f = g
  BY DEF OwnedInv
<1>4. ASSUME NEW m \in FD, m \notin {fd', ServerSocketFD'}, fds'[m] # None
      PROVE  \E h \in Host : \E f \in Entries(h) :
               _FilesExtended[h][f].Filedescriptor = m
  <2>1. m # n /\ m # 0 /\ fds[m] # None
    BY <1>4
  <2> QED  BY <2>1 DEF OwnedInv
<1>5. /\ fd' # 0 => fds'[fd'] # None
      /\ ServerSocketFD' # 0 => fds'[ServerSocketFD'] # None
  OBVIOUS
<1> QED  BY <1>1, <1>2, <1>3, <1>4, <1>5 DEF OwnedInv

\* What the invariant says of files, listings and descriptors does not depend on
\* signals and privileges, and no more on where init is once it leaves the scan.
LEMMA ScanKept ==
  ASSUME Inv, UNCHANGED <<filesystem, fds, scan>>, ServerSocketFD' = ServerSocketFD,
         pc' = pc \/ pc' \in Location \ Scanning
  PROVE  /\ VersionInv' /\ ListingInv' /\ CompleteInv' /\ ContentInv' /\ OwnedInv'
         /\ EtagNotOlder' /\ Free' = Free
<1>1. /\ UNCHANGED <<dirs, disk, changes, touched, fds>>
      /\ UNCHANGED <<todo, Hostname, mimes, _Files, fd, _FilesExtended, mapped>>
      /\ ServerSocketFD' = ServerSocketFD
  BY DEF filesystem, scan
<1>2. \A h : Entries(h)' = Entries(h)
  BY <1>1 DEF Entries
<1>3. \A h : Stable(h)' = Stable(h)
  BY <1>1 DEF Stable
<1>4. pc' \in Scanning => pc' = pc
  OBVIOUS
<1>5. Entries(Hostname)' = Entries(Hostname) /\ Stable(Hostname)' = Stable(Hostname)
  BY <1>1 DEF Entries, Stable
<1>6. VersionInv'
  BY <1>1, <1>4 DEF Inv, VersionInv, Scanning
<1>7. ListingInv'
  BY <1>1, <1>2, <1>4, <1>5 DEF Inv, ListingInv, Scanning
<1>8. CompleteInv'
  BY <1>1, <1>2, <1>3, <1>4, <1>5 DEF Inv, CompleteInv, Scanning
<1>9. ContentInv'
  BY <1>1, <1>2 DEF Inv, ContentInv
<1>10. OwnedInv'
  BY <1>1, OwnedKept DEF Inv
<1>11. EtagNotOlder'
  BY <1>1, <1>2 DEF Inv, EtagNotOlder
<1>12. Free' = Free
  BY <1>1 DEF Free
<1> QED  BY <1>6, <1>7, <1>8, <1>9, <1>10, <1>11, <1>12

\* SIGTERM sets RunServer or ends the process.
LEMMA InvTerminate == Inv /\ terminate => Inv'
<1> SUFFICES ASSUME Inv, terminate  PROVE Inv'
  OBVIOUS
<1>1. /\ UNCHANGED <<filesystem, fds, scan>> /\ ServerSocketFD' = ServerSocketFD
      /\ pc' = pc \/ pc' \in Location \ Scanning
  BY DEF terminate, process, Location, Scanning, Mapping, Over
<1>2. /\ VersionInv' /\ ListingInv' /\ CompleteInv' /\ ContentInv' /\ OwnedInv'
      /\ EtagNotOlder' /\ Free' = Free
  BY <1>1, ScanKept
<1>3. TypeOK'
  BY <1>1 DEF Inv, TypeOK, terminate, filesystem, scan, process
<1>4. ProgressInv'
  BY <1>1, <1>2 DEF Inv, ProgressInv, terminate, filesystem, scan, process, Location,
     Mapping, Scanning, Over
<1> QED  BY <1>2, <1>3, <1>4 DEF Inv

\* SIGINT ends the process.
LEMMA InvInterrupt == Inv /\ Interrupt => Inv'
<1> SUFFICES ASSUME Inv, Interrupt  PROVE Inv'
  OBVIOUS
<1>1. /\ UNCHANGED <<filesystem, fds, scan>> /\ ServerSocketFD' = ServerSocketFD
      /\ pc' = pc \/ pc' \in Location \ Scanning
  BY DEF Interrupt, process, Location, Scanning, Mapping, Over
<1>2. /\ VersionInv' /\ ListingInv' /\ CompleteInv' /\ ContentInv' /\ OwnedInv'
      /\ EtagNotOlder' /\ Free' = Free
  BY <1>1, ScanKept
<1>3. TypeOK'
  BY <1>1 DEF Inv, TypeOK, Interrupt, filesystem, scan, process
<1>4. ProgressInv'
  BY <1>1, <1>2 DEF Inv, ProgressInv, Interrupt, filesystem, scan, process, Location,
     Mapping, Scanning, Over
<1> QED  BY <1>2, <1>3, <1>4 DEF Inv

\* SIGINT and SIGPIPE are ignored.
LEMMA InvDisableSignals == Inv /\ disableSignals => Inv'
<1> SUFFICES ASSUME Inv, disableSignals  PROVE Inv'
  OBVIOUS
<1>1. /\ UNCHANGED <<filesystem, fds, scan>> /\ ServerSocketFD' = ServerSocketFD
      /\ pc' = pc \/ pc' \in Location \ Scanning
  BY DEF disableSignals, process, Location, Scanning, Mapping, Over
<1>2. /\ VersionInv' /\ ListingInv' /\ CompleteInv' /\ ContentInv' /\ OwnedInv'
      /\ EtagNotOlder' /\ Free' = Free
  BY <1>1, ScanKept
<1>3. TypeOK'
  BY <1>1 DEF Inv, TypeOK, disableSignals, filesystem, scan, process
<1>4. ProgressInv'
  BY <1>1, <1>2 DEF Inv, ProgressInv, disableSignals, filesystem, scan, process, Location,
     Mapping, Scanning, Over
<1> QED  BY <1>2, <1>3, <1>4 DEF Inv

\* The handler is set.
LEMMA InvSetTerminationHandler == Inv /\ setTerminationHandler => Inv'
<1> SUFFICES ASSUME Inv, setTerminationHandler  PROVE Inv'
  OBVIOUS
<1>1. /\ UNCHANGED <<filesystem, fds, scan>> /\ ServerSocketFD' = ServerSocketFD
      /\ pc' = pc \/ pc' \in Location \ Scanning
  BY DEF setTerminationHandler, process, Location, Scanning, Mapping, Over
<1>2. /\ VersionInv' /\ ListingInv' /\ CompleteInv' /\ ContentInv' /\ OwnedInv'
      /\ EtagNotOlder' /\ Free' = Free
  BY <1>1, ScanKept
<1>3. TypeOK'
  BY <1>1 DEF Inv, TypeOK, setTerminationHandler, filesystem, scan, process
<1>4. ProgressInv'
  BY <1>1, <1>2 DEF Inv, ProgressInv, setTerminationHandler, filesystem, scan, process, Location,
     Mapping, Scanning, Over
<1> QED  BY <1>2, <1>3, <1>4 DEF Inv

\* The process stops being root, or exits.
LEMMA InvDropPrivileges == Inv /\ dropPrivileges => Inv'
<1> SUFFICES ASSUME Inv, dropPrivileges  PROVE Inv'
  OBVIOUS
<1>1. /\ UNCHANGED <<filesystem, fds, scan>> /\ ServerSocketFD' = ServerSocketFD
      /\ pc' = pc \/ pc' \in Location \ Scanning
  BY DEF dropPrivileges, process, Location, Scanning, Mapping, Over
<1>2. /\ VersionInv' /\ ListingInv' /\ CompleteInv' /\ ContentInv' /\ OwnedInv'
      /\ EtagNotOlder' /\ Free' = Free
  BY <1>1, ScanKept
<1>3. TypeOK'
  BY <1>1 DEF Inv, TypeOK, dropPrivileges, filesystem, scan, process
<1>4. ProgressInv'
  BY <1>1, <1>2 DEF Inv, ProgressInv, dropPrivileges, filesystem, scan, process, Location,
     Mapping, Scanning, Over
<1> QED  BY <1>2, <1>3, <1>4 DEF Inv

\* The loop ends.
LEMMA InvServerLoop == Inv /\ ServerLoop => Inv'
<1> SUFFICES ASSUME Inv, ServerLoop  PROVE Inv'
  OBVIOUS
<1>1. /\ UNCHANGED <<filesystem, fds, scan>> /\ ServerSocketFD' = ServerSocketFD
      /\ pc' = pc \/ pc' \in Location \ Scanning
  BY DEF ServerLoop, process, Location, Scanning, Mapping, Over
<1>2. /\ VersionInv' /\ ListingInv' /\ CompleteInv' /\ ContentInv' /\ OwnedInv'
      /\ EtagNotOlder' /\ Free' = Free
  BY <1>1, ScanKept
<1>3. TypeOK'
  BY <1>1 DEF Inv, TypeOK, ServerLoop, filesystem, scan, process
<1>4. ProgressInv'
  BY <1>1, <1>2 DEF Inv, ProgressInv, ServerLoop, filesystem, scan, process, Location,
     Mapping, Scanning, Over
<1> QED  BY <1>2, <1>3, <1>4 DEF Inv

\* Nothing happens.
LEMMA InvStutter == Inv /\ UNCHANGED vars => Inv'
<1> SUFFICES ASSUME Inv, UNCHANGED vars  PROVE Inv'
  OBVIOUS
<1>1. /\ UNCHANGED <<filesystem, fds, scan, process>> /\ pc' = pc
      /\ ServerSocketFD' = ServerSocketFD
  BY DEF vars, process
<1>2. /\ VersionInv' /\ ListingInv' /\ CompleteInv' /\ ContentInv' /\ OwnedInv'
      /\ EtagNotOlder' /\ Free' = Free
  BY <1>1, ScanKept
<1>3. TypeOK'
  BY <1>1 DEF Inv, TypeOK, filesystem, scan, process
<1>4. ProgressInv'
  BY <1>1, <1>2 DEF Inv, ProgressInv, scan, process
<1> QED  BY <1>2, <1>3, <1>4 DEF Inv

\* A descriptor that is opened was nobody's, so what the entries refer to is not
\* disturbed.
LEMMA OpenKeeps ==
  ASSUME Inv, NEW o \in OpenFile, Free # {},
         fds' = [fds EXCEPT ![LowestFree] = o],
         UNCHANGED <<disk, touched, _FilesExtended>>
  PROVE  /\ fds' \in [FD -> OpenFile \cup {None}]
         /\ LowestFree \in FD /\ fds[LowestFree] = None
         /\ fds'[LowestFree] = o /\ o # None
         /\ \A m \in FD : m # LowestFree => fds'[m] = fds[m]
         /\ \A h \in Host : \A f \in Entries(h) :
              /\ _FilesExtended[h][f].Filedescriptor \in FD
              /\ _FilesExtended[h][f].Filedescriptor # LowestFree
         /\ ContentInv'
<1>1. LowestFree \in FD /\ fds[LowestFree] = None
  BY LowestFreeIsFree
<1>2. o # None
  BY StartupAssumption
<1>3. fds \in [FD -> OpenFile \cup {None}]
  BY DEF Inv, TypeOK
<1>4. /\ fds' \in [FD -> OpenFile \cup {None}]
      /\ fds'[LowestFree] = o
      /\ \A m \in FD : m # LowestFree => fds'[m] = fds[m]
  BY <1>1, <1>3
<1>5. ASSUME NEW h \in Host, NEW f \in Entries(h)
      PROVE  /\ _FilesExtended[h][f].Filedescriptor \in FD
             /\ _FilesExtended[h][f].Filedescriptor # LowestFree
  <2>1. fds[_FilesExtended[h][f].Filedescriptor] # None
    BY DEF Inv, OwnedInv
  <2>2. f \in File /\ _FilesExtended[h][f] # None
    BY DEF Entries
  <2>3. _FilesExtended[h][f] \in FileProperties_t
    BY <2>2 DEF Inv, TypeOK
  <2>4. _FilesExtended[h][f].Filedescriptor \in FD
    BY <2>3 DEF FileProperties_t
  <2> QED  BY <1>1, <2>1, <2>4
<1>6. \A h : Entries(h)' = Entries(h)
  BY DEF Entries
<1>7. ContentInv'
  BY <1>4, <1>5, <1>6 DEF Inv, ContentInv
<1> QED  BY <1>1, <1>2, <1>4, <1>5, <1>7

\* The socket is opened, or the process exits.
LEMMA InvSetupSocket == Inv /\ setupSocket => Inv'
<1> SUFFICES ASSUME Inv, setupSocket  PROVE Inv'
  OBVIOUS
<1>1. CASE pc' = "exit" /\ UNCHANGED <<ServerSocketFD, fds>>
  <2>1. UNCHANGED <<filesystem, fds, scan>> /\ pc' \in Location \ Scanning
    BY <1>1 DEF setupSocket, Location, Scanning, Mapping, Over
  <2>2. /\ VersionInv' /\ ListingInv' /\ CompleteInv' /\ ContentInv' /\ OwnedInv'
        /\ EtagNotOlder' /\ Free' = Free
    BY <1>1, <2>1, ScanKept
  <2>3. TypeOK'
    BY <1>1, <2>1 DEF Inv, TypeOK, setupSocket, filesystem, scan
  <2>4. ProgressInv'
    BY <1>1, <2>1 DEF Inv, ProgressInv, Location, Mapping, Scanning, Over
  <2> QED  BY <2>2, <2>3, <2>4 DEF Inv
<1>2. CASE pc' # "exit" \/ ~UNCHANGED <<ServerSocketFD, fds>>
  <2> DEFINE o == [file |-> "socket", version |-> 1]
  <2>1. /\ pc = "setupSocket" /\ pc' = "dropPrivileges"
        /\ Free # {}
        /\ ServerSocketFD' = LowestFree
        /\ fds' = [fds EXCEPT ![LowestFree] = o]
        /\ UNCHANGED <<disk, changes, touched>>
        /\ UNCHANGED <<todo, Hostname, mimes, _Files, fd, _FilesExtended, mapped>>
        /\ UNCHANGED <<ignored, handler, privileged, RunServer, signalled>>
    BY <1>2 DEF setupSocket, filesystem, scan
  <2>2. o \in OpenFile
    BY DEF OpenFile, Absent
  <2> HIDE DEF o
  <2>3. /\ fds' \in [FD -> OpenFile \cup {None}]
        /\ LowestFree \in FD /\ fds[LowestFree] = None
        /\ fds'[LowestFree] = o /\ o # None
        /\ \A m \in FD : m # LowestFree => fds'[m] = fds[m]
        /\ \A h \in Host : \A f \in Entries(h) :
             /\ _FilesExtended[h][f].Filedescriptor \in FD
             /\ _FilesExtended[h][f].Filedescriptor # LowestFree
        /\ ContentInv'
    BY <2>1, <2>2, OpenKeeps
  <2>4. fd = 0 /\ ServerSocketFD = 0 /\ fd \notin FD
    BY <2>1, StartupAssumption DEF Inv, ProgressInv, Over, FD
  <2>5. \A h : Entries(h)' = Entries(h) /\ Stable(h)' = Stable(h)
    BY <2>1 DEF Entries, Stable
  <2>6. TypeOK'
    BY <2>1, <2>3 DEF Inv, TypeOK
  <2>7. ProgressInv'
    BY <2>1, <2>3, <2>4, StartupAssumption
       DEF Inv, ProgressInv, Location, Mapping, Scanning, Over, FD
  <2>8. VersionInv'
    BY <2>1 DEF Inv, VersionInv
  <2>9. ListingInv'
    BY <2>1, <2>5 DEF Inv, ListingInv, Scanning
  <2>10. CompleteInv'
    BY <2>1, <2>5 DEF Inv, CompleteInv
  <2>11. OwnedInv'
    <3>1. OwnedInv /\ 0 \notin FD /\ fds'[LowestFree] # None
      BY <2>3, <2>4 DEF Inv
    <3> QED  BY <2>1, <2>3, <2>4, <3>1, OwnedOpened
  <2>12. EtagNotOlder'
    BY <2>1, <2>5 DEF Inv, EtagNotOlder
  <2> QED  BY <2>3, <2>6, <2>7, <2>8, <2>9, <2>10, <2>11, <2>12 DEF Inv
<1> QED  BY <1>1, <1>2

\* Others replace or remove a file, or add one: it counts as touched from then on.
LEMMA InvChange == ASSUME Inv, NEW g \in File, Change(g)  PROVE Inv'
<1>1. /\ changes < MaxChanges /\ changes' = changes + 1
      /\ touched' = touched \cup {g}
      /\ UNCHANGED <<pc, fds>>
      /\ UNCHANGED <<todo, Hostname, mimes, _Files, fd, _FilesExtended, mapped>>
      /\ UNCHANGED <<ServerSocketFD, ignored, handler, privileged, RunServer, signalled>>
  BY DEF Change, scan, process
<1>2. /\ disk \in [File -> Nat] /\ changes \in Nat /\ touched \subseteq File
      /\ changes \in 0 .. MaxChanges /\ _Files \in Seq(File) /\ MaxChanges \in Nat
  BY StartupAssumption DEF Inv, TypeOK
<1>3. /\ disk' \in [File -> Nat]
      /\ disk'[g] = Absent \/ disk'[g] = changes + 2
      /\ \A f \in File : f # g => disk'[f] = disk[f]
  BY <1>2 DEF Change, Absent
<1>4. \A h : Entries(h)' = Entries(h)
  BY <1>1 DEF Entries
<1>5. \A h : Stable(h)' \subseteq Stable(h)
  BY <1>1, <1>3 DEF Stable
<1>6. TypeOK'
  <2>1. changes' \in 0 .. MaxChanges
    BY <1>1, <1>2
  <2> QED  BY <1>1, <1>3, <2>1 DEF Inv, TypeOK
<1>7. ProgressInv'
  <2>1. Free' = Free
    BY <1>1 DEF Free
  <2> QED  BY <1>1, <2>1 DEF Inv, ProgressInv
<1>8. VersionInv'
  <2>1. ASSUME NEW f \in File  PROVE disk'[f] <= changes' + 1
    <3>1. disk[f] \in Nat /\ disk[f] <= changes + 1
      BY <1>2 DEF Inv, VersionInv
    <3>2. disk'[f] = disk[f] \/ disk'[f] = 0 \/ disk'[f] = changes + 2
      BY <1>3 DEF Absent
    <3> QED  BY <1>1, <1>2, <3>1, <3>2
  <2>2. ASSUME pc = "getFileEtag"
        PROVE  /\ _Files # <<>>
               /\ fd \in FD /\ fds[fd] # None
               /\ fds[fd].file = Head(_Files)
               /\ fds[fd].version <= changes' + 1
               /\ disk'[Head(_Files)] # Absent => fds[fd].version <= disk'[Head(_Files)]
               /\ Head(_Files) \notin touched' => fds[fd].version = disk'[Head(_Files)]
    <3> DEFINE v == fds[fd].version
               f == Head(_Files)
    <3>1. /\ _Files # <<>> /\ fd \in FD /\ fds[fd] # None /\ fds[fd].file = f
          /\ v <= changes + 1
          /\ disk[f] # Absent => v <= disk[f]
          /\ f \notin touched => v = disk[f]
      BY <2>2 DEF Inv, VersionInv
    <3>2. fds[fd] \in OpenFile
      BY <3>1 DEF Inv, TypeOK
    <3>3. v \in Nat /\ f \in File
      BY <1>2, <3>1, <3>2, TailMembers DEF OpenFile
    <3> HIDE DEF v, f
    <3>4. v <= changes' + 1 /\ v <= changes + 2
      BY <1>1, <1>2, <3>1, <3>3
    <3>5. disk'[f] # Absent => v <= disk'[f]
      <4>1. CASE f = g
        BY <1>3, <3>4, <4>1
      <4>2. CASE f # g
        BY <1>3, <3>1, <3>3, <4>2
      <4> QED  BY <4>1, <4>2
    <3>6. f \notin touched' => v = disk'[f]
      BY <1>1, <1>3, <3>1, <3>3
    <3> QED  BY <3>1, <3>4, <3>5, <3>6 DEF v, f
  <2> QED  BY <1>1, <2>1, <2>2 DEF VersionInv
<1>9. ListingInv'
  BY <1>1, <1>4 DEF Inv, ListingInv
<1>10. CompleteInv'
  <2>1. Entries(Hostname)' = Entries(Hostname) /\ Stable(Hostname)' \subseteq Stable(Hostname)
    BY <1>1, <1>3 DEF Entries, Stable
  <2> QED  BY <1>1, <1>4, <1>5, <2>1 DEF Inv, CompleteInv
<1>11. ContentInv'
  <2> SUFFICES ASSUME NEW h \in Host, NEW f \in Entries(h), f \notin touched'
               PROVE  LET e == _FilesExtended[h][f]
                      IN  /\ fds[e.Filedescriptor] = [file |-> f, version |-> disk'[f]]
                          /\ e.FileSize = disk'[f]
                          /\ e.ETag = disk'[f]
    BY <1>1, <1>4 DEF ContentInv
  <2>1. f \in File /\ f \notin touched /\ f # g
    BY <1>1 DEF Entries
  <2>2. disk'[f] = disk[f]
    BY <1>3, <2>1
  <2>3. LET e == _FilesExtended[h][f]
        IN  /\ fds[e.Filedescriptor] = [file |-> f, version |-> disk[f]]
            /\ e.FileSize = disk[f]
            /\ e.ETag = disk[f]
    BY <2>1 DEF Inv, ContentInv
  <2> QED  BY <2>2, <2>3
<1>12. OwnedInv'
  BY <1>1, OwnedKept DEF Inv
<1>13. EtagNotOlder'
  BY <1>1, <1>4 DEF Inv, EtagNotOlder
<1> QED  BY <1>6, <1>7, <1>8, <1>9, <1>10, <1>11, <1>12, <1>13 DEF Inv

\* The next namespace, or the end of the namespaces.
LEMMA InvMapStaticFSData == Inv /\ mapStaticFSData => Inv'
<1> SUFFICES ASSUME Inv, mapStaticFSData  PROVE Inv'
  OBVIOUS
<1>1. CASE todo = {} /\ pc' = "disableSignals" /\ UNCHANGED <<Hostname, todo, mimes, _Files>>
  <2>1. /\ UNCHANGED <<filesystem, fds, scan, process>> /\ pc = "mapStaticFSData"
        /\ ServerSocketFD' = ServerSocketFD /\ pc' \in Location \ Scanning
    BY <1>1 DEF mapStaticFSData, scan, process, Location, Scanning, Mapping, Over
  <2>2. /\ VersionInv' /\ ListingInv' /\ CompleteInv' /\ ContentInv' /\ OwnedInv'
        /\ EtagNotOlder' /\ Free' = Free
    BY <2>1, ScanKept
  <2>3. TypeOK'
    BY <2>1 DEF Inv, TypeOK, filesystem, scan, process
  <2>4. ProgressInv'
    BY <1>1, <2>1 DEF Inv, ProgressInv, scan, process, Location, Mapping, Scanning, Over
  <2> QED  BY <2>2, <2>3, <2>4 DEF Inv
<1>2. ASSUME NEW h \in todo, Hostname' = h, todo' = todo \ {h}, mimes' = Mimetypes,
             _Files' = <<>>, pc' = "initFiles"
      PROVE  Inv'
  <2>1. /\ UNCHANGED <<disk, changes, touched, fds, fd, _FilesExtended, mapped>>
        /\ UNCHANGED <<ServerSocketFD, ignored, handler, privileged, RunServer, signalled>>
        /\ pc = "mapStaticFSData"
    BY DEF mapStaticFSData, filesystem, process
  <2>2. /\ \A i : Entries(i)' = Entries(i) /\ Stable(i)' = Stable(i)
        /\ Entries(Hostname)' = Entries(h) /\ Stable(Hostname)' = Stable(h)
        /\ Free' = Free
    BY <1>2, <2>1 DEF Entries, Stable, Free
  <2>3. h \in Host /\ todo \subseteq Host /\ Entries(h) = {}
    BY DEF Inv, TypeOK, ListingInv
  <2>4. Range(_Files') = {} /\ IsInjective(_Files') /\ _Files' \in Seq(File)
    BY <1>2 DEF Range, IsInjective
  <2>5. TypeOK'
    BY <1>2, <2>1, <2>3, <2>4 DEF Inv, TypeOK
  <2>6. ProgressInv'
    <3>1. mapped = Host \ todo /\ fd = 0 /\ ServerSocketFD = 0 /\ Free # {}
      BY <2>1 DEF Inv, ProgressInv, Over, Mapping
    <3>2. mapped' \cup {Hostname'} = Host \ todo'
      BY <1>2, <2>1, <2>3, <3>1
    <3> QED  BY <1>2, <2>1, <2>2, <2>3, <3>1, <3>2
             DEF ProgressInv, Location, Mapping, Scanning, Over
  <2>7. VersionInv'
    BY <1>2, <2>1 DEF Inv, VersionInv
  <2>8. ListingInv'
    BY <1>2, <2>2, <2>3, <2>4, StartupAssumption DEF Inv, ListingInv, Scanning
  <2>9. CompleteInv'
    <3>1. \A f \in Stable(h) : Extension[f] \in Range(Mimetypes)
      BY DEF Stable
    <3> QED  BY <1>2, <2>1, <2>2, <3>1 DEF Inv, CompleteInv
  <2>10. ContentInv'
    BY <2>1, <2>2 DEF Inv, ContentInv
  <2>11. OwnedInv'
    BY <2>1, OwnedKept DEF Inv
  <2>12. EtagNotOlder'
    BY <2>1, <2>2 DEF Inv, EtagNotOlder
  <2> QED  BY <2>5, <2>6, <2>7, <2>8, <2>9, <2>10, <2>11, <2>12 DEF Inv
<1> QED  BY <1>1, <1>2 DEF mapStaticFSData

\* A listing is added to the list, the last one was, or there is no directory.
LEMMA InvInitFiles == Inv /\ initFiles => Inv'
<1> SUFFICES ASSUME Inv, initFiles  PROVE Inv'
  OBVIOUS
<1>0. /\ pc = "initFiles"
      /\ UNCHANGED <<disk, changes, touched, fds, todo, Hostname, fd, _FilesExtended, mapped>>
      /\ UNCHANGED <<ServerSocketFD, ignored, handler, privileged, RunServer, signalled>>
  BY DEF initFiles, filesystem, process
<1>1. CASE pc' = "killed" /\ UNCHANGED <<_Files, mimes>>
  <2>1. UNCHANGED <<filesystem, fds, scan>> /\ pc' \in Location \ Scanning
    BY <1>0, <1>1 DEF initFiles, scan, Location, Scanning, Mapping, Over
  <2>2. /\ VersionInv' /\ ListingInv' /\ CompleteInv' /\ ContentInv' /\ OwnedInv'
        /\ EtagNotOlder' /\ Free' = Free
    BY <1>0, <2>1, ScanKept
  <2>3. TypeOK'
    BY <1>0, <1>1 DEF Inv, TypeOK
  <2>4. ProgressInv'
    BY <1>0, <1>1 DEF Inv, ProgressInv, Location, Mapping, Scanning, Over
  <2> QED  BY <2>2, <2>3, <2>4 DEF Inv
<1>2. /\ \A i : Entries(i)' = Entries(i) /\ Stable(i)' = Stable(i)
      /\ Entries(Hostname)' = Entries(Hostname) /\ Stable(Hostname)' = Stable(Hostname)
      /\ Free' = Free
  BY <1>0 DEF Entries, Stable, Free
<1>3. /\ ContentInv' /\ EtagNotOlder'
  BY <1>0, <1>2 DEF Inv, ContentInv, EtagNotOlder
<1>4. OwnedInv'
  BY <1>0, OwnedKept DEF Inv
<1>5. CASE mimes = <<>> /\ pc' = "open" /\ UNCHANGED <<_Files, mimes>>
  <2>1. TypeOK'
    BY <1>0, <1>5 DEF Inv, TypeOK
  <2>2. ProgressInv'
    BY <1>0, <1>2, <1>5 DEF Inv, ProgressInv, Location, Mapping, Scanning, Over
  <2>3. VersionInv'
    BY <1>0, <1>5 DEF Inv, VersionInv
  <2>4. ListingInv'
    BY <1>0, <1>2, <1>5 DEF Inv, ListingInv, Scanning
  <2>5. CompleteInv'
    <3>1. Range(mimes) = {}
      BY <1>5 DEF Range
    <3> QED  BY <1>0, <1>2, <1>5, <3>1 DEF Inv, CompleteInv
  <2> QED  BY <1>3, <1>4, <2>1, <2>2, <2>3, <2>4, <2>5 DEF Inv
<1>6. ASSUME mimes # <<>>, mimes' = Tail(mimes), pc' = pc,
             NEW t \in GetDirListingByFiletype(Path[Hostname], Head(mimes)),
             _Files' = _Files \o t
      PROVE  Inv'
  <2>1. /\ t \in Seq(File) /\ IsInjective(t)
        /\ Range(t) = {f \in File : /\ disk[f] # Absent /\ Dir[f] = Path[Hostname]
                                    /\ Extension[f] = Head(mimes)}
    BY ListingMembers
  <2>2. /\ mimes \in Seq(Range(Mimetypes)) /\ IsInjective(mimes) /\ IsInjective(_Files)
        /\ _Files \in Seq(File) /\ Entries(Hostname) = {}
        /\ \A f \in Range(_Files) : Extension[f] \notin Range(mimes)
    BY <1>0 DEF Inv, ListingInv, TypeOK
  <2>3. /\ mimes' \in Seq(Range(Mimetypes)) /\ IsInjective(mimes')
        /\ Range(mimes) = Range(mimes') \cup {Head(mimes)}
        /\ Head(mimes) \notin Range(mimes')
    BY <1>6, <2>2, TailMembers
  <2>4. Range(_Files) \cap Range(t) = {}
    BY <2>1, <2>2, <2>3
  <2>5. /\ _Files' \in Seq(File) /\ IsInjective(_Files')
        /\ Range(_Files') = Range(_Files) \cup Range(t)
    <3>1. _Files \in Seq(File) /\ t \in Seq(File)
      BY <2>1, <2>2
    <3>2. /\ _Files \o t \in Seq(File) /\ Range(_Files \o t) = Range(_Files) \cup Range(t)
          /\ IsInjective(_Files) /\ IsInjective(t) /\ Range(_Files) \cap Range(t) = {}
               => IsInjective(_Files \o t)
      BY <3>1, ConcatMembers
    <3> QED  BY <1>6, <2>1, <2>2, <2>4, <3>2
  <2>6. TypeOK'
    BY <1>0, <2>5 DEF Inv, TypeOK
  <2>7. ProgressInv'
    BY <1>0, <1>2, <1>6 DEF Inv, ProgressInv
  <2>8. VersionInv'
    BY <1>0, <1>6 DEF Inv, VersionInv
  <2>9. ListingInv'
    <3>1. \A f \in Range(_Files') : Extension[f] \notin Range(mimes')
      BY <2>1, <2>2, <2>3, <2>5
    <3>2. \A h \in todo' : Entries(h)' = {}
      BY <1>0, <1>2 DEF Inv, ListingInv
    <3> QED  BY <1>2, <2>2, <2>3, <2>5, <3>1, <3>2 DEF ListingInv
  <2>10. CompleteInv'
    <3>1. \A h \in mapped' : Stable(h)' \subseteq Entries(h)'
      BY <1>0, <1>2 DEF Inv, CompleteInv
    <3>2. ASSUME NEW f \in Stable(Hostname)
          PROVE  Extension[f] \in Range(mimes') \/ f \in Range(_Files')
      <4>1. f \in File /\ disk[f] # Absent /\ Dir[f] = Path[Hostname]
        BY DEF Stable
      <4>2. Extension[f] \in Range(mimes) \/ f \in Range(_Files)
        BY <1>0 DEF Inv, CompleteInv
      <4> QED  BY <2>1, <2>3, <2>5, <4>1, <4>2
    <3> QED  BY <1>0, <1>2, <1>6, <3>1, <3>2 DEF CompleteInv
  <2> QED  BY <1>3, <1>4, <2>6, <2>7, <2>8, <2>9, <2>10 DEF Inv
<1> QED  BY <1>1, <1>5, <1>6 DEF initFiles

\* A listed file is opened, is passed over because it is gone, or there is none.
LEMMA InvOpen == Inv /\ Open => Inv'
<1> SUFFICES ASSUME Inv, Open  PROVE Inv'
  OBVIOUS
<1>0. /\ pc = "open"
      /\ UNCHANGED <<disk, changes, touched, todo, Hostname, mimes, _FilesExtended>>
      /\ UNCHANGED <<ServerSocketFD, ignored, handler, privileged, RunServer, signalled>>
  BY DEF Open, filesystem, process
<1>1. /\ \A i : Entries(i)' = Entries(i) /\ Stable(i)' = Stable(i)
      /\ Entries(Hostname)' = Entries(Hostname) /\ Stable(Hostname)' = Stable(Hostname)
  BY <1>0 DEF Entries, Stable
<1>2. EtagNotOlder'
  BY <1>0, <1>1 DEF Inv, EtagNotOlder
<1>3. /\ fd = 0 /\ ServerSocketFD = 0 /\ 0 \notin FD /\ Free # {}
      /\ Hostname \in Host /\ mapped \cup {Hostname} = Host \ todo
  BY <1>0, StartupAssumption DEF Inv, ProgressInv, Over, Mapping, Scanning, FD
<1>4. /\ _Files \in Seq(File) /\ IsInjective(_Files) /\ disk \in [File -> Nat]
      /\ Range(_Files) \cap Entries(Hostname) = {}
      /\ Stable(Hostname) \subseteq Range(_Files) \cup Entries(Hostname)
  BY <1>0 DEF Inv, TypeOK, ListingInv, CompleteInv, Scanning
<1>5. _Files # <<>> =>
        /\ Head(_Files) \in File /\ Tail(_Files) \in Seq(File) /\ IsInjective(Tail(_Files))
        /\ Range(_Files) = Range(Tail(_Files)) \cup {Head(_Files)}
        /\ Head(_Files) \notin Range(Tail(_Files))
  BY <1>4, TailMembers
<1>6. CASE /\ _Files # <<>> /\ disk[Head(_Files)] # Absent /\ Free # {}
           /\ fd' = LowestFree
           /\ fds' = [fds EXCEPT ![LowestFree] =
                        [file |-> Head(_Files), version |-> disk[Head(_Files)]]]
           /\ pc' = "getFileEtag"
           /\ UNCHANGED <<_Files, mapped>>
  <2> DEFINE o == [file |-> Head(_Files), version |-> disk[Head(_Files)]]
  <2>1. o \in OpenFile
    BY <1>4, <1>5, <1>6 DEF OpenFile
  <2>2. o.file = Head(_Files) /\ o.version = disk[Head(_Files)]
    OBVIOUS
  <2>a. fds' = [fds EXCEPT ![LowestFree] = o]
    BY <1>6
  <2> HIDE DEF o
  <2>3. /\ fds' \in [FD -> OpenFile \cup {None}]
        /\ LowestFree \in FD /\ fds[LowestFree] = None
        /\ fds'[LowestFree] = o /\ o # None
        /\ \A m \in FD : m # LowestFree => fds'[m] = fds[m]
        /\ \A h \in Host : \A f \in Entries(h) :
             /\ _FilesExtended[h][f].Filedescriptor \in FD
             /\ _FilesExtended[h][f].Filedescriptor # LowestFree
        /\ ContentInv'
    BY <1>0, <1>6, <2>1, <2>a, OpenKeeps
  <2>4. TypeOK'
    BY <1>0, <1>6, <2>3 DEF Inv, TypeOK
  <2>5. ProgressInv'
    BY <1>0, <1>3, <1>6 DEF Inv, ProgressInv, Location, Mapping, Scanning, Over
  <2>6. VersionInv'
    <3>1. /\ fds'[fd'].version = disk[Head(_Files)] /\ fds'[fd'].file = Head(_Files)
          /\ fds'[fd'] # None /\ fd' \in FD
      BY <1>6, <2>2, <2>3
    <3>2. \A f \in File : disk[f] <= changes + 1
      BY DEF Inv, VersionInv
    <3> QED  BY <1>0, <1>4, <1>5, <1>6, <3>1, <3>2 DEF VersionInv
  <2>7. ListingInv'
    BY <1>0, <1>1, <1>4, <1>6 DEF Inv, ListingInv
  <2>8. CompleteInv'
    BY <1>0, <1>1, <1>4, <1>6 DEF Inv, CompleteInv
  <2>9. OwnedInv'
    <3>1. OwnedInv /\ 0 \notin FD /\ fds'[LowestFree] # None
      BY <1>3, <2>3 DEF Inv
    <3>2. fd' = LowestFree /\ ServerSocketFD' = 0 /\ _FilesExtended' = _FilesExtended
      BY <1>0, <1>3, <1>6
    <3> QED  BY <1>3, <2>3, <3>1, <3>2, OwnedOpened
  <2> QED  BY <1>2, <2>3, <2>4, <2>5, <2>6, <2>7, <2>8, <2>9 DEF Inv
<1>7. CASE /\ _Files # <<>> /\ (disk[Head(_Files)] = Absent \/ Free = {})
           /\ _Files' = Tail(_Files)
           /\ UNCHANGED <<fd, fds, mapped, pc>>
  <2>1. Head(_Files) \notin Stable(Hostname)
    BY <1>3, <1>7 DEF Stable
  <2>2. TypeOK'
    BY <1>0, <1>5, <1>7 DEF Inv, TypeOK
  <2>3. ProgressInv'
    <3>1. Free' = Free
      BY <1>7 DEF Free
    <3> QED  BY <1>0, <1>7, <3>1 DEF Inv, ProgressInv
  <2>4. VersionInv'
    BY <1>0, <1>7 DEF Inv, VersionInv
  <2>5. ListingInv'
    BY <1>0, <1>1, <1>4, <1>5, <1>7 DEF Inv, ListingInv
  <2>6. CompleteInv'
    <3>1. Stable(Hostname) \subseteq Range(Tail(_Files)) \cup Entries(Hostname)
      BY <1>4, <1>5, <1>7, <2>1
    <3> QED  BY <1>0, <1>1, <1>7, <3>1 DEF Inv, CompleteInv
  <2>7. ContentInv'
    BY <1>0, <1>1, <1>7 DEF Inv, ContentInv
  <2>8. OwnedInv'
    BY <1>0, <1>7, OwnedKept DEF Inv
  <2> QED  BY <1>2, <2>2, <2>3, <2>4, <2>5, <2>6, <2>7, <2>8 DEF Inv
<1>8. CASE /\ _Files = <<>>
           /\ mapped' = mapped \cup {Hostname}
           /\ pc' = "mapStaticFSData"
           /\ UNCHANGED <<_Files, fd, fds>>
  <2>1. Range(_Files) = {}
    BY <1>8 DEF Range
  <2>2. TypeOK'
    BY <1>0, <1>3, <1>8 DEF Inv, TypeOK
  <2>3. ProgressInv'
    <3>1. Free' = Free
      BY <1>8 DEF Free
    <3> QED  BY <1>0, <1>3, <1>8, <3>1
             DEF Inv, ProgressInv, Location, Mapping, Scanning, Over
  <2>4. VersionInv'
    BY <1>0, <1>8 DEF Inv, VersionInv
  <2>5. ListingInv'
    BY <1>0, <1>1, <1>8 DEF Inv, ListingInv, Scanning
  <2>6. CompleteInv'
    BY <1>1, <1>4, <1>8, <2>1 DEF Inv, CompleteInv
  <2>7. ContentInv'
    BY <1>0, <1>1, <1>8 DEF Inv, ContentInv
  <2>8. OwnedInv'
    BY <1>0, <1>8, OwnedKept DEF Inv
  <2> QED  BY <1>2, <2>2, <2>3, <2>4, <2>5, <2>6, <2>7, <2>8 DEF Inv
<1> QED  BY <1>6, <1>7, <1>8 DEF Open

\* The file is hashed and gets its entry, or the process exits.
LEMMA InvGetFileEtag == Inv /\ getFileEtag => Inv'
<1> SUFFICES ASSUME Inv, getFileEtag  PROVE Inv'
  OBVIOUS
<1>0. /\ pc = "getFileEtag"
      /\ UNCHANGED <<disk, changes, touched, fds, todo, Hostname, mimes, mapped>>
      /\ UNCHANGED <<ServerSocketFD, ignored, handler, privileged, RunServer, signalled>>
      /\ UNCHANGED filesystem
  BY DEF getFileEtag, filesystem, process
<1>1. CASE pc' = "exit" /\ UNCHANGED <<_FilesExtended, _Files, fd>>
  <2>1. UNCHANGED <<filesystem, fds, scan>> /\ pc' \in Location \ Scanning
    BY <1>0, <1>1 DEF scan, Location, Scanning, Mapping, Over
  <2>2. /\ VersionInv' /\ ListingInv' /\ CompleteInv' /\ ContentInv' /\ OwnedInv'
        /\ EtagNotOlder' /\ Free' = Free
    BY <1>0, <2>1, ScanKept
  <2>3. TypeOK'
    BY <1>0, <1>1 DEF Inv, TypeOK
  <2>4. ProgressInv'
    BY <1>0, <1>1 DEF Inv, ProgressInv, Location, Mapping, Scanning, Over
  <2> QED  BY <2>2, <2>3, <2>4 DEF Inv
<1>2. CASE pc' # "exit" \/ ~UNCHANGED <<_FilesExtended, _Files, fd>>
  <2> DEFINE f == Head(_Files)
             e == Entry(disk[f])
             X == _FilesExtended
  <2>0. PICK H : H = Hostname
    OBVIOUS
  <2>1. /\ disk[f] # Absent /\ Free # {}
        /\ _FilesExtended' = [X EXCEPT ![H][f] = IF @ = None THEN e ELSE @]
        /\ _Files' = Tail(_Files) /\ fd' = 0 /\ pc' = "open"
    BY <1>2, <2>0 DEF getFileEtag
  <2>2. /\ ServerSocketFD = 0 /\ 0 \notin FD
        /\ H \in Host /\ mapped \cup {H} = Host \ todo
    BY <1>0, <2>0, StartupAssumption DEF Inv, ProgressInv, Over, Mapping, Scanning, FD
  <2>3. /\ _Files \in Seq(File) /\ IsInjective(_Files) /\ disk \in [File -> Nat]
        /\ X \in [Host -> [File -> FileProperties_t \cup {None}]]
        /\ Range(_Files) \cap Entries(H) = {}
        /\ Stable(H) \subseteq Range(_Files) \cup Entries(H)
        /\ fds \in [FD -> OpenFile \cup {None}]
    BY <1>0, <2>0 DEF Inv, TypeOK, ListingInv, CompleteInv, Scanning
  <2>4. /\ _Files # <<>> /\ fd \in FD /\ fds[fd] # None
        /\ fds[fd].file = f
        /\ fds[fd].version <= disk[f]
        /\ f \notin touched => fds[fd].version = disk[f]
    BY <1>0, <2>1 DEF Inv, VersionInv
  <2>5. /\ f \in File /\ Tail(_Files) \in Seq(File) /\ IsInjective(Tail(_Files))
        /\ Range(_Files) = Range(Tail(_Files)) \cup {f}
        /\ f \notin Range(Tail(_Files))
    BY <2>3, <2>4, TailMembers
  <2>6. /\ fds[fd] \in OpenFile
        /\ fds[fd].version \in Nat
        /\ fds[fd] = [file |-> f, version |-> fds[fd].version]
    BY <2>3, <2>4 DEF OpenFile
  <2>7. /\ e \in FileProperties_t /\ e # None
        /\ e.Filedescriptor = fd /\ e.FileSize = fds[fd].version /\ e.ETag = disk[f]
    <3>1. disk[f] \in Nat /\ fd \in FD /\ fds[fd].version \in Nat
      BY <2>3, <2>4, <2>5, <2>6
    <3>2. e = [Filedescriptor |-> fd, FileSize |-> fds[fd].version, ETag |-> disk[f]]
      BY DEF Entry
    <3> HIDE DEF f, e
    <3>3. e \in FileProperties_t
      BY <3>1, <3>2 DEF FileProperties_t
    <3>4. e # None
      BY <3>3, StartupAssumption
    <3> QED  BY <3>2, <3>3, <3>4
  <2>8. f \notin Entries(H) /\ X[H][f] = None
    BY <2>3, <2>5 DEF Entries
  <2> HIDE DEF f, e, X
  <2>9. /\ _FilesExtended' \in [Host -> [File -> FileProperties_t \cup {None}]]
        /\ _FilesExtended'[H][f] = e
        /\ \A h \in Host : \A g \in File :
             ~(h = H /\ g = f) => _FilesExtended'[h][g] = X[h][g]
    BY <2>1, <2>2, <2>3, <2>5, <2>7, <2>8
  <2>10. /\ \A h \in Host : h # H => Entries(h)' = Entries(h)
         /\ Entries(H)' = Entries(H) \cup {f}
         /\ \A h \in Host : \A g \in Entries(h) :
              /\ g \in File /\ ~(h = H /\ g = f)
              /\ _FilesExtended'[h][g] = X[h][g]
    BY <1>0, <2>2, <2>5, <2>7, <2>8, <2>9 DEF Entries, X
  <2>11. ASSUME NEW h \in Host, NEW g \in Entries(h)'
         PROVE  \/ h = H /\ g = f /\ _FilesExtended'[h][g] = e
                \/ g \in Entries(h) /\ _FilesExtended'[h][g] = X[h][g]
    BY <2>9, <2>10
  <2>12. \A h : Stable(h)' = Stable(h)
    BY <1>0 DEF Stable
  <2>13. TypeOK'
    BY <1>0, <2>1, <2>5, <2>9 DEF Inv, TypeOK
  <2>14. ProgressInv'
    <3>1. Free' = Free
      BY <1>0 DEF Free
    <3> QED  BY <1>0, <2>1, <3>1 DEF Inv, ProgressInv, Location, Mapping, Scanning, Over
  <2>15. VersionInv'
    BY <1>0, <2>1 DEF Inv, VersionInv
  <2>16. ListingInv'
    <3>1. ASSUME NEW h \in todo'  PROVE Entries(h)' = {}
      <4>1. h \in Host /\ h # H /\ h \in todo
        BY <1>0, <2>2 DEF Inv, TypeOK
      <4> QED  BY <2>10, <4>1 DEF Inv, ListingInv
    <3>2. Range(Tail(_Files)) \cap Entries(H)' = {}
      BY <2>3, <2>5, <2>10
    <3>3. Entries(Hostname)' = Entries(H)'
      BY <1>0, <2>0 DEF Entries
    <3> QED  BY <1>0, <2>1, <2>5, <3>1, <3>2, <3>3 DEF Inv, ListingInv
  <2>17. CompleteInv'
    <3>1. ASSUME NEW h \in mapped'  PROVE Stable(h)' \subseteq Entries(h)'
      <4>1. h \in Host /\ h \in mapped
        BY <1>0 DEF Inv, TypeOK
      <4>2. Entries(h) \subseteq Entries(h)'
        BY <2>10, <4>1
      <4> QED  BY <2>12, <4>1, <4>2 DEF Inv, CompleteInv
    <3>2. Stable(H)' \subseteq Range(Tail(_Files)) \cup Entries(H)'
      BY <2>3, <2>5, <2>10, <2>12
    <3>3. Entries(Hostname)' = Entries(H)' /\ Stable(Hostname)' = Stable(H)'
      BY <1>0, <2>0 DEF Entries, Stable
    <3> QED  BY <2>1, <3>1, <3>2, <3>3 DEF CompleteInv
  <2>18. ContentInv'
    <3> SUFFICES ASSUME NEW h \in Host, NEW g \in Entries(h)', g \notin touched
                 PROVE  LET x == _FilesExtended'[h][g]
                        IN  /\ fds[x.Filedescriptor] = [file |-> g, version |-> disk[g]]
                            /\ x.FileSize = disk[g]
                            /\ x.ETag = disk[g]
      BY <1>0 DEF ContentInv
    <3>1. CASE h = H /\ g = f /\ _FilesExtended'[h][g] = e
      BY <2>4, <2>6, <2>7, <3>1
    <3>2. CASE g \in Entries(h) /\ _FilesExtended'[h][g] = X[h][g]
      <4>1. /\ fds[X[h][g].Filedescriptor] = [file |-> g, version |-> disk[g]]
            /\ X[h][g].FileSize = disk[g]
            /\ X[h][g].ETag = disk[g]
        BY <3>2 DEF Inv, ContentInv, X
      <4> QED  BY <3>2, <4>1
    <3> QED  BY <2>11, <3>1, <3>2
  <2>19. OwnedInv'
    <3>1. ASSUME NEW h \in Host, NEW g \in Entries(h)
          PROVE  LET n == X[h][g].Filedescriptor
                 IN  fds[n] # None /\ fds[n].file = g /\ n # fd /\ n # ServerSocketFD
      BY DEF Inv, OwnedInv, X
    <3>2. ASSUME NEW h \in Host, NEW g \in Entries(h)
          PROVE  X[h][g].Filedescriptor # 0
      <4>1. g \in File /\ X[h][g] # None
        BY DEF Entries, X
      <4>2. X[h][g] \in FileProperties_t
        BY <2>3, <4>1
      <4> QED  BY <2>2, <4>2 DEF FileProperties_t
    <3>3. ASSUME NEW h \in Host, NEW g \in Entries(h)'
          PROVE  LET n == _FilesExtended'[h][g].Filedescriptor
                 IN  fds[n] # None /\ fds[n].file = g /\ n # 0 /\ n # ServerSocketFD
      <4>1. CASE h = H /\ g = f /\ _FilesExtended'[h][g] = e
        BY <2>2, <2>4, <2>7, <4>1
      <4>2. CASE g \in Entries(h) /\ _FilesExtended'[h][g] = X[h][g]
        <5>1. LET n == X[h][g].Filedescriptor
              IN  fds[n] # None /\ fds[n].file = g /\ n # ServerSocketFD
          BY <3>1, <4>2
        <5>2. X[h][g].Filedescriptor # 0
          BY <3>2, <4>2
        <5> QED  BY <4>2, <5>1, <5>2
      <4> QED  BY <2>11, <4>1, <4>2
    <3>0. ASSUME NEW h \in Host, NEW g \in Entries(h)'
          PROVE  LET m == _FilesExtended'[h][g].Filedescriptor
                 IN  \/ g \in Entries(h) /\ m = X[h][g].Filedescriptor /\ m # fd
                     \/ m = fd /\ h = H /\ g = f
      <4>1. CASE h = H /\ g = f /\ _FilesExtended'[h][g] = e
        BY <2>7, <4>1
      <4>2. CASE g \in Entries(h) /\ _FilesExtended'[h][g] = X[h][g]
        BY <3>1, <4>2
      <4> QED  BY <2>11, <4>1, <4>2
    <3>4. ASSUME NEW h \in Host, NEW i \in Host, NEW g \in Entries(h)', NEW k \in Entries(i)',
                 _FilesExtended'[h][g].Filedescriptor = _FilesExtended'[i][k].Filedescriptor
          PROVE  h = i /\ g = k
      <4> DEFINE m == _FilesExtended'[h][g].Filedescriptor
      <4>1. \/ g \in Entries(h) /\ m = X[h][g].Filedescriptor /\ m # fd
            \/ m = fd /\ h = H /\ g = f
        BY <3>0
      <4>2. \/ k \in Entries(i) /\ m = X[i][k].Filedescriptor /\ m # fd
            \/ m = fd /\ i = H /\ k = f
        BY <3>0, <3>4
      <4> HIDE DEF m
      <4>3. CASE m = fd
        BY <4>1, <4>2, <4>3
      <4>4. CASE m # fd
        <5>1. g \in Entries(h) /\ k \in Entries(i)
          BY <4>1, <4>2, <4>4
        <5>2. X[h][g].Filedescriptor = X[i][k].Filedescriptor
          BY <4>1, <4>2, <4>4
        <5>3. \A a, b \in Host : \A c \in Entries(a), d \in Entries(b) :
                X[a][c].Filedescriptor = X[b][d].Filedescriptor => a = b /\ c = d
          BY DEF Inv, OwnedInv, X
        <5> QED  BY <5>1, <5>2, <5>3
      <4> QED  BY <4>3, <4>4
    <3>5. ASSUME NEW n \in FD, fds[n] # None
          PROVE  \E h \in Host : \E g \in Entries(h)' :
                   _FilesExtended'[h][g].Filedescriptor = n
      <4>1. CASE n = fd
        BY <2>2, <2>7, <2>9, <2>10, <4>1
      <4>2. CASE n # fd
        <5>1. n # ServerSocketFD
          BY <2>2
        <5>2. PICK h \in Host : \E g \in Entries(h) : X[h][g].Filedescriptor = n
          BY <3>5, <4>2, <5>1 DEF Inv, OwnedInv, X
        <5>3. PICK g \in Entries(h) : X[h][g].Filedescriptor = n
          BY <5>2
        <5>4. g \in Entries(h)' /\ _FilesExtended'[h][g] = X[h][g]
          BY <2>10
        <5> QED  BY <5>3, <5>4
      <4> QED  BY <4>1, <4>2
    <3>6. fd' = 0 /\ ServerSocketFD' = 0 /\ fds' = fds
      BY <1>0, <2>1, <2>2
    <3>7. \A h \in Host : \A g \in Entries(h)' :
            LET n == _FilesExtended'[h][g].Filedescriptor
            IN  fds'[n] # None /\ fds'[n].file = g /\ n # fd' /\ n # ServerSocketFD'
      BY <3>3, <3>6
    <3>8. \A h, i \in Host : \A g \in Entries(h)', k \in Entries(i)' :
            _FilesExtended'[h][g].Filedescriptor = _FilesExtended'[i][k].Filedescriptor
              => h = i /\ g = k
      BY <3>4
    <3>9. \A n \in FD \ {fd', ServerSocketFD'} : fds'[n] # None =>
            \E h \in Host : \E g \in Entries(h)' :
              _FilesExtended'[h][g].Filedescriptor = n
      BY <3>5, <3>6
    <3> QED  BY <3>6, <3>7, <3>8, <3>9 DEF OwnedInv
  <2>20. EtagNotOlder'
    <3> SUFFICES ASSUME NEW h \in Host, NEW g \in Entries(h)'
                 PROVE  _FilesExtended'[h][g].ETag >= _FilesExtended'[h][g].FileSize
      BY DEF EtagNotOlder
    <3>1. CASE h = H /\ g = f /\ _FilesExtended'[h][g] = e
      <4>1. disk[f] \in Nat
        BY <2>3, <2>5
      <4> QED  BY <2>4, <2>6, <2>7, <3>1, <4>1
    <3>2. CASE g \in Entries(h) /\ _FilesExtended'[h][g] = X[h][g]
      BY <3>2 DEF Inv, EtagNotOlder, X
    <3> QED  BY <2>11, <3>1, <3>2
  <2> QED  BY <2>13, <2>14, <2>15, <2>16, <2>17, <2>18, <2>19, <2>20 DEF Inv
<1> QED  BY <1>1, <1>2

-----------------------------------------------------------------------------
\* Every step preserves the invariant.
LEMMA InvNext == Inv /\ [Next]_vars => Inv'
<1> SUFFICES ASSUME Inv, [Next]_vars  PROVE Inv'
  OBVIOUS
<1>1. ASSUME NEW f \in File, Change(f)  PROVE Inv'
  BY <1>1, InvChange
<1>2. CASE terminate \/ Interrupt
  BY <1>2, InvTerminate, InvInterrupt
<1>3. CASE ServerStep
  BY <1>3, InvMapStaticFSData, InvInitFiles, InvOpen, InvGetFileEtag,
     InvDisableSignals, InvSetTerminationHandler, InvSetupSocket, InvDropPrivileges,
     InvServerLoop DEF ServerStep
<1>4. CASE UNCHANGED vars
  BY <1>4, InvStutter
<1> QED  BY <1>1, <1>2, <1>3, <1>4 DEF Next

\* The invariant holds throughout a start-up.
THEOREM Invariance == Spec => []Inv
<1> QED  BY InvInit, InvNext, PTL DEF Spec

\* The variables of init have their types throughout: a descriptor, an entry and
\* what a descriptor is open on are what the code declares them to be.
THEOREM TypeCorrect == Spec => []TypeOK
<1>1. Inv => TypeOK
  BY DEF Inv
<1> QED  BY <1>1, Invariance, PTL

\* However many files others replace, remove or add while mapStaticFSData runs, and
\* however few descriptors there are, a file nobody touches is served by every
\* mapped namespace that has it, with descriptor, size and ETag of its content.
THEOREM UntouchedServed == Spec => []StableServed
<1>1. Inv => StableServed
  <2> SUFFICES ASSUME Inv, NEW h \in mapped, NEW f \in File \ touched,
                      disk[f] # Absent, Dir[f] = Path[h], Extension[f] \in Range(Mimetypes)
               PROVE  /\ f \in Entries(h)
                      /\ LET e == _FilesExtended[h][f]
                         IN  /\ fds[e.Filedescriptor] = [file |-> f, version |-> disk[f]]
                             /\ e.FileSize = disk[f]
                             /\ e.ETag = disk[f]
    BY DEF StableServed
  <2>1. h \in Host
    BY DEF Inv, TypeOK
  <2>2. f \in Entries(h)
    BY DEF Inv, CompleteInv, Stable
  <2> QED  BY <2>1, <2>2 DEF Inv, ContentInv
<1> QED  BY <1>1, Invariance, PTL

\* Processing the files leaks no descriptor and shares none: the open ones are
\* those of the entries, of the file being processed and of the socket.
THEOREM NoDescriptorLeak == Spec => []DescriptorsOwned
<1>1. Inv => DescriptorsOwned
  <2> SUFFICES ASSUME Inv  PROVE DescriptorsOwned
    OBVIOUS
  <2> DEFINE owned == {o \in Host \X File : o[2] \in Entries(o[1])}
             fdOf(o) == _FilesExtended[o[1]][o[2]].Filedescriptor
             others == {fd, ServerSocketFD} \ {0}
  <2>1. ASSUME NEW o \in owned
        PROVE  /\ o[1] \in Host /\ o[2] \in Entries(o[1]) /\ o = <<o[1], o[2]>>
               /\ fdOf(o) \in FD /\ fds[fdOf(o)] # None
               /\ fds[fdOf(o)].file = o[2] /\ fdOf(o) \notin others
    <3>1. /\ o[1] \in Host /\ o[2] \in File /\ o[2] \in Entries(o[1])
          /\ o = <<o[1], o[2]>>
      OBVIOUS
    <3>2. _FilesExtended[o[1]][o[2]] \in FileProperties_t
      BY <3>1 DEF Inv, TypeOK, Entries
    <3>3. fdOf(o) \in FD /\ 0 \notin FD
      <4>1. fdOf(o) \in FD
        BY <3>2 DEF FileProperties_t
      <4> QED  BY <4>1, StartupAssumption DEF FD
    <3>4. LET n == fdOf(o)
          IN  fds[n] # None /\ fds[n].file = o[2] /\ n # fd /\ n # ServerSocketFD
      <4>1. \A h \in Host : \A f \in Entries(h) :
              LET n == _FilesExtended[h][f].Filedescriptor
              IN  fds[n] # None /\ fds[n].file = f /\ n # fd /\ n # ServerSocketFD
        BY DEF Inv, OwnedInv
      <4> QED  BY <3>1, <4>1
    <3> QED  BY <3>1, <3>3, <3>4
  <2>2. ASSUME NEW o \in owned, NEW q \in owned, fdOf(o) = fdOf(q)  PROVE o = q
    <3>0. \A h, i \in Host : \A f \in Entries(h), g \in Entries(i) :
            _FilesExtended[h][f].Filedescriptor = _FilesExtended[i][g].Filedescriptor
              => h = i /\ f = g
      BY DEF Inv, OwnedInv
    <3>1. o[1] = q[1] /\ o[2] = q[2]
      <4>1. /\ o[1] \in Host /\ o[2] \in Entries(o[1])
            /\ q[1] \in Host /\ q[2] \in Entries(q[1])
        BY <2>1
      <4>2. _FilesExtended[o[1]][o[2]].Filedescriptor
              = _FilesExtended[q[1]][q[2]].Filedescriptor
        BY <2>2
      <4> QED  BY <3>0, <4>1, <4>2
    <3> QED  BY <2>1, <3>1
  <2>3. ASSUME NEW n \in FD \ Free  PROVE n \in {fdOf(o) : o \in owned} \cup others
    <3>1. fds[n] # None /\ n # 0
      BY StartupAssumption DEF Free, FD
    <3>2. CASE n \in {fd, ServerSocketFD}
      BY <3>1, <3>2
    <3>3. CASE n \notin {fd, ServerSocketFD}
      <4>1. PICK h \in Host : \E f \in Entries(h) : _FilesExtended[h][f].Filedescriptor = n
        BY <3>1, <3>3 DEF Inv, OwnedInv
      <4>2. PICK f \in Entries(h) : _FilesExtended[h][f].Filedescriptor = n
        BY <4>1
      <4>3. f \in File
        BY DEF Entries
      <4>4. <<h, f>> \in owned /\ fdOf(<<h, f>>) = n
        BY <4>2, <4>3
      <4> QED  BY <4>4
    <3> QED  BY <3>2, <3>3
  <2>4. ASSUME NEW n \in others  PROVE n \in FD \ Free
    <3>1. CASE n = fd
      BY <3>1 DEF Inv, TypeOK, OwnedInv, Free
    <3>2. CASE n = ServerSocketFD
      BY <3>2 DEF Inv, TypeOK, OwnedInv, Free
    <3> QED  BY <3>1, <3>2
  <2>5. ASSUME NEW o \in owned  PROVE fdOf(o) \in FD \ Free
    BY <2>1 DEF Free
  <2>6. FD \ Free = {fdOf(o) : o \in owned} \cup others
    BY <2>3, <2>4, <2>5
  <2> QED  BY <2>1, <2>2, <2>6 DEF DescriptorsOwned
<1> QED  BY <1>1, Invariance, PTL

\* An ETag is never that of an older content than the one the descriptor serves.
THEOREM EtagFresh == Spec => []EtagNotOlder
<1>1. Inv => EtagNotOlder
  BY DEF Inv
<1> QED  BY <1>1, Invariance, PTL

\* The loop starts only with all namespaces mapped, the socket open, the signals
\* handled and root's privileges given up.
THEOREM Prepared == Spec => []ServesPrepared
<1>1. Inv => ServesPrepared
  BY DEF Inv, ProgressInv, ServesPrepared, Mapping, Scanning, Over
<1> QED  BY <1>1, Invariance, PTL

=============================================================================
