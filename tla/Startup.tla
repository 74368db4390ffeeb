------------------------------- MODULE Startup -------------------------------
(***************************************************************************)
(* Server::init (src/Server.cpp): the way from the configuration to the    *)
(* server loop.  Configuration::mapStaticFSData lists, opens and hashes    *)
(* the static files of every namespace (src/Filesystem.cpp) while others   *)
(* may replace or remove them; then come signals, socket and privileges.   *)
(* SIGTERM and SIGINT may arrive at any time.                              *)
(*                                                                         *)
(* The content of a file is a version, and a file is replaced as a whole:  *)
(* an open descriptor keeps the version it was opened on.                  *)
(***************************************************************************)
EXTENDS Integers, Sequences, FiniteSets, Functions

CONSTANTS
  Host,          \* hostnames of the configured namespaces
  Directory,
  Path,          \* the static directory of a host
  File,          \* names of files that may exist
  Dir,           \* the directory a file lies in
  Extension,     \* its extension
  Mimetypes,     \* the extensions served
  MaxFD,         \* descriptors the process may open here
  MaxChanges,    \* bound on the changes others make to the files
  None           \* a closed descriptor, an entry _FilesExtended has not

FD == 1 .. MaxFD

\* The version of a file that does not exist.
Absent == 0

\* What an open descriptor refers to, and a FileProperties_t entry.
OpenFile == [file : File \cup {"socket"}, version : Nat \ {Absent}]
FileProperties_t == [Filedescriptor : FD, FileSize : Nat, ETag : Nat]

\* There is a descriptor to begin with: Configuration has just read its file
\* through one.
ASSUME StartupAssumption ==
  /\ Path \in [Host -> Directory]
  /\ Dir \in [File -> Directory]
  /\ IsFiniteSet(File)
  /\ Mimetypes \in Seq(Range(Mimetypes))
  /\ IsInjective(Mimetypes)
  /\ MaxFD \in Nat \ {0}
  /\ MaxChanges \in Nat
  /\ None \notin OpenFile \cup FileProperties_t

VARIABLES
  \* the file system
  dirs,          \* the directories that exist
  disk,          \* the version of each file
  changes,       \* how many changes others have made
  touched,       \* the files they changed
  \* the process
  pc,
  fds,           \* open descriptors: the file and version each refers to
  todo,          \* namespaces mapStaticFSData has not come to
  Hostname,      \* the one it is at
  mimes,         \* the types initFiles has not listed
  _Files,        \* the files listed and not processed
  fd,            \* the descriptor of the file being processed
  _FilesExtended,
  mapped,        \* namespaces whose FilesystemRef is set
  ServerSocketFD,
  ignored,       \* SIGINT and SIGPIPE are ignored
  handler,       \* SIGTERM has its handler
  privileged,    \* getuid() = 0
  RunServer,
  signalled      \* SIGTERM has arrived

filesystem == <<dirs, disk, changes, touched>>
scan == <<todo, Hostname, mimes, _Files, fd, _FilesExtended, mapped>>
process == <<ServerSocketFD, ignored, handler, privileged, RunServer, signalled>>
vars == <<filesystem, pc, fds, scan, process>>

Over == {"stopped", "exit", "killed"}

Init ==
  /\ dirs \in SUBSET Directory
  /\ disk \in [File -> {Absent, 1}]
  /\ \A f \in File : disk[f] # Absent => Dir[f] \in dirs
  /\ changes = 0
  /\ touched = {}
  /\ pc = "mapStaticFSData"
  /\ fds = [n \in FD |-> None]
  /\ todo = Host
  /\ Hostname = CHOOSE h \in Host : TRUE
  /\ mimes = <<>>
  /\ _Files = <<>>
  /\ fd = 0
  /\ _FilesExtended = [h \in Host |-> [f \in File |-> None]]
  /\ mapped = {}
  /\ ServerSocketFD = 0
  /\ ignored = FALSE
  /\ handler = FALSE
  /\ privileged \in BOOLEAN
  /\ RunServer = TRUE
  /\ signalled = FALSE

-----------------------------------------------------------------------------
(***************************************************************************)
(* The environment: files are removed, replaced or added; signals arrive.  *)
(***************************************************************************)
Change(f) ==
  /\ changes < MaxChanges
  /\ Dir[f] \in dirs
  /\ \E v \in {Absent, changes + 2} :
       v # disk[f] /\ disk' = [disk EXCEPT ![f] = v]
  /\ changes' = changes + 1
  /\ touched' = touched \cup {f}
  /\ UNCHANGED <<dirs, pc, fds, scan, process>>

\* Without its handler SIGTERM kills; no child is registered in ChildPIDs.
terminate ==
  /\ pc \notin Over
  /\ signalled' = TRUE
  /\ IF handler
     THEN RunServer' = FALSE /\ UNCHANGED pc
     ELSE pc' = "killed" /\ UNCHANGED RunServer
  /\ UNCHANGED <<filesystem, fds, scan, ServerSocketFD, ignored, handler,
                 privileged>>

Interrupt ==
  /\ pc \notin Over
  /\ ~ignored
  /\ pc' = "killed"
  /\ UNCHANGED <<filesystem, fds, scan, process>>

-----------------------------------------------------------------------------
(***************************************************************************)
(* Configuration::mapStaticFSData, one namespace after the other in the    *)
(* order of an unordered_map.                                              *)
(***************************************************************************)
mapStaticFSData ==
  /\ pc = "mapStaticFSData"
  /\ \/ \E h \in todo :
          /\ Hostname' = h
          /\ todo' = todo \ {h}
          /\ mimes' = Mimetypes
          /\ _Files' = <<>>
          /\ pc' = "initFiles"
     \/ /\ todo = {}
        /\ pc' = "disableSignals"
        /\ UNCHANGED <<Hostname, todo, mimes, _Files>>
  /\ UNCHANGED <<filesystem, fds, fd, _FilesExtended, mapped, process>>

\* The listings of a directory for a type: in any order, each file once.
GetDirListingByFiletype(d, type) ==
  LET found == {f \in File : disk[f] # Absent /\ Dir[f] = d /\ Extension[f] = type}
  IN  Bijection(1 .. Cardinality(found), found)

\* Mutant of initFiles: a listing replaces the one before it.
initFilesLast ==
  /\ pc = "initFiles"
  /\ IF mimes = <<>>
     THEN pc' = "open" /\ UNCHANGED <<_Files, mimes>>
     ELSE /\ _Files' \in GetDirListingByFiletype(Path[Hostname], Head(mimes))
          /\ mimes' = Tail(mimes)
          /\ UNCHANGED pc
  /\ UNCHANGED <<filesystem, fds, todo, Hostname, fd, _FilesExtended, mapped,
                 process>>

\* One listing per type; a directory that does not exist throws, and nothing
\* catches it.
initFiles ==
  /\ pc = "initFiles"
  /\ \/ /\ mimes # <<>> /\ Path[Hostname] \in dirs
        /\ \E TmpFiles \in GetDirListingByFiletype(Path[Hostname], Head(mimes)) :
             _Files' = _Files \o TmpFiles
        /\ mimes' = Tail(mimes)
        /\ UNCHANGED pc
     \/ /\ mimes # <<>> /\ Path[Hostname] \notin dirs
        /\ pc' = "killed"
        /\ UNCHANGED <<_Files, mimes>>
     \/ /\ mimes = <<>>
        /\ pc' = "open"
        /\ UNCHANGED <<_Files, mimes>>
  /\ UNCHANGED <<filesystem, fds, todo, Hostname, fd, _FilesExtended, mapped,
                 process>>

Free == {n \in FD : fds[n] = None}

\* The descriptor the next open(), socket() or ifstream gets.
LowestFree == CHOOSE n \in Free : \A m \in Free : n <= m

\* Mutant of Open: the result of open() is not looked at.
OpenUnchecked ==
  /\ pc = "open"
  /\ _Files # <<>>
  /\ LET f == Head(_Files)
         n == IF disk[f] = Absent \/ Free = {} THEN -1 ELSE LowestFree
     IN  /\ fd' = n
         /\ fds' = [m \in FD |-> IF m = n THEN [file |-> f, version |-> disk[f]]
                                 ELSE fds[m]]
  /\ pc' = "getFileEtag"
  /\ UNCHANGED <<filesystem, todo, Hostname, mimes, _Files, _FilesExtended,
                 mapped, process>>

\* processFileProperties: a file that cannot be opened is passed over.
Open ==
  /\ pc = "open"
  /\ \/ /\ _Files # <<>> /\ disk[Head(_Files)] # Absent /\ Free # {}
        /\ fd' = LowestFree
        /\ fds' = [fds EXCEPT ![LowestFree] =
                     [file |-> Head(_Files), version |-> disk[Head(_Files)]]]
        /\ pc' = "getFileEtag"
        /\ UNCHANGED <<_Files, mapped>>
     \/ /\ _Files # <<>> /\ (disk[Head(_Files)] = Absent \/ Free = {})
        /\ _Files' = Tail(_Files)
        /\ UNCHANGED <<fd, fds, mapped, pc>>
     \/ /\ _Files = <<>>
        /\ mapped' = mapped \cup {Hostname}
        /\ pc' = "mapStaticFSData"
        /\ UNCHANGED <<_Files, fd, fds>>
  /\ UNCHANGED <<filesystem, todo, Hostname, mimes, _FilesExtended, process>>

\* What getFileEtag records of the file being processed.
Entry(etag) ==
  [Filedescriptor |-> fd, FileSize |-> fds[fd].version, ETag |-> etag]

\* Mutant of getFileEtag: a file that is gone is passed over.
getFileEtagSkips ==
  /\ pc = "getFileEtag"
  /\ _FilesExtended' =
       IF disk[Head(_Files)] = Absent THEN _FilesExtended
       ELSE [_FilesExtended EXCEPT ![Hostname][Head(_Files)] =
               Entry(disk[Head(_Files)])]
  /\ _Files' = Tail(_Files)
  /\ fd' = 0
  /\ pc' = "open"
  /\ UNCHANGED <<filesystem, fds, todo, Hostname, mimes, mapped, process>>

\* Mutant of getFileEtag: the hash another namespace has is used again.
getFileEtagCached ==
  /\ pc = "getFileEtag"
  /\ LET f == Head(_Files)
         known == {h \in Host : _FilesExtended[h][f] # None}
     IN  _FilesExtended' =
           [_FilesExtended EXCEPT ![Hostname][f] =
              Entry(IF known = {} THEN disk[f]
                    ELSE _FilesExtended[CHOOSE h \in known : TRUE][f].ETag)]
  /\ _Files' = Tail(_Files)
  /\ fd' = 0
  /\ pc' = "open"
  /\ UNCHANGED <<filesystem, fds, todo, Hostname, mimes, mapped, process>>

(***************************************************************************)
(* getFileEtag opens the file again, by its name and with a descriptor of  *)
(* its own; if it cannot, tellg is -1, the allocation throws and the       *)
(* process exits.  The entry gets the size of the first descriptor.        *)
(***************************************************************************)
getFileEtag ==
  /\ pc = "getFileEtag"
  /\ LET f == Head(_Files)
     IN  \/ /\ disk[f] # Absent /\ Free # {}
            /\ _FilesExtended' =
                 [_FilesExtended EXCEPT ![Hostname][f] =
                    IF @ = None THEN Entry(disk[f]) ELSE @]
            /\ _Files' = Tail(_Files)
            /\ fd' = 0
            /\ pc' = "open"
         \/ /\ disk[f] = Absent \/ Free = {}
            /\ pc' = "exit"
            /\ UNCHANGED <<_FilesExtended, _Files, fd>>
  /\ UNCHANGED <<filesystem, fds, todo, Hostname, mimes, mapped, process>>

-----------------------------------------------------------------------------
(***************************************************************************)
(* The rest of init.                                                       *)
(***************************************************************************)
disableSignals ==
  /\ pc = "disableSignals"
  /\ ignored' = TRUE
  /\ pc' = "setTerminationHandler"
  /\ UNCHANGED <<filesystem, fds, scan, ServerSocketFD, handler, privileged,
                 RunServer, signalled>>

setTerminationHandler ==
  /\ pc = "setTerminationHandler"
  /\ handler' = TRUE
  /\ pc' = "setupSocket"
  /\ UNCHANGED <<filesystem, fds, scan, ServerSocketFD, ignored, privileged,
                 RunServer, signalled>>

\* Mutant of setupSocket: a server that listens is a server that runs.
setupSocketRuns ==
  /\ pc = "setupSocket"
  /\ Free # {}
  /\ ServerSocketFD' = LowestFree
  /\ fds' = [fds EXCEPT ![LowestFree] = [file |-> "socket", version |-> 1]]
  /\ RunServer' = TRUE
  /\ pc' = "dropPrivileges"
  /\ UNCHANGED <<filesystem, scan, ignored, handler, privileged, signalled>>

\* Without a descriptor or the address the process exits.
setupSocket ==
  /\ pc = "setupSocket"
  /\ \/ /\ Free # {}
        /\ ServerSocketFD' = LowestFree
        /\ fds' = [fds EXCEPT ![LowestFree] = [file |-> "socket", version |-> 1]]
        /\ pc' = "dropPrivileges"
     \/ /\ pc' = "exit"
        /\ UNCHANGED <<ServerSocketFD, fds>>
  /\ UNCHANGED <<filesystem, scan, ignored, handler, privileged, RunServer,
                 signalled>>

\* Mutant of dropPrivileges: a failure is reported and passed over.
dropPrivilegesLenient ==
  /\ pc = "dropPrivileges"
  /\ privileged' \in {privileged, FALSE}
  /\ pc' = "ServerLoop"
  /\ UNCHANGED <<filesystem, fds, scan, ServerSocketFD, ignored, handler,
                 RunServer, signalled>>

\* setgid and setuid may fail, and need a process that is root.  The user they
\* change to is the compiled-in RUNAS_USER_DEFAULT, which is not root.
dropPrivileges ==
  /\ pc = "dropPrivileges"
  /\ \/ privileged /\ privileged' = FALSE /\ pc' = "ServerLoop"
     \/ pc' = "exit" /\ UNCHANGED privileged
  /\ UNCHANGED <<filesystem, fds, scan, ServerSocketFD, ignored, handler,
                 RunServer, signalled>>

\* The loop as init sees it: it serves until RunServer is false.
ServerLoop ==
  /\ pc = "ServerLoop"
  /\ ~RunServer
  /\ pc' = "stopped"
  /\ UNCHANGED <<filesystem, fds, scan, process>>

ServerStep ==
  \/ mapStaticFSData \/ initFiles \/ Open \/ getFileEtag
  \/ disableSignals \/ setTerminationHandler \/ setupSocket \/ dropPrivileges
  \/ ServerLoop

Next ==
  \/ \E f \in File : Change(f)
  \/ terminate \/ Interrupt
  \/ ServerStep

Spec == Init /\ [][Next]_vars

\* init is one thread and waits for nothing but the end of its loop.
FairSpec == Spec /\ WF_vars(ServerStep)

-----------------------------------------------------------------------------
TypeOK ==
  /\ disk \in [File -> Nat]
  /\ changes \in 0 .. MaxChanges
  /\ touched \subseteq File
  /\ fds \in [FD -> OpenFile \cup {None}]
  /\ todo \subseteq Host
  /\ mapped \subseteq Host
  /\ _Files \in Seq(File)
  /\ fd \in FD \cup {0}
  /\ _FilesExtended \in [Host -> [File -> FileProperties_t \cup {None}]]
  /\ ServerSocketFD \in FD \cup {0}
  /\ ignored \in BOOLEAN /\ handler \in BOOLEAN /\ privileged \in BOOLEAN
  /\ RunServer \in BOOLEAN /\ signalled \in BOOLEAN

Entries(h) == {f \in File : _FilesExtended[h][f] # None}

(***************************************************************************)
(* Whatever happens to other files, and however few descriptors there are, *)
(* a file nobody touches is served by every namespace that has been mapped *)
(* and has it: its entry has a descriptor, size and ETag of its content.   *)
(* (Start-up exits before it passes a file over for want of descriptors.)  *)
(***************************************************************************)
StableServed ==
  \A h \in mapped : \A f \in File \ touched :
    /\ disk[f] # Absent
    /\ Dir[f] = Path[h]
    /\ Extension[f] \in Range(Mimetypes)
    => /\ f \in Entries(h)
       /\ LET e == _FilesExtended[h][f]
          IN  /\ fds[e.Filedescriptor] = [file |-> f, version |-> disk[f]]
              /\ e.FileSize = disk[f]
              /\ e.ETag = disk[f]

(***************************************************************************)
(* No descriptor is leaked or shared: the open ones are those of the       *)
(* entries, of the file being processed and of the socket, each of one     *)
(* owner, and an entry's descriptor is open on the file it is listed for.  *)
(***************************************************************************)
DescriptorsOwned ==
  LET owned == {o \in Host \X File : o[2] \in Entries(o[1])}
      fdOf(o) == _FilesExtended[o[1]][o[2]].Filedescriptor
      others == {fd, ServerSocketFD} \ {0}
  IN  /\ FD \ Free = {fdOf(o) : o \in owned} \cup others
      /\ \A o \in owned : fdOf(o) \notin others
      /\ \A o, q \in owned : fdOf(o) = fdOf(q) => o = q
      /\ \A o \in owned : fds[fdOf(o)].file = o[2]

(***************************************************************************)
(* The ETag is never that of an older content than the descriptor's: it is *)
(* computed after the file was opened.  (It may be that of a newer one.)   *)
(***************************************************************************)
EtagNotOlder ==
  \A h \in Host : \A f \in Entries(h) :
    _FilesExtended[h][f].ETag >= _FilesExtended[h][f].FileSize

(***************************************************************************)
(* The loop runs only with everything in place: all namespaces mapped, the *)
(* socket open, signals handled, and never with root's privileges.         *)
(***************************************************************************)
ServesPrepared ==
  pc = "ServerLoop" =>
    /\ mapped = Host
    /\ ServerSocketFD # 0
    /\ ignored /\ handler
    /\ ~privileged

(***************************************************************************)
(* SIGTERM is never lost: whenever it arrives, before or after its handler *)
(* is set, during start-up or in the loop, the process ends.               *)
(***************************************************************************)
TermEnds == signalled ~> pc \in Over
=============================================================================
