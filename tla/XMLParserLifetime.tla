-------------------------- MODULE XMLParserLifetime --------------------------
(***************************************************************************)
(* Constructor and destructor of XMLParser (lib/xml/xmlparser.cpp) in      *)
(* several threads.  The parsers of a process share Xerces: the first one  *)
(* initialises it and the last one terminates it, counted by the atomic    *)
(* XercesRefCount.  The count and the call it decides on are two steps.    *)
(* One thread, User, also calls parse on its parser.                       *)
(***************************************************************************)
EXTENDS XMLParser

CONSTANTS
  Threads, User

ASSUME LifetimeAssumption == User \in Threads

VARIABLES
  XercesRefCount,
  xerces,     \* how often Xerces is initialised: it counts, too
  life        \* of each thread's parser: none, initialize, build, alive,
              \* terminate

lifetime == <<XercesRefCount, xerces, life>>

LifetimeInit ==
  /\ Init
  /\ XercesRefCount = 0
  /\ xerces = 0
  /\ life = [t \in Threads |-> "none"]

\* The constructor up to its test: XercesRefCount.fetch_add(1) == 0.
Construct(t) ==
  /\ life[t] = "none"
  /\ XercesRefCount' = XercesRefCount + 1
  /\ life' = [life EXCEPT ![t] = IF XercesRefCount = 0 THEN "initialize"
                                 ELSE "build"]
  /\ UNCHANGED xerces

Initialize(t) ==
  /\ life[t] = "initialize"
  /\ xerces' = xerces + 1
  /\ life' = [life EXCEPT ![t] = "build"]
  /\ UNCHANGED XercesRefCount

\* The grammar pool is made, filled and locked.
Build(t) ==
  /\ life[t] = "build"
  /\ life' = [life EXCEPT ![t] = "alive"]
  /\ UNCHANGED <<XercesRefCount, xerces>>

\* Mutant of Destroy: Xerces is terminated when one parser is left.
DestroyEarly(t) ==
  /\ life[t] = "alive"
  /\ XercesRefCount' = XercesRefCount - 1
  /\ life' = [life EXCEPT ![t] = IF XercesRefCount <= 2 THEN "terminate"
                                 ELSE "none"]
  /\ UNCHANGED xerces

\* The destructor up to its test: XercesRefCount.fetch_sub(1) == 1.  The
\* grammar pool has gone before.
Destroy(t) ==
  /\ life[t] = "alive"
  /\ XercesRefCount' = XercesRefCount - 1
  /\ life' = [life EXCEPT ![t] = IF XercesRefCount = 1 THEN "terminate"
                                 ELSE "none"]
  /\ UNCHANGED xerces

Terminate(t) ==
  /\ life[t] = "terminate"
  /\ xerces' = xerces - 1
  /\ life' = [life EXCEPT ![t] = "none"]
  /\ UNCHANGED XercesRefCount

Live(t) ==
  \/ /\ Construct(t)
     /\ IF t = User THEN _ParseBufferSize' \in ParseBufferSize
        ELSE UNCHANGED _ParseBufferSize
     /\ UNCHANGED <<pc, Input, Cursor, LastEnd, Slice, FramingError, Results,
                    ErrorCode>>
  \/ /\ Initialize(t) \/ Build(t) \/ Terminate(t)
     /\ UNCHANGED vars
  \/ /\ t = User => pc = "idle"
     /\ Destroy(t)
     /\ UNCHANGED vars

LifetimeNext ==
  \/ \E t \in Threads : Live(t)
  \/ life[User] = "alive" /\ Next /\ UNCHANGED lifetime

LifetimeSpec == LifetimeInit /\ [][LifetimeNext]_<<vars, lifetime>>

-----------------------------------------------------------------------------
In(state) == {t \in Threads : life[t] = state}

(***************************************************************************)
(* Xerces is there for every parser, and for a parse in progress, whatever *)
(* other threads construct and destroy: it is never terminated under a     *)
(* parser.  The exception the code makes is the start: a parser that comes *)
(* second does not wait until the first one has called Initialize.  When   *)
(* no such call is outstanding, Xerces is initialised once if there is a   *)
(* parser, and not at all otherwise.                                       *)
(***************************************************************************)
XercesOutlivesParsers ==
  LET parsers == In("build") \cup In("alive")
  IN  /\ parsers # {} => xerces > 0 \/ In("initialize") # {}
      /\ In("initialize") \cup In("terminate") = {} =>
           xerces = IF parsers = {} THEN 0 ELSE 1
=============================================================================
