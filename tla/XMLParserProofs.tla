--------------------------- MODULE XMLParserProofs ---------------------------
(***************************************************************************)
(* Proofs about XMLParser and XMLParserLifetime, for any buffers, sizes    *)
(* and threads.                                                            *)
(***************************************************************************)
EXTENDS XMLParserLifetime, ListLemmas, FiniteSetTheorems

-----------------------------------------------------------------------------
(***************************************************************************)
(* The inductive invariant of the parser.                                  *)
(***************************************************************************)
Running == {"split", "parse", "end"}

\* Where the messages parsed so far end, if the first one begins at lead.
Reached(lead) == lead + Len(Valid) * Len(Results)

\* They are the results, and they are adjacent.
Parsed(lead) ==
  /\ Chain(lead, Len(Results))
  /\ Results = [k \in 1 .. Len(Results) |-> NthSlice(lead, k)]

\* The generator goes on where the last message ended.
Resumes(lead) ==
  IF Results = <<>> THEN Cursor = 0 /\ LastEnd = Nowhere
  ELSE Cursor = Reached(lead) /\ LastEnd = Reached(lead)

\* What it has yielded begins where the last message ended, and ends with the
\* first end marker behind that.
Yielded(lead) ==
  /\ Slice.from = Reached(lead)
  /\ Slice.from + 1 < Slice.to
  /\ Input[Slice.from + 1] = "open"
  /\ Input[Slice.to] = "close"
  /\ \A j \in Slice.from + 1 .. Slice.to - 1 : Input[j] # "close"
  /\ Cursor = Slice.to /\ LastEnd = Slice.to

\* A start marker does not follow the last message.
Torn(lead) ==
  /\ Results # <<>>
  /\ Reached(lead) < Len(Input)
  /\ Input[Reached(lead) + 1] # "open"
  /\ \E j \in Reached(lead) + 1 .. Len(Input) : Input[j] = "open"

RunInv ==
  pc \in Running =>
    /\ Len(Input) <= _ParseBufferSize
    /\ ErrorCode = "none"
    /\ pc # "end" => ~FramingError
    /\ \E lead \in Offset :
         /\ Parsed(lead)
         /\ pc = "split" => Resumes(lead)
         /\ pc = "parse" => Yielded(lead)
         /\ pc = "end" => IF FramingError THEN Torn(lead)
                          ELSE Clean(lead, Len(Results))

ParseInv ==
  /\ TypeOK
  /\ RunInv
  /\ ParseExact
  /\ FirstFaultReported

(***************************************************************************)
(* The inductive invariant of the parsers' lifetimes.                      *)
(***************************************************************************)
Phase == {"none", "initialize", "build", "alive", "terminate"}

\* The parsers XercesRefCount counts.
Counted == In("initialize") \cup In("build") \cup In("alive")

\* Calls of Initialize that are still to come make up for those of Terminate.
CountInv ==
  /\ IsFiniteSet(Counted) /\ IsFiniteSet(In("terminate"))
  /\ XercesRefCount = Cardinality(Counted)
  /\ xerces + Cardinality(In("initialize")) =
       Cardinality(In("terminate")) + (IF Counted = {} THEN 0 ELSE 1)

LifetimeInv ==
  /\ life \in [Threads -> Phase]
  /\ xerces \in Int
  /\ CountInv
  /\ life[User] # "alive" => pc = "idle"

Inv == ParseInv /\ LifetimeInv

-----------------------------------------------------------------------------
(***************************************************************************)
(* The lifetimes.                                                          *)
(***************************************************************************)
\* A thread moves from one phase to another.
LEMMA PhaseMoves ==
  ASSUME life \in [Threads -> Phase], NEW t \in Threads, NEW p \in Phase,
         life' = [life EXCEPT ![t] = p]
  PROVE  /\ life' \in [Threads -> Phase]
         /\ life'[t] = p
         /\ \A u \in Threads : u # t => life'[u] = life[u]
  OBVIOUS

\* Adding a thread to a finite set of them, and taking one out, counts by one.
LEMMA CountsByOne ==
  ASSUME NEW S, IsFiniteSet(S), NEW t
  PROVE  /\ Cardinality(S) \in Nat
         /\ S = {} <=> Cardinality(S) = 0
         /\ IsFiniteSet(S \cup {t}) /\ IsFiniteSet(S \ {t})
         /\ t \notin S => Cardinality(S \cup {t}) = Cardinality(S) + 1
         /\ t \in S => Cardinality(S \ {t}) = Cardinality(S) - 1
         /\ t \notin S => S \ {t} = S
  BY FS_CardinalityType, FS_EmptySet, FS_AddElement, FS_RemoveElement

\* The constructor counts its parser; the first one is to call Initialize.
LEMMA CountConstruct ==
  ASSUME LifetimeInv, NEW t \in Threads, Construct(t)
  PROVE  CountInv' /\ xerces' \in Int /\ life' \in [Threads -> Phase]
<1> DEFINE I == In("initialize")
           B == In("build")
           A == In("alive")
           T == In("terminate")
           C == Counted
<1>1. /\ life \in [Threads -> Phase] /\ xerces \in Int
      /\ IsFiniteSet(C) /\ IsFiniteSet(T)
      /\ XercesRefCount = Cardinality(C)
      /\ xerces + Cardinality(I) = Cardinality(T) + (IF C = {} THEN 0 ELSE 1)
  BY DEF LifetimeInv, CountInv
<1>2. /\ life[t] = "none" /\ XercesRefCount' = XercesRefCount + 1
      /\ life' = [life EXCEPT ![t] = IF XercesRefCount = 0 THEN "initialize"
                                     ELSE "build"]
      /\ xerces' = xerces
  BY DEF Construct
<1>3. t \notin I /\ t \notin B /\ t \notin A /\ t \notin T /\ t \notin C
  BY <1>2 DEF In, Counted
<1>4. /\ life' \in [Threads -> Phase]
      /\ life'[t] = IF XercesRefCount = 0 THEN "initialize" ELSE "build"
      /\ \A u \in Threads : u # t => life'[u] = life[u]
  BY <1>1, <1>2, PhaseMoves DEF Phase
<1>5. /\ XercesRefCount = 0 => I' = I \cup {t}
      /\ XercesRefCount # 0 => I' = I
  BY <1>3, <1>4 DEF In
<1>6. A' = A /\ T' = T
  BY <1>3, <1>4 DEF In
<1>7. I' \cup B' = I \cup B \cup {t}
  BY <1>3, <1>4 DEF In
<1>8. C = I \cup B \cup A /\ C' = C \cup {t}
  BY <1>6, <1>7 DEF Counted
<1>9. /\ Cardinality(C) \in Nat /\ (C = {} <=> Cardinality(C) = 0)
      /\ IsFiniteSet(C') /\ Cardinality(C') = Cardinality(C) + 1 /\ C' # {}
      /\ Cardinality(T) \in Nat
  <2>1. C' # {} /\ Cardinality(T) \in Nat
    BY <1>1, <1>8, FS_CardinalityType
  <2> QED  BY <1>1, <1>3, <1>8, <2>1, CountsByOne
<1>10. CASE XercesRefCount = 0
  <2>1. C = {} /\ I = {} /\ I' = {t}
    BY <1>1, <1>5, <1>8, <1>9, <1>10
  <2>2. Cardinality(I) = 0 /\ Cardinality(I') = 1
    BY <2>1, FS_EmptySet, FS_Singleton
  <2>3. xerces' + Cardinality(I') = Cardinality(T') + 1
    BY <1>1, <1>2, <1>6, <1>9, <2>1, <2>2
  <2> QED  BY <1>1, <1>2, <1>4, <1>6, <1>9, <2>3 DEF CountInv
<1>11. CASE XercesRefCount # 0
  <2>1. C # {} /\ I' = I
    BY <1>1, <1>5, <1>9, <1>11
  <2>2. xerces' + Cardinality(I') = Cardinality(T') + 1
    BY <1>1, <1>2, <1>6, <2>1
  <2> QED  BY <1>1, <1>2, <1>4, <1>6, <1>9, <2>2 DEF CountInv
<1> QED  BY <1>10, <1>11

\* Initialize, Build, Destroy and Terminate move the call they stand for from the
\* balance to xerces or back.
LEMMA CountInitialize ==
  ASSUME LifetimeInv, NEW t \in Threads, Initialize(t)
  PROVE  CountInv' /\ xerces' \in Int /\ life' \in [Threads -> Phase]
<1> DEFINE I == In("initialize")
           T == In("terminate")
           C == Counted
<1>1. /\ life \in [Threads -> Phase] /\ xerces \in Int
      /\ IsFiniteSet(C) /\ IsFiniteSet(T)
      /\ XercesRefCount = Cardinality(C)
      /\ xerces + Cardinality(I) = Cardinality(T) + (IF C = {} THEN 0 ELSE 1)
  BY DEF LifetimeInv, CountInv
<1>2. /\ life[t] = "initialize" /\ XercesRefCount' = XercesRefCount
      /\ life' = [life EXCEPT ![t] = "build"] /\ xerces' = xerces + 1
  BY DEF Initialize
<1>3. t \in I /\ t \notin In("alive") /\ t \notin T
  BY <1>2 DEF In
<1>4. /\ life' \in [Threads -> Phase]
      /\ In("build")' = In("build") \cup {t} /\ I' = I \ {t}
      /\ In("alive")' = In("alive") /\ T' = T
  <2>1. /\ life' \in [Threads -> Phase] /\ life'[t] = "build"
        /\ \A u \in Threads : u # t => life'[u] = life[u]
    BY <1>1, <1>2, PhaseMoves DEF Phase
  <2> QED  BY <1>3, <2>1 DEF In
<1>5. C' = C /\ I \subseteq C
  BY <1>3, <1>4 DEF Counted
<1>6. IsFiniteSet(I)
  BY <1>1, <1>5, FS_Subset
<1>7. Cardinality(I) \in Nat /\ Cardinality(I') = Cardinality(I) - 1 /\ Cardinality(T) \in Nat
  <2>1. Cardinality(T) \in Nat
    BY <1>1, FS_CardinalityType
  <2>2. Cardinality(I) \in Nat /\ Cardinality(I \ {t}) = Cardinality(I) - 1
    BY <1>3, <1>6, CountsByOne
  <2> QED  BY <1>4, <2>1, <2>2
<1>8. xerces' + Cardinality(I') = xerces + Cardinality(I)
  BY <1>1, <1>2, <1>7
<1> QED  BY <1>1, <1>2, <1>4, <1>5, <1>8 DEF CountInv

\* A parser that builds its grammar pool is counted before and after.
LEMMA CountBuild ==
  ASSUME LifetimeInv, NEW t \in Threads, Build(t)
  PROVE  CountInv' /\ xerces' \in Int /\ life' \in [Threads -> Phase]
<1>1. life \in [Threads -> Phase] /\ xerces \in Int /\ CountInv
  BY DEF LifetimeInv
<1>2. /\ life[t] = "build" /\ life' = [life EXCEPT ![t] = "alive"]
      /\ XercesRefCount' = XercesRefCount /\ xerces' = xerces
  BY DEF Build
<1>3. t \in In("build") /\ t \notin In("initialize") /\ t \notin In("terminate")
  BY <1>2 DEF In
<1>4. /\ life' \in [Threads -> Phase]
      /\ In("alive")' = In("alive") \cup {t} /\ In("build")' = In("build") \ {t}
      /\ In("initialize")' = In("initialize") /\ In("terminate")' = In("terminate")
  <2>1. /\ life' \in [Threads -> Phase] /\ life'[t] = "alive"
        /\ \A u \in Threads : u # t => life'[u] = life[u]
    BY <1>1, <1>2, PhaseMoves DEF Phase
  <2> QED  BY <1>3, <2>1 DEF In
<1>5. Counted' = Counted
  BY <1>3, <1>4 DEF Counted
<1> QED  BY <1>1, <1>2, <1>4, <1>5 DEF CountInv

\* fetch_sub uncounts a parser; the last one is to call Terminate.
LEMMA CountDestroy ==
  ASSUME LifetimeInv, NEW t \in Threads, Destroy(t)
  PROVE  CountInv' /\ xerces' \in Int /\ life' \in [Threads -> Phase]
<1> DEFINE I == In("initialize")
           B == In("build")
           A == In("alive")
           T == In("terminate")
           C == Counted
<1>1. /\ life \in [Threads -> Phase] /\ xerces \in Int
      /\ IsFiniteSet(C) /\ IsFiniteSet(T)
      /\ XercesRefCount = Cardinality(C)
      /\ xerces + Cardinality(I) = Cardinality(T) + (IF C = {} THEN 0 ELSE 1)
  BY DEF LifetimeInv, CountInv
<1>2. /\ life[t] = "alive" /\ XercesRefCount' = XercesRefCount - 1
      /\ life' = [life EXCEPT ![t] = IF XercesRefCount = 1 THEN "terminate"
                                     ELSE "none"]
      /\ xerces' = xerces
  BY DEF Destroy
<1>3. t \notin I /\ t \notin B /\ t \in A /\ t \notin T /\ t \in C
  BY <1>2 DEF In, Counted
<1>4. /\ life' \in [Threads -> Phase]
      /\ life'[t] = IF XercesRefCount = 1 THEN "terminate" ELSE "none"
      /\ \A u \in Threads : u # t => life'[u] = life[u]
  BY <1>1, <1>2, PhaseMoves DEF Phase
<1>5. /\ XercesRefCount = 1 => T' = T \cup {t}
      /\ XercesRefCount # 1 => T' = T
  BY <1>3, <1>4 DEF In
<1>6. I' = I /\ B' = B /\ A' = A \ {t}
  BY <1>3, <1>4 DEF In
<1>7. C' = C \ {t}
  BY <1>3, <1>6 DEF Counted
<1>8. /\ Cardinality(C) \in Nat /\ IsFiniteSet(C') /\ Cardinality(C') = Cardinality(C) - 1
      /\ Cardinality(T) \in Nat /\ C # {}
      /\ IsFiniteSet(T \cup {t}) /\ Cardinality(T \cup {t}) = Cardinality(T) + 1
  BY <1>1, <1>3, <1>7, CountsByOne
<1>9. C' = {} <=> Cardinality(C') = 0
  BY <1>8, CountsByOne
<1>10. CASE XercesRefCount = 1
  <2>1. C' = {} /\ T' = T \cup {t}
    BY <1>1, <1>5, <1>8, <1>9, <1>10
  <2>2. xerces' + Cardinality(I') = Cardinality(T') + 0
    BY <1>1, <1>2, <1>6, <1>8, <2>1
  <2> QED  BY <1>1, <1>2, <1>4, <1>8, <2>1, <2>2 DEF CountInv
<1>11. CASE XercesRefCount # 1
  <2>1. C' # {} /\ T' = T
    BY <1>1, <1>5, <1>8, <1>9, <1>11
  <2>2. xerces' + Cardinality(I') = Cardinality(T') + 1
    BY <1>1, <1>2, <1>6, <1>8, <2>1
  <2> QED  BY <1>1, <1>2, <1>4, <1>8, <2>1, <2>2 DEF CountInv
<1> QED  BY <1>10, <1>11

\* A call of Terminate makes up for one of Initialize.
LEMMA CountTerminate ==
  ASSUME LifetimeInv, NEW t \in Threads, Terminate(t)
  PROVE  CountInv' /\ xerces' \in Int /\ life' \in [Threads -> Phase]
<1> DEFINE I == In("initialize")
           T == In("terminate")
           C == Counted
<1>1. /\ life \in [Threads -> Phase] /\ xerces \in Int
      /\ IsFiniteSet(C) /\ IsFiniteSet(T)
      /\ XercesRefCount = Cardinality(C)
      /\ xerces + Cardinality(I) = Cardinality(T) + (IF C = {} THEN 0 ELSE 1)
  BY DEF LifetimeInv, CountInv
<1>2. /\ life[t] = "terminate" /\ XercesRefCount' = XercesRefCount
      /\ life' = [life EXCEPT ![t] = "none"] /\ xerces' = xerces - 1
  BY DEF Terminate
<1>3. t \notin I /\ t \notin In("build") /\ t \notin In("alive") /\ t \in T
  BY <1>2 DEF In
<1>4. /\ life' \in [Threads -> Phase]
      /\ I' = I /\ In("build")' = In("build")
      /\ In("alive")' = In("alive") /\ T' = T \ {t}
  <2>1. /\ life' \in [Threads -> Phase] /\ life'[t] = "none"
        /\ \A u \in Threads : u # t => life'[u] = life[u]
    BY <1>1, <1>2, PhaseMoves DEF Phase
  <2> QED  BY <1>3, <2>1 DEF In
<1>5. C' = C /\ I \subseteq C
  BY <1>3, <1>4 DEF Counted
<1>6. IsFiniteSet(I)
  BY <1>1, <1>5, FS_Subset
<1>7. /\ Cardinality(I) \in Nat /\ Cardinality(T) \in Nat
      /\ IsFiniteSet(T') /\ Cardinality(T') = Cardinality(T) - 1
  <2>1. Cardinality(I) \in Nat
    BY <1>6, FS_CardinalityType
  <2> QED  BY <1>1, <1>3, <1>4, <2>1, CountsByOne
<1>8. xerces' + Cardinality(I') = Cardinality(T') + (IF C = {} THEN 0 ELSE 1)
  BY <1>1, <1>2, <1>4, <1>7
<1> QED  BY <1>1, <1>2, <1>4, <1>5, <1>7, <1>8 DEF CountInv

\* A step of a thread's parser keeps the balance, and the parser of User lives as
\* long as a parse is in progress.
LEMMA LifetimeLive ==
  ASSUME LifetimeInv, NEW t \in Threads, Live(t)
  PROVE  LifetimeInv'
<1>1. CountInv' /\ xerces' \in Int /\ life' \in [Threads -> Phase]
  BY CountConstruct, CountInitialize, CountBuild, CountDestroy, CountTerminate DEF Live
<1>2. life \in [Threads -> Phase] /\ User \in Threads /\ (life[User] # "alive" => pc = "idle")
  BY LifetimeAssumption DEF LifetimeInv
<1>3. pc' = pc
  BY DEF Live, vars
<1>4. ASSUME life'[User] # "alive"  PROVE pc = "idle"
  <2>1. CASE t = User /\ Destroy(t)
    BY <2>1 DEF Live, Destroy, Construct, Initialize, Build, Terminate
  <2>2. CASE t # User
    <3>1. life'[User] = life[User]
      BY <1>2, <2>2 DEF Live, Construct, Initialize, Build, Destroy, Terminate
    <3> QED  BY <1>2, <1>4, <3>1
  <2>3. CASE t = User /\ ~Destroy(t)
    <3>1. life[User] # "alive"
      BY <2>3 DEF Live, Construct, Initialize, Build, Terminate
    <3> QED  BY <1>2, <3>1
  <2> QED  BY <2>1, <2>2, <2>3
<1> QED  BY <1>1, <1>3, <1>4 DEF LifetimeInv

\* A step of parse leaves the lifetimes alone.
LEMMA LifetimeParse ==
  ASSUME LifetimeInv, life[User] = "alive" \/ pc' = pc, UNCHANGED lifetime
  PROVE  LifetimeInv'
<1>1. UNCHANGED <<XercesRefCount, xerces, life>>
  BY DEF lifetime
<1>2. \A q : In(q)' = In(q)
  BY <1>1 DEF In
<1>3. Counted' = Counted
  BY <1>2 DEF Counted
<1> QED  BY <1>1, <1>2, <1>3 DEF LifetimeInv, CountInv

-----------------------------------------------------------------------------
(***************************************************************************)
(* Messages by their places in the buffer.                                 *)
(***************************************************************************)
\* A valid message lies behind the first p symbols.
MessageAt(p) ==
  /\ p + 3 <= Len(Input)
  /\ Input[p + 1] = "open" /\ Input[p + 2] = "leaf" /\ Input[p + 3] = "close"

\* Input.find returns the first place at or behind from, if there is one.
LEMMA FindFirst ==
  ASSUME Input \in Seq(Symbol), NEW marker, NEW from \in Nat
  PROVE  LET k == Find(marker, from)
         IN  \/ /\ k = Nowhere
                /\ \A j \in from + 1 .. Len(Input) : Input[j] # marker
             \/ /\ k \in Nat /\ from <= k /\ k < Len(Input) /\ k # Nowhere
                /\ Input[k + 1] = marker
                /\ \A j \in from + 1 .. k : Input[j] # marker
<1> DEFINE found == {k \in from .. Len(Input) - 1 : Input[k + 1] = marker}
           k == Find(marker, from)
<1>0. Len(Input) \in Nat
  OBVIOUS
<1>1. \A j \in from + 1 .. Len(Input) :
        Input[j] = marker => j - 1 \in found
  <2> SUFFICES ASSUME NEW j \in from + 1 .. Len(Input), Input[j] = marker
               PROVE  j - 1 \in found
    OBVIOUS
  <2>1. j - 1 \in from .. Len(Input) - 1 /\ (j - 1) + 1 = j
    BY <1>0
  <2> QED  BY <2>1
<1>2. \A i \in found : i \in Nat /\ from <= i /\ i < Len(Input) /\ Input[i + 1] = marker
  BY <1>0
<1>3. k = IF found = {} THEN Nowhere
          ELSE CHOOSE i \in found : \A j \in found : i <= j
  BY DEF Find
<1> HIDE DEF found, k
<1>4. CASE found = {}
  BY <1>1, <1>3, <1>4 DEF k
<1>5. CASE found # {}
  <2>1. found \subseteq Nat
    BY <1>2
  <2>2. \E i \in found : \A j \in found : i <= j
    BY <1>5, <2>1, LowestExists
  <2>3. k \in found /\ \A j \in found : k <= j
    BY <1>3, <1>5, <2>2
  <2>4. k \in Nat /\ from <= k /\ k < Len(Input) /\ Input[k + 1] = marker
    BY <1>2, <2>3
  <2>5. ASSUME NEW j \in from + 1 .. k, Input[j] = marker  PROVE FALSE
    <3>1. j \in from + 1 .. Len(Input)
      BY <1>0, <2>4
    <3>2. k <= j - 1
      BY <1>1, <2>3, <2>5, <3>1
    <3> QED  BY <2>4, <3>2
  <2>6. k # Nowhere
    BY <2>4, XMLAssumption
  <2> QED  BY <2>4, <2>5, <2>6 DEF k
<1> QED  BY <1>4, <1>5

\* Three symbols of the buffer are those of a valid message.
LEMMA ValidPlaces ==
  ASSUME Input \in Seq(Symbol), NEW p \in Nat, p + 3 <= Len(Input)
  PROVE  SubSeq(Input, p + 1, p + 3) = Valid <=> MessageAt(p)
<1> DEFINE t == SubSeq(Input, p + 1, p + 3)
<1>1. Len(Input) \in Nat
  OBVIOUS
<1>2. t \in Seq(Symbol) /\ Len(t) = 3
      /\ \A j \in 1 .. 3 : t[j] = Input[((p + 1) + j) - 1]
  <2>1. p + 1 \in Nat /\ p + 3 \in Nat /\ 1 <= p + 1 /\ p + 1 <= (p + 3) + 1
    OBVIOUS
  <2>2. ((p + 3) - (p + 1)) + 1 = 3
    OBVIOUS
  <2> QED  BY <2>1, <2>2, PartMembers
<1> HIDE DEF t
<1>3. t[1] = Input[p + 1] /\ t[2] = Input[p + 2] /\ t[3] = Input[p + 3]
  <2>1. /\ ((p + 1) + 1) - 1 = p + 1 /\ ((p + 1) + 2) - 1 = p + 2
        /\ ((p + 1) + 3) - 1 = p + 3
    OBVIOUS
  <2> QED  BY <1>2, <2>1
<1>4. Valid \in Seq(Symbol) /\ Len(Valid) = 3 /\ Valid[1] = "open" /\ Valid[2] = "leaf"
      /\ Valid[3] = "close"
  BY DEF Valid, Symbol
<1>5. t = Valid <=> t[1] = "open" /\ t[2] = "leaf" /\ t[3] = "close"
  <2>1. ASSUME t[1] = "open", t[2] = "leaf", t[3] = "close"  PROVE t = Valid
    <3>1. \A j \in 1 .. 3 : t[j] = Valid[j]
      BY <1>4, <2>1
    <3> QED  BY <1>2, <1>4, <3>1, SeqEqual
  <2> QED  BY <1>4, <2>1
<1> QED  BY <1>3, <1>5 DEF MessageAt, t

\* A chain of messages, by the places of its symbols.
LEMMA ChainPlaces ==
  ASSUME Input \in Seq(Symbol), NEW lead \in Nat, NEW n \in Nat
  PROVE  Chain(lead, n) <=>
           /\ lead + 3 * n <= Len(Input)
           /\ \A j \in 1 .. lead : Input[j] # "open"
           /\ \A k \in 1 .. n : MessageAt(lead + 3 * (k - 1))
<1>0. Len(Valid) = 3 /\ Len(Input) \in Nat
  BY DEF Valid
<1>1. ASSUME lead + 3 * n <= Len(Input)
      PROVE  "open" \notin Range(SubSeq(Input, 1, lead)) <=>
               \A j \in 1 .. lead : Input[j] # "open"
  <2>1. 1 <= lead + 1 /\ lead <= Len(Input)
    BY <1>0, <1>1
  <2>2. "open" \in Range(SubSeq(Input, 1, lead)) <=>
          \E j \in 1 .. lead : Input[j] = "open"
    BY <2>1, PartMembers
  <2> QED  BY <2>2
<1>2. ASSUME lead + 3 * n <= Len(Input), NEW k \in 1 .. n
      PROVE  Symbols(NthSlice(lead, k)) = Valid <=> MessageAt(lead + 3 * (k - 1))
  <2> DEFINE p == lead + 3 * (k - 1)
  <2>1. p \in Nat /\ p + 3 <= Len(Input) /\ p + 3 = lead + 3 * k
    BY <1>0, <1>2
  <2>2. Symbols(NthSlice(lead, k)) = SubSeq(Input, p + 1, p + 3)
    BY <1>0, <2>1 DEF Symbols, NthSlice
  <2> HIDE DEF p
  <2>3. SubSeq(Input, p + 1, p + 3) = Valid <=> MessageAt(p)
    BY <2>1, ValidPlaces
  <2> QED  BY <2>2, <2>3 DEF p
<1> QED  BY <1>0, <1>1, <1>2 DEF Chain

\* The rest of the buffer behind a place.
LEMMA TailPlaces ==
  ASSUME Input \in Seq(Symbol), NEW at \in Nat, at <= Len(Input)
  PROVE  LET tail == SubSeq(Input, at + 1, Len(Input))
         IN  /\ \A x : x \in Range(tail) <=> \E j \in at + 1 .. Len(Input) : Input[j] = x
             /\ at < Len(Input) => tail[1] = Input[at + 1]
<1> DEFINE tail == SubSeq(Input, at + 1, Len(Input))
<1>0. /\ Len(Input) \in Nat /\ at + 1 \in Nat /\ 1 <= at + 1
      /\ at + 1 <= Len(Input) + 1 /\ Len(Input) <= Len(Input)
  OBVIOUS
<1>1. /\ \A j \in 1 .. (Len(Input) - (at + 1)) + 1 : tail[j] = Input[((at + 1) + j) - 1]
      /\ \A x : x \in Range(tail) <=> \E j \in at + 1 .. Len(Input) : Input[j] = x
  BY <1>0, PartMembers
<1>2. at < Len(Input) => /\ 1 \in 1 .. (Len(Input) - (at + 1)) + 1
                         /\ ((at + 1) + 1) - 1 = at + 1
  BY <1>0
<1> QED  BY <1>1, <1>2

\* A chain with nothing behind it but an incomplete message.
LEMMA CleanPlaces ==
  ASSUME Input \in Seq(Symbol), NEW lead \in Nat, NEW n \in Nat
  PROVE  Clean(lead, n) <=>
           /\ Chain(lead, n)
           /\ LET at == lead + 3 * n
              IN  \/ \A j \in at + 1 .. Len(Input) : Input[j] # "open"
                  \/ /\ at < Len(Input)
                     /\ Input[at + 1] = "open"
                     /\ \A j \in at + 1 .. Len(Input) : Input[j] # "close"
<1> DEFINE at == lead + 3 * n
           tail == SubSeq(Input, at + 1, Len(Input))
<1>0. Len(Valid) = 3 /\ Len(Input) \in Nat
  BY DEF Valid
<1>1. Chain(lead, n) => at <= Len(Input)
  BY ChainPlaces
<1>2. Clean(lead, n) <=>
        /\ Chain(lead, n)
        /\ \/ "open" \notin Range(tail)
           \/ tail[1] = "open" /\ "close" \notin Range(tail)
  BY <1>0 DEF Clean
<1>3. at \in Nat
  OBVIOUS
<1>4. ASSUME at <= Len(Input)
      PROVE  /\ \A x : x \in Range(tail) <=> \E j \in at + 1 .. Len(Input) : Input[j] = x
             /\ at < Len(Input) => tail[1] = Input[at + 1]
  <2> HIDE DEF at
  <2> QED  BY <1>3, <1>4, TailPlaces
<1>5. at = Len(Input) => \A j \in at + 1 .. Len(Input) : FALSE
  BY <1>0, <1>3
<1> HIDE DEF at, tail
<1>6. ASSUME Chain(lead, n)
      PROVE  \/ "open" \notin Range(tail)
             \/ tail[1] = "open" /\ "close" \notin Range(tail)
             <=>
             \/ \A j \in at + 1 .. Len(Input) : Input[j] # "open"
             \/ /\ at < Len(Input)
                /\ Input[at + 1] = "open"
                /\ \A j \in at + 1 .. Len(Input) : Input[j] # "close"
  <2>1. CASE at < Len(Input)
    BY <1>1, <1>4, <1>6, <2>1
  <2>2. CASE at = Len(Input)
    BY <1>1, <1>4, <1>5, <1>6, <2>2
  <2> QED  BY <1>0, <1>1, <1>3, <1>6, <2>1, <2>2
<1> QED  BY <1>2, <1>6 DEF at

\* A message that has been yielded is valid when it is one content leaf long.
LEMMA ParsePlaces ==
  ASSUME Input \in Seq(Symbol), Slice \in SliceType, NEW lead, Yielded(lead)
  PROVE  /\ parseMessage(Slice) \in {"none", "syntax", "content"}
         /\ parseMessage(Slice) = "none" <=> MessageAt(Slice.from)
         /\ MessageAt(Slice.from) => Slice.to = Slice.from + 3
<1> DEFINE f == Slice.from
           g == Slice.to
           content == SubSeq(Input, f + 2, g - 1)
<1>1. /\ f \in Nat /\ g \in Nat /\ g <= Len(Input) /\ Len(Input) \in Nat
      /\ f + 1 < g
      /\ Input[f + 1] = "open" /\ Input[g] = "close"
      /\ \A j \in f + 1 .. g - 1 : Input[j] # "close"
  BY DEF SliceType, Offset, Yielded
<1>2. parseMessage(Slice) =
        IF Range(content) \cap {"open", "broken"} # {} THEN "syntax"
        ELSE IF content # <<"leaf">> THEN "content"
        ELSE "none"
  BY DEF parseMessage
<1>3. /\ content \in Seq(Symbol) /\ Len(content) = ((g - 1) - (f + 2)) + 1
      /\ \A j \in 1 .. ((g - 1) - (f + 2)) + 1 : content[j] = Input[((f + 2) + j) - 1]
  <2> HIDE DEF f, g
  <2>1. f + 2 \in Nat /\ g - 1 \in Nat /\ 1 <= f + 2 /\ f + 2 <= (g - 1) + 1
        /\ g - 1 <= Len(Input)
    BY <1>1
  <2> QED  BY <2>1, PartMembers
<1> HIDE DEF f, g, content
<1>4. <<"leaf">> \in Seq(Symbol) /\ Len(<<"leaf">>) = 1 /\ <<"leaf">>[1] = "leaf"
  BY DEF Symbol
<1>5. content = <<"leaf">> <=> Len(content) = 1 /\ content[1] = "leaf"
  <2>1. ASSUME Len(content) = 1, content[1] = "leaf"  PROVE content = <<"leaf">>
    <3>1. \A j \in 1 .. 1 : content[j] = <<"leaf">>[j]
      BY <1>4, <2>1
    <3> QED  BY <1>3, <1>4, <2>1, <3>1, SeqEqual
  <2> QED  BY <1>4, <2>1
<1>6. Len(content) = 1 <=> g = f + 3
  BY <1>1, <1>3
<1>7. g = f + 3 => content[1] = Input[f + 2]
  <2>1. g = f + 3 => /\ 1 \in 1 .. ((g - 1) - (f + 2)) + 1
                     /\ ((f + 2) + 1) - 1 = f + 2
    BY <1>1
  <2> QED  BY <1>3, <2>1
<1>8. MessageAt(f) => g = f + 3
  <2> SUFFICES ASSUME MessageAt(f)  PROVE g = f + 3
    OBVIOUS
  <2>1. f + 3 <= Len(Input) /\ Input[f + 3] = "close" /\ Input[f + 2] = "leaf"
    BY DEF MessageAt
  <2>2. f + 3 \notin f + 1 .. g - 1
    BY <1>1, <2>1
  <2>3. g <= f + 3
    BY <1>1, <2>2
  <2>4. g # f + 2
    BY <1>1, <2>1
  <2> QED  BY <1>1, <2>3, <2>4
<1>9. content = <<"leaf">> <=> MessageAt(f)
  <2>1. ASSUME content = <<"leaf">>  PROVE MessageAt(f)
    BY <1>1, <1>5, <1>6, <1>7, <2>1 DEF MessageAt
  <2>2. ASSUME MessageAt(f)  PROVE content = <<"leaf">>
    BY <1>5, <1>6, <1>7, <1>8, <2>2 DEF MessageAt
  <2> QED  BY <2>1, <2>2
<1>10. content = <<"leaf">> => Range(content) \cap {"open", "broken"} = {}
  <2> SUFFICES ASSUME content = <<"leaf">>
               PROVE  \A x \in Range(content) : x = "leaf"
    OBVIOUS
  <2>1. content \in Seq(Symbol) /\ Len(content) = 1 /\ content[1] = "leaf"
    BY <1>3, <1>5
  <2>2. ASSUME NEW x \in Range(content)  PROVE \E j \in 1 .. Len(content) : content[j] = x
    BY <2>1, RangeMember
  <2> QED  BY <2>1, <2>2
<1> QED  BY <1>2, <1>8, <1>9, <1>10 DEF f, g

\* What follows the start marker of the first message is settled: with a fault
\* behind a chain of messages there is no way to read the buffer as a clean one.
LEMMA FaultUnclean ==
  ASSUME Input \in Seq(Symbol), NEW lead \in Offset, NEW n \in Offset, Chain(lead, n),
         LET at == lead + 3 * n
         IN  /\ at < Len(Input)
             /\ \/ /\ Input[at + 1] = "open"
                   /\ \E c \in at + 1 .. Len(Input) : Input[c] = "close"
                   /\ ~MessageAt(at)
                \/ /\ n > 0 /\ Input[at + 1] # "open"
                   /\ \E j \in at + 1 .. Len(Input) : Input[j] = "open"
  PROVE  ~\E l, m \in Offset : Clean(l, m)
<1> SUFFICES ASSUME NEW l \in Offset, NEW m \in Offset, Clean(l, m)  PROVE FALSE
  OBVIOUS
<1>0. Len(Input) \in Nat /\ lead \in Nat /\ n \in Nat /\ l \in Nat /\ m \in Nat
  BY DEF Offset
<1> DEFINE at == lead + 3 * n
           end == l + 3 * m
<1>1. /\ at <= Len(Input) /\ at \in Nat
      /\ \A j \in 1 .. lead : Input[j] # "open"
      /\ \A k \in 1 .. n : MessageAt(lead + 3 * (k - 1))
  <2>1. at \in Nat
    BY <1>0
  <2>2. /\ lead + 3 * n <= Len(Input)
        /\ \A j \in 1 .. lead : Input[j] # "open"
        /\ \A k \in 1 .. n : MessageAt(lead + 3 * (k - 1))
    BY <1>0, ChainPlaces
  <2> QED  BY <2>1, <2>2
<1>2. /\ end <= Len(Input) /\ end \in Nat
      /\ \A j \in 1 .. l : Input[j] # "open"
      /\ \A k \in 1 .. m : MessageAt(l + 3 * (k - 1))
  <2>1. Chain(l, m)
    BY DEF Clean
  <2>2. end \in Nat
    BY <1>0
  <2>3. /\ l + 3 * m <= Len(Input)
        /\ \A j \in 1 .. l : Input[j] # "open"
        /\ \A k \in 1 .. m : MessageAt(l + 3 * (k - 1))
    BY <1>0, <2>1, ChainPlaces
  <2> QED  BY <2>2, <2>3
<1>3. \/ \A j \in end + 1 .. Len(Input) : Input[j] # "open"
      \/ /\ end < Len(Input)
         /\ Input[end + 1] = "open"
         /\ \A j \in end + 1 .. Len(Input) : Input[j] # "close"
  BY <1>0, CleanPlaces
<1>4. /\ lead < Len(Input) /\ Input[lead + 1] = "open"
      /\ \E c \in lead + 1 .. Len(Input) : Input[c] = "close"
  <2>1. CASE n = 0
    <3>1. at = lead
      BY <1>0, <2>1
    <3> QED  BY <2>1, <3>1
  <2>2. CASE n # 0
    <3>1. 1 \in 1 .. n /\ lead + 3 * (1 - 1) = lead
      BY <1>0, <2>2
    <3>2. MessageAt(lead)
      BY <1>1, <3>1
    <3>3. lead + 3 \in lead + 1 .. Len(Input)
      BY <1>0, <3>2 DEF MessageAt
    <3> QED  BY <1>0, <3>2, <3>3 DEF MessageAt
  <2> QED  BY <2>1, <2>2
<1>5. l <= lead
  <2>1. lead + 1 \notin 1 .. l
    BY <1>2, <1>4
  <2> QED  BY <1>0, <2>1
<1>6. m # 0 /\ l = lead
  <2>1. CASE m = 0
    <3>1. end = l
      BY <1>0, <2>1
    <3>2. lead + 1 \in l + 1 .. Len(Input)
      BY <1>0, <1>4, <1>5
    <3>3. /\ Input[l + 1] = "open" /\ l < Len(Input)
          /\ \A j \in l + 1 .. Len(Input) : Input[j] # "close"
      BY <1>3, <1>4, <3>1, <3>2
    <3>4. \A c \in lead + 1 .. Len(Input) : c \in l + 1 .. Len(Input)
      BY <1>0, <1>5
    <3> QED  BY <1>4, <3>3, <3>4
  <2>2. CASE m # 0
    <3>1. 1 \in 1 .. m /\ l + 3 * (1 - 1) = l
      BY <1>0, <2>2
    <3>2. Input[l + 1] = "open"
      BY <1>2, <3>1 DEF MessageAt
    <3>3. l + 1 \notin 1 .. lead
      BY <1>1, <3>2
    <3> QED  BY <1>0, <1>5, <2>2, <3>3
  <2> QED  BY <2>1, <2>2
<1>7. CASE m < n
  <2>1. m + 1 \in 1 .. n /\ lead + 3 * ((m + 1) - 1) = end
    BY <1>0, <1>6, <1>7
  <2>2. MessageAt(end)
    BY <1>1, <2>1
  <2>3. end + 1 \in end + 1 .. Len(Input) /\ end + 3 \in end + 1 .. Len(Input)
    BY <1>0, <1>2, <2>2 DEF MessageAt
  <2> HIDE DEF end
  <2> QED  BY <1>3, <2>2, <2>3 DEF MessageAt
<1>8. CASE m = n
  <2>1. end = at
    BY <1>6, <1>8
  <2>2. at + 1 \in at + 1 .. Len(Input)
    BY <1>0, <1>1
  <2> QED  BY <1>3, <2>1, <2>2
<1>9. CASE m > n
  <2>1. n + 1 \in 1 .. m /\ l + 3 * ((n + 1) - 1) = at
    BY <1>0, <1>6, <1>9
  <2>2. MessageAt(at)
    BY <1>2, <2>1
  <2> QED  BY <2>2 DEF MessageAt
<1> QED  BY <1>0, <1>7, <1>8, <1>9

-----------------------------------------------------------------------------
(***************************************************************************)
(* The steps of parse.                                                     *)
(***************************************************************************)
\* What is said of a buffer does not change while it is read.
LEMMA BufferKept ==
  ASSUME UNCHANGED Input
  PROVE  /\ \A l, m : Chain(l, m)' <=> Chain(l, m)
         /\ \A l, m : Clean(l, m)' <=> Clean(l, m)
         /\ Offset' = Offset /\ SliceType' = SliceType
<1>1. \A l, m : Chain(l, m)' <=> Chain(l, m)
  BY DEF Chain, Symbols, NthSlice
<1>2. \A l, m : Clean(l, m)' <=> Clean(l, m)
  BY <1>1 DEF Clean
<1>3. Offset' = Offset /\ SliceType' = SliceType
  BY DEF Offset, SliceType
<1> QED  BY <1>1, <1>2, <1>3

\* The invariant of the parser depends on no other variable.
LEMMA ParseKept == ParseInv /\ UNCHANGED vars => ParseInv'
<1> SUFFICES ASSUME ParseInv, UNCHANGED vars  PROVE ParseInv'
  OBVIOUS
<1>1. UNCHANGED <<_ParseBufferSize, pc, Input, Cursor, LastEnd, Slice, FramingError,
                  Results, ErrorCode>>
  BY DEF vars
<1>2. /\ \A l, m : Chain(l, m)' <=> Chain(l, m)
      /\ \A l, m : Clean(l, m)' <=> Clean(l, m)
      /\ Offset' = Offset /\ SliceType' = SliceType
  BY <1>1, BufferKept
<1>3. TypeOK'
  BY <1>1, <1>2 DEF ParseInv, TypeOK
<1>4. RunInv'
  <2>1. /\ \A l : Reached(l)' = Reached(l)
        /\ \A l, m : NthSlice(l, m)' = NthSlice(l, m)
    BY <1>1 DEF Reached, NthSlice
  <2>2. \A l : Parsed(l) => Parsed(l)'
    BY <1>1, <1>2 DEF Parsed, NthSlice
  <2>3. \A l : Resumes(l) => Resumes(l)'
    BY <1>1 DEF Resumes, Reached
  <2>4. \A l : Yielded(l) => Yielded(l)'
    BY <1>1 DEF Yielded, Reached
  <2>5. \A l : Torn(l) => Torn(l)'
    BY <1>1 DEF Torn, Reached
  <2> QED  BY <1>1, <1>2, <2>2, <2>3, <2>4, <2>5 DEF ParseInv, RunInv
<1>5. ParseExact'
  BY <1>1, <1>2 DEF ParseInv, ParseExact, NthSlice
<1>6. FirstFaultReported'
  BY <1>1, <1>2 DEF ParseInv, FirstFaultReported, Symbols, parseMessage
<1> QED  BY <1>3, <1>4, <1>5, <1>6 DEF ParseInv

\* Between two calls nothing is said of the locals.
LEMMA IdleInv ==
  ASSUME TypeOK, pc \in {"idle"}
  PROVE  ParseInv
  BY DEF ParseInv, RunInv, Running, ParseExact, FirstFaultReported

\* A parser starts between two calls.
LEMMA ParseInit == Init => ParseInv
<1> SUFFICES ASSUME Init  PROVE ParseInv
  OBVIOUS
<1>1. Input = <<>> /\ Len(Input) = 0 /\ Input \in Seq(Symbol)
  BY DEF Init
<1>2. 0 \in Offset
  BY <1>1 DEF Offset
<1>3. Slice \in SliceType
  BY <1>2 DEF Init, SliceType
<1>4. TypeOK
  <2>1. Results \in Seq(SliceType)
    BY DEF Init
  <2>2. Cursor \in Offset /\ LastEnd \in Offset \cup {Nowhere}
    BY <1>2 DEF Init
  <2> QED  BY <1>1, <1>3, <2>1, <2>2 DEF Init, TypeOK
<1> QED  BY <1>4, IdleInv DEF Init

\* The locals of a call start typed.
LEMMA FreshTypes ==
  ASSUME NEW buf \in Seq(Symbol), Fresh(buf)
  PROVE  /\ Input' = buf /\ Input' \in Seq(Symbol)
         /\ Cursor' = 0 /\ 0 \in Offset'
         /\ LastEnd' = Nowhere /\ FramingError' = FALSE /\ Results' = <<>>
         /\ Slice' \in SliceType' /\ Results' \in Seq(SliceType')
<1>1. Input' = buf /\ Cursor' = 0 /\ LastEnd' = Nowhere /\ FramingError' = FALSE
      /\ Results' = <<>> /\ Slice' = [from |-> 0, to |-> 0]
  BY DEF Fresh
<1>2. 0 \in Offset'
  BY <1>1 DEF Offset
<1>3. Slice' \in SliceType'
  BY <1>1, <1>2 DEF SliceType
<1> QED  BY <1>1, <1>2, <1>3

\* A size is set between two calls.
LEMMA ParseSetSize ==
  ASSUME ParseInv, NEW n \in ParseBufferSize, setParseBufferSize(n)
  PROVE  ParseInv'
<1>1. TypeOK' /\ pc' = "idle"
  BY DEF setParseBufferSize, ParseInv, TypeOK, Offset, SliceType
<1> QED  BY <1>1 DEF ParseInv, RunInv, Running, ParseExact, FirstFaultReported

\* A call begins, with no message parsed.
LEMMA ParseBegin ==
  ASSUME ParseInv, NEW buf \in Buffers, Begin(buf)
  PROVE  ParseInv'
<1>0. buf \in Seq(Symbol) /\ Fresh(buf) /\ _ParseBufferSize' = _ParseBufferSize
      /\ _ParseBufferSize \in Nat /\ _ParseBufferSize \in ParseBufferSize
  BY XMLAssumption DEF Begin, ParseInv, TypeOK
<1>1. /\ Input' = buf /\ Input' \in Seq(Symbol)
      /\ Cursor' = 0 /\ 0 \in Offset'
      /\ LastEnd' = Nowhere /\ FramingError' = FALSE /\ Results' = <<>>
      /\ Slice' \in SliceType' /\ Results' \in Seq(SliceType')
  BY <1>0, FreshTypes
<1>2. CASE Len(buf) > _ParseBufferSize /\ ErrorCode' = "framing" /\ pc' = "done"
  <2>1. TypeOK'
    BY <1>0, <1>1, <1>2 DEF TypeOK
  <2>2. RunInv'
    BY <1>2 DEF RunInv, Running
  <2>3. ~(Len(Input') <= _ParseBufferSize')
    BY <1>0, <1>1, <1>2
  <2>4. ParseExact'
    BY <1>1, <1>2, <2>3 DEF ParseExact
  <2>5. FirstFaultReported'
    BY <2>3 DEF FirstFaultReported
  <2> QED  BY <2>1, <2>2, <2>4, <2>5 DEF ParseInv
<1>3. CASE Len(buf) <= _ParseBufferSize /\ ErrorCode' = "none" /\ pc' = "split"
  <2>1. TypeOK'
    BY <1>0, <1>1, <1>3 DEF TypeOK
  <2>2. RunInv'
    <3>1. Len(Results') = 0 /\ Len(Input') \in Nat
      BY <1>1
    <3>2. Chain(0, 0)'
      <4>1. Len(buf) \in Nat /\ Len(Valid) = 3 /\ SubSeq(buf, 1, 0) = <<>>
        BY <1>0 DEF Valid
      <4>2. Range(SubSeq(Input', 1, 0)) = {}
        BY <1>1, <4>1 DEF Range
      <4>3. 0 + Len(Valid) * 0 <= Len(Input')
        BY <1>1, <4>1
      <4> QED  BY <4>2, <4>3 DEF Chain
    <3>3. Parsed(0)'
      BY <1>1, <3>1, <3>2 DEF Parsed
    <3>4. Resumes(0)'
      BY <1>1 DEF Resumes
    <3> QED  BY <1>0, <1>1, <1>3, <3>3, <3>4 DEF RunInv, Running
  <2>3. ParseExact' /\ FirstFaultReported'
    BY <1>3 DEF ParseExact, FirstFaultReported
  <2> QED  BY <2>1, <2>2, <2>3 DEF ParseInv
<1> QED  BY <1>2, <1>3 DEF Begin

\* The caller has the result.
LEMMA ParseReturn ==
  ASSUME ParseInv, Return
  PROVE  ParseInv'
<1>1. /\ <<>> \in Seq(Symbol) /\ Fresh(<<>>) /\ _ParseBufferSize' = _ParseBufferSize
      /\ pc' = "idle" /\ ErrorCode' = "none" /\ _ParseBufferSize \in ParseBufferSize
  BY DEF Return, ParseInv, TypeOK
<1>2. /\ Input' \in Seq(Symbol) /\ Cursor' = 0 /\ 0 \in Offset'
      /\ LastEnd' = Nowhere /\ FramingError' = FALSE
      /\ Slice' \in SliceType' /\ Results' \in Seq(SliceType')
  BY <1>1, FreshTypes
<1>3. TypeOK'
  BY <1>1, <1>2 DEF TypeOK
<1> QED  BY <1>1, <1>3 DEF ParseInv, RunInv, Running, ParseExact, FirstFaultReported

\* splitMessages yields the next message, or ends with or without an error.
LEMMA ParseSplit ==
  ASSUME ParseInv, splitMessages
  PROVE  ParseInv'
<1> DEFINE Start == Find("open", Cursor)
           End == Find("close", Start)
           n == Len(Results)
<1>a. /\ pc = "split"
      /\ UNCHANGED <<_ParseBufferSize, Input, Results, ErrorCode>>
  BY DEF splitMessages
<1>b. /\ Input \in Seq(Symbol) /\ Cursor \in Offset /\ LastEnd \in Offset \cup {Nowhere}
      /\ Slice \in SliceType /\ FramingError \in BOOLEAN /\ Results \in Seq(SliceType)
      /\ _ParseBufferSize \in ParseBufferSize
      /\ ErrorCode \in {"none", "syntax", "content", "framing"}
  BY DEF ParseInv, TypeOK
<1>c. Len(Input) \in Nat /\ Cursor \in Nat /\ n \in Nat /\ Len(Valid) = 3
      /\ Nowhere \notin Nat
  BY <1>b, XMLAssumption DEF Offset, Valid
<1>d. Len(Input) <= _ParseBufferSize /\ ErrorCode = "none" /\ FramingError = FALSE
  BY <1>a, <1>b DEF ParseInv, RunInv, Running
<1>e. PICK lead \in Offset : Parsed(lead) /\ Resumes(lead)
  BY <1>a DEF ParseInv, RunInv, Running
<1>f. /\ lead \in Nat /\ Reached(lead) = lead + 3 * n /\ Chain(lead, n)
      /\ lead + 3 * n \in Nat
  BY <1>c, <1>e DEF Offset, Reached, Parsed
<1>g. /\ lead + 3 * n <= Len(Input)
      /\ \A j \in 1 .. lead : Input[j] # "open"
  BY <1>b, <1>c, <1>f, ChainPlaces
<1>h. /\ n = 0 => Cursor = 0 /\ LastEnd = Nowhere
      /\ n # 0 => Cursor = lead + 3 * n /\ LastEnd = lead + 3 * n /\ LastEnd # Nowhere
  <2>1. n = 0 <=> Results = <<>>
    BY <1>b
  <2> QED  BY <1>c, <1>e, <1>f, <2>1 DEF Resumes
<1>i. \/ /\ Start = Nowhere
         /\ \A j \in Cursor + 1 .. Len(Input) : Input[j] # "open"
      \/ /\ Start \in Nat /\ Cursor <= Start /\ Start < Len(Input) /\ Start # Nowhere
         /\ Input[Start + 1] = "open"
         /\ \A j \in Cursor + 1 .. Start : Input[j] # "open"
  BY <1>b, <1>c, FindFirst
<1>j. Start \in Nat =>
        \/ /\ End = Nowhere
           /\ \A j \in Start + 1 .. Len(Input) : Input[j] # "close"
        \/ /\ End \in Nat /\ Start <= End /\ End < Len(Input) /\ End # Nowhere
           /\ Input[End + 1] = "close"
           /\ \A j \in Start + 1 .. End : Input[j] # "close"
  BY <1>b, FindFirst
<1>k. \/ Start = Nowhere /\ pc' = "end" /\ UNCHANGED <<FramingError, Slice, Cursor, LastEnd>>
      \/ /\ Start # Nowhere /\ LastEnd # Nowhere /\ Start # LastEnd
         /\ FramingError' = TRUE /\ pc' = "end" /\ UNCHANGED <<Slice, Cursor, LastEnd>>
      \/ /\ Start # Nowhere /\ (LastEnd = Nowhere \/ Start = LastEnd) /\ End = Nowhere
         /\ pc' = "end" /\ UNCHANGED <<FramingError, Slice, Cursor, LastEnd>>
      \/ /\ Start # Nowhere /\ (LastEnd = Nowhere \/ Start = LastEnd) /\ End # Nowhere
         /\ Slice' = [from |-> Start, to |-> End + 1] /\ Cursor' = End + 1
         /\ LastEnd' = End + 1 /\ pc' = "parse" /\ UNCHANGED FramingError
  BY DEF splitMessages
<1> HIDE DEF Start, End, n
<1>l. /\ \A l, m : Chain(l, m)' <=> Chain(l, m)
      /\ \A l, m : Clean(l, m)' <=> Clean(l, m)
      /\ Offset' = Offset /\ SliceType' = SliceType
  BY <1>a, BufferKept
<1>m. \A l : Parsed(l) => Parsed(l)'
  BY <1>a, <1>l DEF Parsed, NthSlice
<1>n. \A l : Reached(l)' = Reached(l)
  BY <1>a DEF Reached
<1>o. ParseExact' /\ FirstFaultReported'
  BY <1>k DEF ParseExact, FirstFaultReported
<1>p. Len(Results) = n /\ Len(Input') = Len(Input)
  BY <1>a DEF n
\* The chain that a start marker at Start goes on with.
<1>q. ASSUME Start # Nowhere, LastEnd = Nowhere \/ Start = LastEnd
      PROVE  \E l \in Offset : Parsed(l) /\ l + 3 * n = Start /\ Reached(l) = Start
  <2>1. CASE n = 0
    <3>1. Start \in Nat /\ Start < Len(Input) /\ \A j \in 1 .. Start : Input[j] # "open"
      BY <1>c, <1>h, <1>i, <1>q, <2>1
    <3>2. Start \in Offset /\ Start + 3 * n = Start /\ Start + 3 * n <= Len(Input)
      BY <1>c, <2>1, <3>1 DEF Offset
    <3>3. \A k \in 1 .. n : MessageAt(Start + 3 * (k - 1))
      BY <2>1
    <3>4. Chain(Start, n)
      BY <1>b, <1>c, <3>1, <3>2, <3>3, ChainPlaces
    <3>5. Results = <<>>
      BY <1>b, <1>p, <2>1
    <3>6. Parsed(Start)
      BY <1>p, <2>1, <3>4, <3>5 DEF Parsed
    <3>7. Reached(Start) = Start
      BY <1>c, <1>p, <3>2 DEF Reached
    <3> QED  BY <3>2, <3>6, <3>7
  <2>2. CASE n # 0
    BY <1>e, <1>f, <1>h, <1>q, <2>2
  <2> QED  BY <2>1, <2>2
<1>1. CASE /\ Start = Nowhere /\ pc' = "end"
           /\ UNCHANGED <<FramingError, Slice, Cursor, LastEnd>>
  <2>1. TypeOK'
    BY <1>1, <1>a, <1>b, <1>l DEF TypeOK
  <2>2. \A j \in lead + 3 * n + 1 .. Len(Input) : Input[j] # "open"
    <3>1. \A j \in Cursor + 1 .. Len(Input) : Input[j] # "open"
      BY <1>1, <1>c, <1>i
    <3>2. Cursor <= lead + 3 * n
      BY <1>c, <1>f, <1>h
    <3>3. \A j \in lead + 3 * n + 1 .. Len(Input) : j \in Cursor + 1 .. Len(Input)
      BY <1>c, <1>f, <3>2
    <3> QED  BY <3>1, <3>3
  <2>3. Clean(lead, n)
    BY <1>b, <1>c, <1>f, <2>2, CleanPlaces
  <2>4. RunInv'
    BY <1>1, <1>a, <1>d, <1>e, <1>l, <1>m, <1>p, <2>3 DEF RunInv, Running
  <2> QED  BY <1>o, <2>1, <2>4 DEF ParseInv
<1>2. CASE /\ Start # Nowhere /\ LastEnd # Nowhere /\ Start # LastEnd
           /\ FramingError' = TRUE /\ pc' = "end" /\ UNCHANGED <<Slice, Cursor, LastEnd>>
  <2>1. TypeOK'
    BY <1>2, <1>a, <1>b, <1>l DEF TypeOK
  <2>2. n # 0 /\ Cursor = lead + 3 * n /\ LastEnd = lead + 3 * n
    BY <1>2, <1>h
  <2>3. /\ Start \in Nat /\ lead + 3 * n < Start /\ Start < Len(Input)
        /\ Input[Start + 1] = "open"
        /\ \A j \in lead + 3 * n + 1 .. Start : Input[j] # "open"
    BY <1>2, <1>f, <1>i, <2>2
  <2>4. /\ lead + 3 * n < Len(Input)
        /\ lead + 3 * n + 1 \in lead + 3 * n + 1 .. Start
        /\ Start + 1 \in lead + 3 * n + 1 .. Len(Input)
    BY <1>c, <1>f, <2>3
  <2>5. Results # <<>>
    BY <1>b, <1>p, <2>2
  <2>6. Torn(lead)'
    BY <1>a, <1>f, <1>n, <2>3, <2>4, <2>5 DEF Torn
  <2>7. RunInv'
    BY <1>2, <1>a, <1>d, <1>e, <1>l, <1>m, <2>6 DEF RunInv, Running
  <2> QED  BY <1>o, <2>1, <2>7 DEF ParseInv
<1>3. CASE /\ Start # Nowhere /\ (LastEnd = Nowhere \/ Start = LastEnd) /\ End = Nowhere
           /\ pc' = "end" /\ UNCHANGED <<FramingError, Slice, Cursor, LastEnd>>
  <2>1. TypeOK'
    BY <1>3, <1>a, <1>b, <1>l DEF TypeOK
  <2>2. PICK l \in Offset : Parsed(l) /\ l + 3 * n = Start
    BY <1>3, <1>q
  <2>3. /\ Start \in Nat /\ Start < Len(Input) /\ Input[Start + 1] = "open"
        /\ \A j \in Start + 1 .. Len(Input) : Input[j] # "close"
    BY <1>3, <1>i, <1>j
  <2>4. l \in Nat /\ Chain(l, n)
    BY <1>c, <1>p, <2>2 DEF Offset, Parsed
  <2>5. Clean(l, n)
    BY <1>b, <1>c, <2>2, <2>3, <2>4, CleanPlaces
  <2>6. RunInv'
    BY <1>3, <1>a, <1>d, <1>l, <1>m, <1>p, <2>2, <2>5 DEF RunInv, Running
  <2> QED  BY <1>o, <2>1, <2>6 DEF ParseInv
<1>4. CASE /\ Start # Nowhere /\ (LastEnd = Nowhere \/ Start = LastEnd) /\ End # Nowhere
           /\ Slice' = [from |-> Start, to |-> End + 1] /\ Cursor' = End + 1
           /\ LastEnd' = End + 1 /\ pc' = "parse" /\ UNCHANGED FramingError
  <2>1. PICK l \in Offset : Parsed(l) /\ Reached(l) = Start
    BY <1>4, <1>q
  <2>2. /\ Start \in Nat /\ Start < Len(Input) /\ Input[Start + 1] = "open"
        /\ End \in Nat /\ Start <= End /\ End < Len(Input) /\ Input[End + 1] = "close"
        /\ \A j \in Start + 1 .. End : Input[j] # "close"
    BY <1>4, <1>i, <1>j
  <2>3. Start < End
    BY <2>2
  <2>4. Start \in Offset /\ End + 1 \in Offset /\ Start + 1 < End + 1 /\ (End + 1) - 1 = End
    BY <1>c, <2>2, <2>3 DEF Offset
  <2>5. Slice' \in SliceType /\ Slice'.from = Start /\ Slice'.to = End + 1
    BY <1>4, <2>4 DEF SliceType
  <2>6. TypeOK'
    BY <1>4, <1>a, <1>b, <1>l, <2>4, <2>5 DEF TypeOK
  <2>7. Yielded(l)'
    BY <1>4, <1>a, <1>n, <2>1, <2>2, <2>4, <2>5 DEF Yielded
  <2>8. RunInv'
    BY <1>4, <1>a, <1>d, <1>l, <1>m, <2>1, <2>7 DEF RunInv, Running
  <2> QED  BY <1>o, <2>6, <2>8 DEF ParseInv
<1> QED  BY <1>k, <1>1, <1>2, <1>3, <1>4

\* A message is parsed: the chain is one longer, or the call ends with its error.
LEMMA ParseProcess ==
  ASSUME ParseInv, ProcessSlice
  PROVE  ParseInv'
<1> DEFINE n == Len(Results)
           f == Slice.from
           g == Slice.to
<1>a. /\ pc = "parse"
      /\ UNCHANGED <<_ParseBufferSize, Input, Cursor, LastEnd, Slice, FramingError>>
  BY DEF ProcessSlice
<1>b. /\ Input \in Seq(Symbol) /\ Cursor \in Offset /\ LastEnd \in Offset \cup {Nowhere}
      /\ Slice \in SliceType /\ FramingError \in BOOLEAN /\ Results \in Seq(SliceType)
      /\ _ParseBufferSize \in ParseBufferSize
      /\ ErrorCode \in {"none", "syntax", "content", "framing"}
  BY DEF ParseInv, TypeOK
<1>c. /\ Len(Input) \in Nat /\ n \in Nat /\ Len(Valid) = 3
      /\ f \in Nat /\ g \in Nat /\ g <= Len(Input)
      /\ Slice = [from |-> f, to |-> g]
  BY <1>b DEF Offset, Valid, SliceType
<1>d. Len(Input) <= _ParseBufferSize /\ ErrorCode = "none" /\ FramingError = FALSE
  BY <1>a, <1>b DEF ParseInv, RunInv, Running
<1>e. PICK lead \in Offset : Parsed(lead) /\ Yielded(lead)
  BY <1>a DEF ParseInv, RunInv, Running
<1>f. /\ lead \in Nat /\ Reached(lead) = lead + 3 * n /\ Chain(lead, n)
      /\ f = lead + 3 * n
      /\ Results = [k \in 1 .. n |-> NthSlice(lead, k)]
      /\ f + 1 < g /\ Input[f + 1] = "open" /\ Input[g] = "close"
      /\ Cursor = g /\ LastEnd = g
  BY <1>c, <1>e DEF Offset, Reached, Parsed, Yielded
<1>g. /\ lead + 3 * n <= Len(Input)
      /\ \A j \in 1 .. lead : Input[j] # "open"
      /\ \A k \in 1 .. n : MessageAt(lead + 3 * (k - 1))
  BY <1>b, <1>c, <1>f, ChainPlaces
<1>h. /\ parseMessage(Slice) \in {"none", "syntax", "content"}
      /\ parseMessage(Slice) = "none" <=> MessageAt(f)
      /\ MessageAt(f) => g = f + 3
  BY <1>b, <1>e, ParsePlaces
<1>i. n \in Offset
  BY <1>c, <1>f, <1>g DEF Offset
<1>l. /\ \A l, m : Chain(l, m)' <=> Chain(l, m)
      /\ \A l, m : Clean(l, m)' <=> Clean(l, m)
      /\ Offset' = Offset /\ SliceType' = SliceType
  BY <1>a, BufferKept
<1>1. CASE /\ parseMessage(Slice) # "none" /\ ErrorCode' = parseMessage(Slice)
           /\ Results' = <<>> /\ pc' = "done"
  <2>1. TypeOK'
    BY <1>1, <1>a, <1>b, <1>h, <1>l DEF TypeOK
  <2>2. RunInv'
    BY <1>1 DEF RunInv, Running
  <2>3. ~\E l, m \in Offset : Clean(l, m)
    <3>1. f < Len(Input) /\ g \in f + 1 .. Len(Input)
      BY <1>c, <1>f
    <3>2. ~MessageAt(f)
      BY <1>1, <1>h
    <3> HIDE DEF f, g, n
    <3>3. /\ lead + 3 * n < Len(Input)
          /\ Input[lead + 3 * n + 1] = "open"
          /\ \E c \in lead + 3 * n + 1 .. Len(Input) : Input[c] = "close"
          /\ ~MessageAt(lead + 3 * n)
      BY <1>f, <3>1, <3>2
    <3> QED  BY <1>b, <1>e, <1>f, <1>i, <3>3, FaultUnclean
  <2>4. ParseExact'
    BY <1>1, <1>l, <2>3 DEF ParseExact
  <2>5. FirstFaultReported'
    <3> DEFINE message == Symbols(Slice)
    <3>1. ErrorCode' # "framing"
      BY <1>1, <1>h
    <3>2. message[1] = "open" /\ message[Len(message)] = "close"
      <4>1. /\ f + 1 \in Nat /\ 1 <= f + 1 /\ f + 1 <= g + 1
            /\ 1 \in 1 .. (g - (f + 1)) + 1
            /\ (g - (f + 1)) + 1 \in 1 .. (g - (f + 1)) + 1
            /\ ((f + 1) + 1) - 1 = f + 1
            /\ ((f + 1) + ((g - (f + 1)) + 1)) - 1 = g
        <5>1. f \in Nat /\ g \in Nat /\ f + 1 < g
          BY <1>c, <1>f
        <5> HIDE DEF f, g
        <5> QED  BY <5>1
      <4>2. message = SubSeq(Input, f + 1, g)
        BY DEF Symbols
      <4> HIDE DEF message, f, g
      <4>3. /\ Len(message) = (g - (f + 1)) + 1
            /\ \A j \in 1 .. (g - (f + 1)) + 1 : message[j] = Input[((f + 1) + j) - 1]
        BY <1>b, <1>c, <4>1, <4>2, PartMembers
      <4> QED  BY <1>f, <4>1, <4>3
    <3>3. Symbols(Slice)' = message /\ parseMessage(Slice)' = parseMessage(Slice)
      BY <1>a DEF Symbols, parseMessage
    <3>4. Chain(lead, n) /\ Slice'.from = lead + Len(Valid) * n
      BY <1>a, <1>c, <1>f
    <3>5. ErrorCode' = parseMessage(Slice)'
      BY <1>1, <3>3
    <3> HIDE DEF message, n
    <3> QED  BY <1>e, <1>i, <1>l, <3>1, <3>2, <3>3, <3>4, <3>5 DEF FirstFaultReported
  <2> QED  BY <2>1, <2>2, <2>4, <2>5 DEF ParseInv
<1>2. CASE /\ parseMessage(Slice) = "none" /\ Results' = Append(Results, Slice)
           /\ pc' = "split" /\ UNCHANGED ErrorCode
  <2>1. MessageAt(f) /\ g = f + 3 /\ f + 3 <= Len(Input)
    BY <1>2, <1>h DEF MessageAt
  <2>2. /\ Results' \in Seq(SliceType) /\ Len(Results') = n + 1
        /\ \A k \in 1 .. n : Results'[k] = Results[k]
        /\ Results'[n + 1] = Slice
    BY <1>2, <1>b
  <2>3. TypeOK'
    BY <1>2, <1>a, <1>b, <1>l, <2>2 DEF TypeOK
  <2>4. Chain(lead, n + 1)
    <3>1. lead + 3 * (n + 1) <= Len(Input) /\ n + 1 \in Nat
      BY <1>c, <1>f, <2>1
    <3>2. ASSUME NEW k \in 1 .. n + 1  PROVE MessageAt(lead + 3 * (k - 1))
      <4>1. CASE k = n + 1
        <5>1. lead + 3 * (k - 1) = f
          BY <1>c, <1>f, <4>1
        <5> QED  BY <2>1, <5>1
      <4>2. CASE k # n + 1
        <5>1. k \in 1 .. n
          BY <1>c, <4>2
        <5> QED  BY <1>g, <5>1
      <4> QED  BY <4>1, <4>2
    <3> QED  BY <1>b, <1>f, <1>g, <3>1, <3>2, ChainPlaces
  <2>5. \A k \in 1 .. n + 1 : Results'[k] = NthSlice(lead, k)
    <3> SUFFICES ASSUME NEW k \in 1 .. n + 1  PROVE Results'[k] = NthSlice(lead, k)
      OBVIOUS
    <3>1. CASE k = n + 1
      <4>1. lead + 3 * (k - 1) = f /\ lead + 3 * k = g
        BY <1>c, <1>f, <2>1, <3>1
      <4> QED  BY <1>c, <2>2, <3>1, <4>1 DEF NthSlice
    <3>2. CASE k # n + 1
      <4>1. k \in 1 .. n
        BY <1>c, <3>2
      <4> QED  BY <1>f, <2>2, <4>1
    <3> QED  BY <3>1, <3>2
  <2>6. Results' = [k \in 1 .. n + 1 |-> NthSlice(lead, k)]
    BY <1>c, <2>2, <2>5
  <2>7. Parsed(lead)'
    <3> HIDE DEF n
    <3> QED  BY <1>l, <2>2, <2>4, <2>6 DEF Parsed, NthSlice
  <2>8. Resumes(lead)'
    <3>1. Results' # <<>>
      BY <2>2
    <3>2. Reached(lead)' = g
      BY <1>c, <1>f, <2>1, <2>2 DEF Reached
    <3> QED  BY <1>a, <1>f, <3>1, <3>2 DEF Resumes
  <2>9. RunInv'
    BY <1>2, <1>a, <1>d, <1>l, <2>7, <2>8 DEF RunInv, Running
  <2>10. ParseExact' /\ FirstFaultReported'
    BY <1>2 DEF ParseExact, FirstFaultReported
  <2> QED  BY <2>3, <2>9, <2>10 DEF ParseInv
<1> QED  BY <1>1, <1>2 DEF ProcessSlice

\* parse returns what it has parsed, or the framing error.
LEMMA ParseFinish ==
  ASSUME ParseInv, Finish
  PROVE  ParseInv'
<1>0. PICK n : n = Len(Results)
  OBVIOUS
<1>a. /\ pc = "end" /\ pc' = "done"
      /\ ErrorCode' = IF FramingError THEN "framing" ELSE ErrorCode
      /\ Results' = IF FramingError THEN <<>> ELSE Results
      /\ UNCHANGED <<_ParseBufferSize, Input, Cursor, LastEnd, Slice, FramingError>>
  BY DEF Finish
<1>b. /\ Input \in Seq(Symbol) /\ Cursor \in Offset /\ LastEnd \in Offset \cup {Nowhere}
      /\ Slice \in SliceType /\ FramingError \in BOOLEAN /\ Results \in Seq(SliceType)
      /\ _ParseBufferSize \in ParseBufferSize
      /\ ErrorCode \in {"none", "syntax", "content", "framing"}
  BY DEF ParseInv, TypeOK
<1>c. Len(Input) <= _ParseBufferSize /\ ErrorCode = "none"
  BY <1>a DEF ParseInv, RunInv, Running
<1>d. PICK lead \in Offset : /\ Parsed(lead)
                             /\ FramingError => Torn(lead)
                             /\ ~FramingError => Clean(lead, n)
  BY <1>0, <1>a DEF ParseInv, RunInv, Running
<1>e. /\ Len(Input) \in Nat /\ n \in Nat /\ Len(Valid) = 3 /\ lead \in Nat
      /\ Reached(lead) = lead + 3 * n /\ Chain(lead, n)
      /\ Results = [k \in 1 .. n |-> NthSlice(lead, k)]
  BY <1>0, <1>b, <1>d DEF Offset, Valid, Parsed, Reached
<1>f. lead + 3 * n <= Len(Input)
  BY <1>b, <1>e, ChainPlaces
<1>g. n \in Offset
  BY <1>e, <1>f DEF Offset
<1>l. /\ \A l, m : Chain(l, m)' <=> Chain(l, m)
      /\ \A l, m : Clean(l, m)' <=> Clean(l, m)
      /\ Offset' = Offset /\ SliceType' = SliceType
  BY <1>a, BufferKept
<1>1. TypeOK'
  BY <1>a, <1>b, <1>l DEF TypeOK
<1>2. RunInv'
  BY <1>a DEF RunInv, Running
<1>3. CASE FramingError
  <2>1. /\ n > 0 /\ lead + 3 * n < Len(Input) /\ Input[lead + 3 * n + 1] # "open"
        /\ \E j \in lead + 3 * n + 1 .. Len(Input) : Input[j] = "open"
    BY <1>0, <1>3, <1>b, <1>d, <1>e DEF Torn
  <2>2. ~\E l, m \in Offset : Clean(l, m)
    <3> QED  BY <1>b, <1>d, <1>e, <1>g, <2>1, FaultUnclean
  <2>3. ParseExact'
    BY <1>3, <1>a, <1>l, <2>2 DEF ParseExact
  <2>4. FirstFaultReported'
    <3> DEFINE at == lead + Len(Valid) * n
               tail == SubSeq(Input, at + 1, Len(Input))
    <3>1. at = lead + 3 * n /\ at \in Nat /\ at < Len(Input)
      BY <1>e, <2>1
    <3> HIDE DEF at
    <3>2. at <= Len(Input)
      BY <1>e, <3>1
    <3>3. /\ \A x : x \in Range(tail) <=> \E j \in at + 1 .. Len(Input) : Input[j] = x
          /\ tail[1] = Input[at + 1]
      BY <1>b, <3>1, <3>2, TailPlaces
    <3>4. tail[1] # "open" /\ "open" \in Range(tail)
      BY <2>1, <3>1, <3>3
    <3> QED  BY <1>3, <1>a, <1>d, <1>e, <1>g, <1>l, <2>1, <3>4
             DEF FirstFaultReported, at
  <2> QED  BY <1>1, <1>2, <2>3, <2>4 DEF ParseInv
<1>4. CASE ~FramingError
  <2>1. ParseExact'
    <3>1. ErrorCode' = "none" /\ Results' = [k \in 1 .. n |-> NthSlice(lead, k)]
      BY <1>4, <1>a, <1>c, <1>e
    <3>2. Clean(lead, n)' /\ lead \in Offset' /\ n \in Offset'
      BY <1>4, <1>d, <1>g, <1>l
    <3> QED  BY <1>a, <1>c, <3>1, <3>2 DEF ParseExact, NthSlice
  <2>2. FirstFaultReported'
    BY <1>4, <1>a, <1>c DEF FirstFaultReported
  <2> QED  BY <1>1, <1>2, <2>1, <2>2 DEF ParseInv
<1> QED  BY <1>3, <1>4

\* Every step of parse preserves the parser's invariant.
LEMMA ParseNext == ASSUME ParseInv, Next  PROVE ParseInv'
  BY ParseSetSize, ParseBegin, ParseSplit, ParseProcess, ParseReturn, ParseFinish DEF Next

-----------------------------------------------------------------------------
\* Before the first parser nothing is initialised.
LEMMA InvInit == LifetimeInit => Inv
<1> SUFFICES ASSUME LifetimeInit  PROVE Inv
  OBVIOUS
<1>1. ParseInv
  BY ParseInit DEF LifetimeInit
<1>2. life = [t \in Threads |-> "none"] /\ xerces = 0 /\ XercesRefCount = 0 /\ pc = "idle"
  BY DEF LifetimeInit, Init
<1>3. In("initialize") = {} /\ In("terminate") = {} /\ Counted = {}
  BY <1>2 DEF In, Counted
<1>4. CountInv
  BY <1>2, <1>3, FS_EmptySet DEF CountInv
<1> QED  BY <1>1, <1>2, <1>4 DEF Inv, LifetimeInv, Phase

\* Every step preserves the invariant: a constructor and a destructor leave a parse
\* of another parser alone, and User's own parser does not change while it parses.
LEMMA InvNext == Inv /\ [LifetimeNext]_<<vars, lifetime>> => Inv'
<1> SUFFICES ASSUME Inv, [LifetimeNext]_<<vars, lifetime>>  PROVE Inv'
  OBVIOUS
<1>0. ParseInv /\ LifetimeInv
  BY DEF Inv
<1>1. ASSUME NEW t \in Threads, Live(t)  PROVE Inv'
  <2>1. LifetimeInv'
    BY <1>0, <1>1, LifetimeLive
  <2>2. CASE UNCHANGED vars
    BY <1>0, <2>1, <2>2, ParseKept DEF Inv
  <2>3. CASE ~UNCHANGED vars
    <3>1. /\ t = User /\ Construct(t) /\ _ParseBufferSize' \in ParseBufferSize
          /\ UNCHANGED <<pc, Input, Cursor, LastEnd, Slice, FramingError, Results,
                         ErrorCode>>
      BY <1>1, <2>3 DEF Live, vars
    <3>2. pc = "idle"
      BY <1>0, <3>1 DEF LifetimeInv, Construct
    <3>3. TypeOK'
      BY <1>0, <3>1 DEF ParseInv, TypeOK, Offset, SliceType
    <3>4. ParseInv'
      BY <3>1, <3>2, <3>3 DEF ParseInv, RunInv, Running, ParseExact, FirstFaultReported
    <3> QED  BY <2>1, <3>4 DEF Inv
  <2> QED  BY <2>2, <2>3
<1>2. CASE life[User] = "alive" /\ Next /\ UNCHANGED lifetime
  BY <1>0, <1>2, ParseNext, LifetimeParse DEF Inv
<1>3. CASE UNCHANGED <<vars, lifetime>>
  <2>1. UNCHANGED vars /\ UNCHANGED lifetime /\ pc' = pc
    BY <1>3 DEF vars
  <2> QED  BY <1>0, <2>1, ParseKept, LifetimeParse DEF Inv
<1> QED  BY <1>1, <1>2, <1>3 DEF LifetimeNext

\* The invariant holds whatever parsers are constructed, used and destroyed.
THEOREM Invariance == LifetimeSpec => []Inv
<1> QED  BY InvInit, InvNext, PTL DEF LifetimeSpec

\* Offsets and slices stay inside the buffer: no message the generator yields and no
\* result of parse reaches beyond it.
THEOREM TypeCorrect == LifetimeSpec => []TypeOK
<1>1. Inv => TypeOK
  BY DEF Inv, ParseInv
<1> QED  BY <1>1, Invariance, PTL

\* For every buffer, parse succeeds exactly when the buffer holds adjacent valid
\* messages, returns all of them in order, and otherwise an error and no result.
THEOREM AllOrNothing == LifetimeSpec => []ParseExact
<1>1. Inv => ParseExact
  BY DEF Inv, ParseInv
<1> QED  BY <1>1, Invariance, PTL

\* For every buffer, the error code of parse is that of the first fault in it.
THEOREM FirstFault == LifetimeSpec => []FirstFaultReported
<1>1. Inv => FirstFaultReported
  BY DEF Inv, ParseInv
<1> QED  BY <1>1, Invariance, PTL

\* However many threads construct and destroy parsers, Xerces is not terminated
\* under one of them, and is terminated when there is none.
THEOREM NeverTerminatedEarly == LifetimeSpec => []XercesOutlivesParsers
<1>1. Inv => XercesOutlivesParsers
  <2> SUFFICES ASSUME Inv  PROVE XercesOutlivesParsers
    OBVIOUS
  <2> DEFINE I == In("initialize")
             T == In("terminate")
             P == In("build") \cup In("alive")
  <2>1. /\ xerces \in Int /\ IsFiniteSet(T)
        /\ xerces + Cardinality(I) = Cardinality(T) + (IF Counted = {} THEN 0 ELSE 1)
    BY DEF Inv, LifetimeInv, CountInv
  <2>2. Cardinality(T) \in Nat /\ Counted = I \cup P
    BY <2>1, FS_CardinalityType DEF Counted
  <2>3. (I = {} => Cardinality(I) = 0) /\ (T = {} => Cardinality(T) = 0)
    BY FS_EmptySet
  <2>4. ASSUME P # {}, I = {}  PROVE xerces > 0
    <3>1. xerces + 0 = Cardinality(T) + 1
      BY <2>1, <2>2, <2>3, <2>4
    <3> QED  BY <2>1, <2>2, <3>1
  <2>5. ASSUME I \cup T = {}  PROVE xerces = IF P = {} THEN 0 ELSE 1
    <3>1. I = {} /\ T = {}
      BY <2>5
    <3>2. xerces + 0 = 0 + (IF P = {} THEN 0 ELSE 1)
      BY <2>1, <2>2, <2>3, <3>1
    <3> QED  BY <2>1, <3>2
  <2> QED  BY <2>4, <2>5 DEF XercesOutlivesParsers
<1> QED  BY <1>1, Invariance, PTL

=============================================================================
