------------------------------ MODULE DllProofs -------------------------------
(***************************************************************************)
(* Proofs about the COM server and about the calls of the ASIO interface.  *)
(***************************************************************************)
EXTENDS ComServer, DriverCalls, FiniteSetTheorems, SequenceTheorems, TLAPS

(***************************************************************************)
(* ComServer.  The counts are right, for any number of threads, objects    *)
(* and references: an object is destroyed by the thread that drops the     *)
(* last reference to it and by no other, and DllCanUnloadNow never lets    *)
(* the DLL go while one exists.                                            *)
(*                                                                         *)
(* What has to be said in addition: a thread whose decrement reached 0, or *)
(* that is still creating the object, is the only one to know the object.  *)
(*                                                                         *)
(* m_cLocked is right as long as no two threads change it at once.  What   *)
(* it counts are the locks the threads have and those that are just being  *)
(* given back: a set, so that it can be counted for any number of threads. *)
(***************************************************************************)

\* Thread t has o to itself: it creates it, or has dropped the last reference.
Last(t, o) == arg[t] = o /\ (pc[t] = "created" \/ (pc[t] = "released" /\ read[t] = 0))

Shapes ==
    /\ of \in [References -> Objects \cup {NoObject}]
    /\ holder \in [References -> Threads \cup {NoThread}]
    /\ life \in [Objects -> {"none", "built", "gone"}]
    /\ ref \in [Objects -> Int]
    /\ objects \in Int /\ locked \in Int
    /\ pc \in [Threads -> {"host", "lock", "unlock", "created", "released", "asked"}]
    /\ arg \in [Threads -> Objects \cup {NoObject}]
    /\ read \in [Threads -> Int]

\* The variables that no reference depends on; a thread that asks for a lock
\* has not all it may have.
Ranges ==
    /\ dll \in {"absent", "loaded", "leaving"}
    /\ factory \in [Threads -> 0..MaxRefs]
    /\ locks \in [Threads -> 0..MaxLocks]
    /\ races \in SUBSET Races
    /\ \A t \in Threads : pc[t] = "lock" => locks[t] < MaxLocks

\* A reference that is held is one to an object; a thread that creates or
\* releases an object names one that was built.
Named ==
    /\ \A r \in References : holder[r] \in Threads => of[r] \in Objects
    /\ \A t \in Threads : IF pc[t] \in {"created", "released"}
                            THEN arg[t] \in Objects /\ life[arg[t]] # "none"
                            ELSE arg[t] = NoObject

Counted == objects = Cardinality(Built)

Referred == \A o \in Built : ref[o] = Cardinality(HeldOn(o))

LastIsAlone ==
    \A t \in Threads, o \in Objects : Last(t, o) =>
        o \in Built /\ HeldOn(o) = {} /\ \A u \in Threads : Last(u, o) => u = t

\* An object without references is in the hands of a thread.
Kept == \A o \in Built : HeldOn(o) = {} => \E t \in Threads : Last(t, o)

Core == Counted /\ Referred /\ HeldExists /\ LastIsAlone /\ Kept

IInv == Shapes /\ Ranges /\ Named /\ Core /\ ObjectsStay

-----------------------------------------------------------------------------
(* The sets that are counted. *)

\* The objects, and the references to one, are finitely many.
LEMMA Finite ==
    IsFiniteSet(Built) /\ \A o : IsFiniteSet(HeldOn(o))
<1>1. Built \subseteq Objects /\ \A o : HeldOn(o) \subseteq References
  BY DEF Built, HeldOn
<1>2. QED
  BY <1>1, FS_Subset, ObjectsAssumption, ReferencesAssumption

\* Giving a free reference away adds it to those to o.
LEMMA Given ==
    ASSUME Shapes, NEW r \in HeldOn(NoObject), NEW t, NEW o \in Objects, Gives(r, t, o)
    PROVE  /\ HeldOn(o)' = HeldOn(o) \cup {r}
           /\ r \notin HeldOn(o)
           /\ Cardinality(HeldOn(o)') = Cardinality(HeldOn(o)) + 1
           /\ \A p \in Objects : p # o => HeldOn(p)' = HeldOn(p)
<1>1. HeldOn(o)' = HeldOn(o) \cup {r} /\ r \notin HeldOn(o)
  BY ObjectsAssumption DEF Shapes, HeldOn, Gives
<1>2. \A p \in Objects : p # o => HeldOn(p)' = HeldOn(p)
  BY ObjectsAssumption DEF Shapes, HeldOn, Gives
<1>3. QED
  BY <1>1, <1>2, Finite, FS_AddElement

\* Freeing a reference to o takes it from them.
LEMMA Freed ==
    ASSUME Shapes, NEW r \in References, NEW o \in Objects, of[r] = o, Frees(r)
    PROVE  /\ r \in HeldOn(o)
           /\ HeldOn(o)' = HeldOn(o) \ {r}
           /\ Cardinality(HeldOn(o)') = Cardinality(HeldOn(o)) - 1
           /\ \A p \in Objects : p # o => HeldOn(p)' = HeldOn(p)
<1>1. HeldOn(o)' = HeldOn(o) \ {r} /\ r \in HeldOn(o)
  BY ObjectsAssumption DEF Shapes, HeldOn, Frees, Gives
<1>2. \A p \in Objects : p # o => HeldOn(p)' = HeldOn(p)
  BY ObjectsAssumption DEF Shapes, HeldOn, Frees, Gives
<1>3. QED
  BY <1>1, <1>2, Finite, FS_RemoveElement

\* A step that leaves objects, references and those who have an object to
\* themselves alone keeps the counts right.
LEMMA Quiet ==
    ASSUME Core, UNCHANGED <<objects, life, ref, of>>,
           \A t \in Threads, o \in Objects : Last(t, o)' <=> Last(t, o)
    PROVE  Core'
<1>1. Built' = Built /\ \A o : HeldOn(o)' = HeldOn(o)
  BY DEF Built, HeldOn
<1>2. Counted' /\ Referred' /\ HeldExists'
  BY <1>1 DEF Core, Counted, Referred, HeldExists
<1>3. LastIsAlone'
  BY <1>1 DEF Core, LastIsAlone
<1>4. Kept'
  BY <1>1 DEF Core, Kept, Built
<1>5. QED
  BY <1>2, <1>3, <1>4 DEF Core

-----------------------------------------------------------------------------
(* The initial states. *)

\* At first nothing exists.
LEMMA InitHolds == Init => IInv
<1> SUFFICES ASSUME Init PROVE IInv
  OBVIOUS
<1>1. Shapes /\ Named
  BY ThreadsAssumption DEF Init, Shapes, Named
<1>2. Built = {} /\ Cardinality(Built) = 0
  BY FS_EmptySet DEF Init, Built
<1>3. HeldExists
  BY DEF Init, HeldExists
<1>4. LastIsAlone
  BY DEF Init, LastIsAlone, Last
<1>5. Ranges
  BY BoundsAssumption DEF Init, Ranges, Races
<1>6. QED
  BY <1>1, <1>2, <1>3, <1>4, <1>5
     DEF Init, IInv, Core, Counted, Referred, Kept, ObjectsStay

-----------------------------------------------------------------------------
(* The steps. *)

\* Where a thread enters, only its own place changes.
LEMMA Entered ==
    ASSUME Shapes, NEW t \in Threads, NEW w, NEW o, NEW v, Enters(t, w, o, v)
    PROVE  /\ pc'[t] = w /\ arg'[t] = o /\ read'[t] = v
           /\ \A u \in Threads : u # t =>
                 pc'[u] = pc[u] /\ arg'[u] = arg[u] /\ read'[u] = read[u]
           /\ \A u \in Threads : \A p : u # t => (Last(u, p)' <=> Last(u, p))
           /\ \A p : Last(t, p)' <=> (o = p /\ (w = "created" \/ (w = "released" /\ v = 0)))
<1>1. /\ pc'[t] = w /\ arg'[t] = o /\ read'[t] = v
      /\ \A u \in Threads : u # t =>
            pc'[u] = pc[u] /\ arg'[u] = arg[u] /\ read'[u] = read[u]
  BY DEF Shapes, Enters
<1>2. QED
  BY <1>1 DEF Last

\* The steps of the factory and of DllCanUnloadNow, and those that only hand
\* references over.
Aside(t) ==
    \/ FactoryCalls(t) \/ Unloading(t) \/ Remains(t)
    \/ \E u \in Threads, r \in References : HandOver(t, u, r)

\* In these steps no thread gets an object to itself, or gives it up.
LEMMA AsideLeavesLast ==
    ASSUME IInv, NEW t \in Threads, Aside(t)
    PROVE  \A u \in Threads, o \in Objects : Last(u, o)' <=> Last(u, o)
<1> USE DEF IInv
<1>1. CASE UNCHANGED <<pc, arg, read>>
  BY <1>1 DEF Last
<1>2. CASE /\ \A o \in Objects : ~Last(t, o)
           /\ \E w \in {"host", "lock", "unlock", "asked"} : \E v : Enters(t, w, NoObject, v)
  BY <1>2, Entered, ObjectsAssumption
<1>3. CASE pc[t] = "host"
  <2>1. \A o \in Objects : ~Last(t, o)
    BY <1>3 DEF Last
  <2>2. QED
    BY <1>1, <1>2, <1>3, <2>1
       DEF Aside, FactoryCalls, GetClassObject, FactoryAddRef, FactoryRelease, LockServer,
           LockStored, UnlockStored, Unloading, CanUnloadNow, CanUnloadAnswers, Remains,
           HandOver, NoCall, Returns
<1>4. CASE pc[t] # "host"
  <2>1. ASSUME pc[t] \in {"lock", "unlock", "asked"} \/ (pc[t] = "released" /\ read[t] # 0),
               NEW o \in Objects
        PROVE  ~Last(t, o)
    BY <2>1 DEF Last
  <2>2. QED
    BY <1>1, <1>2, <1>4, <2>1
       DEF Aside, FactoryCalls, GetClassObject, FactoryAddRef, FactoryRelease, LockServer,
           LockStored, UnlockStored, Unloading, CanUnloadNow, CanUnloadAnswers, Remains,
           HandOver, NoCall, Returns, Calls
<1>5. QED
  BY <1>3, <1>4

\* Nor do they change a count of objects or references.
LEMMA AsideKeepsCore ==
    ASSUME IInv, NEW t \in Threads, Aside(t)
    PROVE  Core'
<1>1. UNCHANGED <<objects, life, ref, of>>
  BY DEF Aside, FactoryCalls, GetClassObject, FactoryAddRef, FactoryRelease, LockServer,
         LockStored, UnlockStored, Unloading, CanUnloadNow, CanUnloadAnswers, Remains,
         HandOver, countVars, heldVars
<1>2. QED
  BY <1>1, AsideLeavesLast, Quiet DEF IInv

\* CreateInstance: the new object is the thread's own.
LEMMA CreateKeepsCore ==
    ASSUME IInv, NEW t \in Threads, NEW o \in Objects, CreateInstance(t, o)
    PROVE  Core'
<1> USE DEF IInv, Core
<1>1. /\ o \notin Built /\ Built' = Built \cup {o}
      /\ objects' = objects + 1
      /\ \A p : HeldOn(p)' = HeldOn(p)
  BY DEF CreateInstance, Built, HeldOn, Shapes, heldVars, Constructed
<1>2. HeldOn(o) = {} /\ ref'[o] = 0 /\ \A p \in Built : ref'[p] = ref[p]
  BY <1>1, ObjectsAssumption DEF HeldExists, HeldOn, CreateInstance, Shapes, Constructed
<1>3. /\ Last(t, o)' /\ \A p \in Objects : p # o => ~Last(t, p)' /\ ~Last(t, p)
      /\ \A u \in Threads : \A p : u # t => (Last(u, p)' <=> Last(u, p))
      /\ \A u \in Threads : ~Last(u, o)
  <2>1. \A u \in Threads : ~Last(u, o)
    BY <1>1 DEF LastIsAlone
  <2>2. pc[t] = "host" /\ Enters(t, "created", o, 0)
    BY DEF CreateInstance, Calls
  <2>3. \A p : ~Last(t, p)
    BY <2>2 DEF Last
  <2>4. QED
    BY <2>1, <2>2, <2>3, Entered
<1>4. Counted'
  BY <1>1, Finite, FS_AddElement DEF Counted
<1>5. Referred'
  BY <1>1, <1>2, FS_EmptySet DEF Referred
<1>6. HeldExists'
  BY <1>1 DEF HeldExists, CreateInstance, heldVars
<1>7. LastIsAlone'
  BY <1>1, <1>2, <1>3 DEF LastIsAlone
<1>8. Kept'
  BY <1>1, <1>3 DEF Kept, Built
<1>9. QED
  BY <1>4, <1>5, <1>6, <1>7, <1>8

\* CreateInstance has an interface: the host has the only reference.
LEMMA CreatedKeepsCore ==
    ASSUME IInv, NEW t \in Threads, NEW o, o = arg[t], Created(t, TRUE)
    PROVE  Core'
<1> USE DEF IInv, Core
<1>1. PICK r \in HeldOn(NoObject) : Gives(r, t, o)
  BY DEF Created, Queried
<1>2. /\ o \in Objects /\ Last(t, o) /\ o \in Built /\ HeldOn(o) = {}
      /\ \A u \in Threads : u # t => ~Last(u, o)
  BY DEF Created, Named, Last, LastIsAlone
<1>3. /\ HeldOn(o)' = {r} /\ Cardinality(HeldOn(o)') = 1
      /\ \A p \in Objects : p # o => HeldOn(p)' = HeldOn(p)
  BY <1>1, <1>2, Given, FS_EmptySet
<1>4. Built' = Built /\ objects' = objects /\ ref' = [ref EXCEPT ![o] = 1]
  BY DEF Created, Built
<1>5. /\ \A p : ~Last(t, p)'
      /\ \A u \in Threads : \A p : u # t => (Last(u, p)' <=> Last(u, p))
  BY Entered DEF Created, Returns
<1>6. Counted'
  BY <1>4 DEF Counted
<1>7. Referred'
  BY <1>2, <1>3, <1>4 DEF Referred, Shapes, Built
<1>8. HeldExists'
  BY <1>1, <1>2, <1>4 DEF HeldExists, Gives, HeldOn, Shapes
<1>9. LastIsAlone'
  BY <1>2, <1>3, <1>4, <1>5 DEF LastIsAlone
<1>10. Kept'
  <2>1. \A p \in Objects : p # o => ~Last(t, p)
    BY DEF Last
  <2>2. QED
    BY <1>3, <1>4, <1>5, <2>1 DEF Kept, Built
<1>11. QED
  BY <1>6, <1>7, <1>8, <1>9, <1>10

\* A thread that has an object to itself destroys it, and only it.
LEMMA DestroyKeepsCore ==
    ASSUME IInv, NEW t \in Threads, NEW o \in Objects, Last(t, o),
           life' = [life EXCEPT ![o] = "gone"], objects' = objects - 1,
           \A p \in Objects : p # o => ref'[p] = ref[p],
           UNCHANGED heldVars, Returns(t)
    PROVE  Core'
<1> USE DEF IInv, Core
<1>1. /\ o \in Built /\ HeldOn(o) = {} /\ Built' = Built \ {o}
      /\ \A p : HeldOn(p)' = HeldOn(p)
      /\ \A u \in Threads : u # t => ~Last(u, o)
  BY DEF LastIsAlone, Built, HeldOn, heldVars, Shapes
<1>2. /\ \A p : ~Last(t, p)'
      /\ \A u \in Threads : \A p : u # t => (Last(u, p)' <=> Last(u, p))
      /\ \A p \in Objects : p # o => ~Last(t, p)
  BY Entered DEF Returns, Last
<1>3. Counted'
  BY <1>1, Finite, FS_RemoveElement DEF Counted
<1>4. Referred'
  BY <1>1 DEF Referred, Built
<1>5. HeldExists'
  BY <1>1 DEF HeldExists, HeldOn, heldVars
<1>6. LastIsAlone'
  BY <1>1, <1>2 DEF LastIsAlone
<1>7. Kept'
  BY <1>1, <1>2 DEF Kept, Built
<1>8. QED
  BY <1>3, <1>4, <1>5, <1>6, <1>7

\* AddRef: the references to the object were not none.
LEMMA AddRefKeepsCore ==
    ASSUME IInv, NEW t \in Threads, NEW o \in Objects, AddRef(t, o)
    PROVE  Core'
<1> USE DEF IInv, Core
<1>1. PICK r \in HeldOn(NoObject) : Gives(r, t, o)
  BY DEF AddRef, Queried
<1>2. HeldOn(o) # {} /\ o \in Built
  BY ObjectsAssumption DEF AddRef, Holds, HeldOn, HeldExists
<1>3. /\ HeldOn(o)' = HeldOn(o) \cup {r}
      /\ Cardinality(HeldOn(o)') = Cardinality(HeldOn(o)) + 1
      /\ \A p \in Objects : p # o => HeldOn(p)' = HeldOn(p)
  BY <1>1, Given
<1>4. Built' = Built /\ objects' = objects /\ ref' = [ref EXCEPT ![o] = ref[o] + 1]
  BY DEF AddRef, Built, Queried
<1>5. \A u \in Threads, p \in Objects : Last(u, p)' <=> Last(u, p)
  BY DEF AddRef, NoCall, Last
<1>6. Counted'
  BY <1>4 DEF Counted
<1>7. Referred'
  BY <1>2, <1>3, <1>4 DEF Referred, Shapes, Built
<1>8. HeldExists'
  BY <1>1, <1>2, <1>4 DEF HeldExists, Gives, HeldOn, Shapes
<1>9. LastIsAlone'
  BY <1>2, <1>3, <1>4, <1>5 DEF LastIsAlone
<1>10. Kept'
  BY <1>2, <1>3, <1>4, <1>5 DEF Kept, Built
<1>11. QED
  BY <1>6, <1>7, <1>8, <1>9, <1>10

\* Release: the decrement says whether the reference was the last one.
LEMMA ReleaseKeepsCore ==
    ASSUME IInv, NEW t \in Threads, NEW r \in References, NEW o, o = of[r], Release(t, r)
    PROVE  Core'
<1> USE DEF IInv, Core
<1>1. o \in Objects /\ o \in Built /\ holder[r] = t /\ Frees(r) /\ pc[t] = "host"
  BY ObjectsAssumption DEF Release, Named, HeldExists, Calls
<1>2. /\ r \in HeldOn(o) /\ HeldOn(o)' = HeldOn(o) \ {r}
      /\ Cardinality(HeldOn(o)') = Cardinality(HeldOn(o)) - 1
      /\ \A p \in Objects : p # o => HeldOn(p)' = HeldOn(p)
  BY <1>1, Freed
<1>3. Built' = Built /\ objects' = objects /\ ref' = [ref EXCEPT ![o] = ref[o] - 1]
  BY DEF Release, Built
<1>4. ref[o] - 1 = Cardinality(HeldOn(o)') /\ (HeldOn(o)' = {} <=> ref[o] - 1 = 0)
  <2>1. IsFiniteSet(HeldOn(o)')
    BY <1>2, Finite, FS_RemoveElement
  <2>2. HeldOn(o)' = {} <=> Cardinality(HeldOn(o)') = 0
    BY <2>1, FS_EmptySet
  <2>3. QED
    BY <1>1, <1>2, <2>2 DEF Referred
<1>5. /\ \A p : Last(t, p)' <=> (p = o /\ HeldOn(o)' = {})
      /\ \A u \in Threads : \A p : u # t => (Last(u, p)' <=> Last(u, p))
      /\ \A p : ~Last(t, p)
      /\ \A u \in Threads : ~Last(u, o)
  <2>1. Enters(t, "released", o, ref[o] - 1)
    BY DEF Release
  <2>2. \A u \in Threads : ~Last(u, o)
    BY <1>1, <1>2 DEF LastIsAlone
  <2>3. \A p : ~Last(t, p)
    BY <1>1 DEF Last
  <2>4. /\ \A p : Last(t, p)' <=> (o = p /\ ref[o] - 1 = 0)
        /\ \A u \in Threads : \A p : u # t => (Last(u, p)' <=> Last(u, p))
    <3>1. PICK v : v = ref[o] - 1
      OBVIOUS
    <3>2. Enters(t, "released", o, v)
      BY <2>1, <3>1
    <3>3. Shapes
      OBVIOUS
    <3>4. /\ pc'[t] = "released" /\ arg'[t] = o /\ read'[t] = v
          /\ \A u \in Threads : \A p : u # t => (Last(u, p)' <=> Last(u, p))
      BY <3>2, <3>3, Entered
    <3>5. QED
      BY <3>1, <3>4 DEF Last
  <2>5. QED
    BY <1>4, <2>2, <2>3, <2>4
<1>6. Counted'
  BY <1>3 DEF Counted
<1>7. Referred'
  BY <1>1, <1>2, <1>3, <1>4, ZenonT(40) DEF Referred, Shapes, Built
<1>8. HeldExists'
  BY <1>1, <1>3 DEF HeldExists, Frees, Gives, Shapes
<1>9. LastIsAlone'
  BY <1>1, <1>2, <1>3, <1>5 DEF LastIsAlone
<1>10. Kept'
  BY <1>1, <1>2, <1>3, <1>5 DEF Kept, Built
<1>11. QED
  BY <1>6, <1>7, <1>8, <1>9, <1>10

-----------------------------------------------------------------------------
(* The invariant. *)

\* Loading the DLL changes nothing that is counted.
LEMMA LoadKeeps ==
    ASSUME IInv, Load
    PROVE  IInv'
<1>1. UNCHANGED <<objects, locked, life, ref, of, holder, pc, arg, read>> /\ Built' = Built
  BY DEF Load, countVars, heldVars, NoCall, Built
<1>2. Shapes' /\ Named'
  BY <1>1 DEF IInv, Shapes, Named
<1>3. Core'
  BY <1>1, Quiet DEF IInv, Last
<1>4. Ranges'
  BY DEF IInv, Ranges, Load, NoCall
<1>5. QED
  BY <1>1, <1>2, <1>3, <1>4 DEF IInv, ObjectsStay, Load

\* Every step of a thread keeps the counts right.
LEMMA StepKeepsCore ==
    ASSUME IInv, NEW t \in Threads, FactoryCalls(t) \/ ObjectCalls(t) \/ Unloading(t)
    PROVE  Core'
<1>1. CASE Aside(t)
  BY <1>1, AsideKeepsCore
<1>2. ASSUME NEW o \in Objects, CreateInstance(t, o)
      PROVE  Core'
  BY <1>2, CreateKeepsCore
<1>3. ASSUME NEW o \in Objects, AddRef(t, o)
      PROVE  Core'
  BY <1>3, AddRefKeepsCore
<1>4. ASSUME NEW r \in References, Release(t, r)
      PROVE  Core'
  BY <1>4, ReleaseKeepsCore
<1>5. CASE Created(t, TRUE)
  BY <1>5, CreatedKeepsCore
<1>6. CASE Created(t, FALSE)
  <2>1. PICK o : o = arg[t]
    OBVIOUS
  <2>2. o \in Objects /\ Last(t, o)
    BY <1>6, <2>1 DEF IInv, Named, Created, Last
  <2>3. /\ life' = [life EXCEPT ![o] = "gone"] /\ objects' = objects - 1
        /\ ref' = [ref EXCEPT ![o] = 1] /\ UNCHANGED heldVars /\ Returns(t)
    BY <1>6, <2>1 DEF Created, Destroyed, Queried
  <2>4. \A p \in Objects : p # o => ref'[p] = ref[p]
    BY <2>3 DEF IInv, Shapes
  <2>5. QED
    BY <2>2, <2>3, <2>4, DestroyKeepsCore
<1>7. CASE Deletes(t)
  <2>1. PICK o : o = arg[t]
    OBVIOUS
  <2>2. o \in Objects /\ Last(t, o)
    BY <1>7, <2>1 DEF IInv, Named, Deletes, Last, Destroyed
  <2>3. /\ life' = [life EXCEPT ![o] = "gone"] /\ objects' = objects - 1
        /\ ref' = [ref EXCEPT ![o] = ref[o] + 1] /\ UNCHANGED heldVars /\ Returns(t)
    BY <1>7, <2>1 DEF Deletes, Destroyed
  <2>4. \A p \in Objects : p # o => ref'[p] = ref[p]
    BY <2>3 DEF IInv, Shapes
  <2>5. QED
    BY <2>2, <2>3, <2>4, DestroyKeepsCore
<1>8. QED
  BY <1>1, <1>2, <1>3, <1>4, <1>5, <1>6, <1>7 DEF Aside, ObjectCalls

\* So do they keep the variables in their ranges, and their names.
LEMMA StepKeepsShapes ==
    ASSUME IInv, NEW t \in Threads, FactoryCalls(t) \/ ObjectCalls(t) \/ Unloading(t)
    PROVE  Shapes' /\ Named'
<1> USE DEF IInv, Shapes, Named, Returns, Enters, NoCall, Calls, countVars, heldVars
<1>1. CASE FactoryCalls(t)
  BY <1>1 DEF FactoryCalls, GetClassObject, FactoryAddRef, FactoryRelease, LockServer,
              LockStored, UnlockStored
<1>2. CASE Unloading(t)
  BY <1>2 DEF Unloading, CanUnloadNow, CanUnloadAnswers
<1>3. ASSUME NEW o \in Objects, CreateInstance(t, o)
      PROVE  Shapes' /\ Named'
  BY <1>3 DEF CreateInstance, Constructed
<1>4. ASSUME NEW o \in Objects, AddRef(t, o)
      PROVE  Shapes' /\ Named'
  BY <1>4 DEF AddRef, Gives, HeldOn, Queried
<1>5. ASSUME NEW r \in References, Release(t, r)
      PROVE  Shapes' /\ Named'
  <2>1. of[r] \in Objects /\ of[r] \in Built
    BY <1>5, ObjectsAssumption DEF Release, Core, HeldExists
  <2>2. Shapes'
    BY <1>5, <2>1 DEF Release, Frees, Gives
  <2>3. Named'
    BY <1>5, <2>1, ThreadsAssumption DEF Release, Frees, Gives, Built
  <2>4. QED
    BY <2>2, <2>3
<1>6. ASSUME NEW u \in Threads, NEW r \in References, HandOver(t, u, r)
      PROVE  Shapes' /\ Named'
  BY <1>6 DEF HandOver
<1>7. ASSUME NEW known \in BOOLEAN, Created(t, known)
      PROVE  Shapes' /\ Named'
  BY <1>7 DEF Created, Gives, HeldOn, Queried, Destroyed, heldVars
<1>8. CASE Deletes(t)
  BY <1>8 DEF Deletes, Destroyed
<1>9. CASE Remains(t)
  BY <1>9 DEF Remains
<1>10. QED
  BY <1>1, <1>2, <1>3, <1>4, <1>5, <1>6, <1>7, <1>8, <1>9 DEF ObjectCalls

\* And the others in theirs.
LEMMA StepKeepsRanges ==
    ASSUME IInv, NEW t \in Threads, FactoryCalls(t) \/ ObjectCalls(t) \/ Unloading(t)
    PROVE  Ranges'
<1> USE BoundsAssumption DEF IInv, Shapes, Ranges, Returns, Enters, NoCall, Calls
<1>1. CASE FactoryCalls(t)
  <2>1. CASE GetClassObject(t) \/ FactoryAddRef(t) \/ FactoryRelease(t)
    BY <2>1 DEF GetClassObject, FactoryAddRef, FactoryRelease
  <2>2. ASSUME NEW lock \in BOOLEAN, LockServer(t, lock)
        PROVE  Ranges'
    BY <2>2 DEF LockServer
  <2>3. CASE LockStored(t)
    <3>1. locks' \in [Threads -> 0..MaxLocks]
      BY <2>3 DEF LockStored
    <3>2. \A u \in Threads : pc'[u] = "lock" => locks'[u] < MaxLocks
      BY <2>3 DEF LockStored
    <3>3. QED
      BY <2>3, <3>1, <3>2 DEF LockStored, Wrong
  <2>4. CASE UnlockStored(t)
    BY <2>4 DEF UnlockStored, Wrong
  <2>5. QED
    BY <1>1, <2>1, <2>2, <2>3, <2>4 DEF FactoryCalls
<1>2. CASE ObjectCalls(t) \/ Unloading(t)
  <2>1. UNCHANGED <<factory, locks, races>> /\ (dll' = dll \/ dll' = "leaving")
    BY <1>2 DEF ObjectCalls, CreateInstance, AddRef, Release, HandOver, Created, Deletes, Remains,
                Unloading, CanUnloadNow, CanUnloadAnswers
  <2>2. \A u \in Threads : pc'[u] = "lock" => pc[u] = "lock"
    BY <1>2 DEF ObjectCalls, CreateInstance, AddRef, Release, HandOver, Created, Deletes, Remains,
                Unloading, CanUnloadNow, CanUnloadAnswers
  <2>3. QED
    BY <2>1, <2>2
<1>3. QED
  BY <1>1, <1>2

\* The DLL is only left when no object is counted, and then none is created.
LEMMA StepKeepsObjects ==
    ASSUME IInv, NEW t \in Threads, FactoryCalls(t) \/ ObjectCalls(t) \/ Unloading(t)
    PROVE  ObjectsStay'
<1> USE DEF IInv, Core
<1>1. CASE CanUnloadAnswers(t)
  <2>1. Built' = Built
    BY <1>1 DEF CanUnloadAnswers, Built
  <2>2. objects = 0 => Built = {}
    BY Finite, FS_EmptySet DEF Counted
  <2>3. QED
    BY <1>1, <2>1, <2>2 DEF CanUnloadAnswers, ObjectsStay
<1>2. ASSUME NEW o \in Objects, CreateInstance(t, o)
      PROVE  ObjectsStay'
  BY <1>2 DEF CreateInstance, Calls, ObjectsStay
<1>3. CASE ~CanUnloadAnswers(t) /\ \A o \in Objects : ~CreateInstance(t, o)
  <2>1. dll' = dll
    BY <1>3 DEF FactoryCalls, GetClassObject, FactoryAddRef, FactoryRelease, LockServer,
                LockStored, UnlockStored, Unloading, CanUnloadNow, ObjectCalls, AddRef, Release,
                HandOver, Created, Deletes, Remains
  <2>2. life' = life \/ \E o \in Objects : life' = [life EXCEPT ![o] = "gone"]
    BY <1>3 DEF FactoryCalls, GetClassObject, FactoryAddRef, FactoryRelease, LockServer,
                LockStored, UnlockStored, Unloading, CanUnloadNow, ObjectCalls, AddRef, Release,
                HandOver, Created, Deletes, Remains, Named, Destroyed
  <2>3. Built' \subseteq Built
    BY <2>2 DEF Built, Shapes
  <2>4. QED
    BY <2>1, <2>3 DEF ObjectsStay
<1>4. QED
  BY <1>1, <1>2, <1>3

\* The invariant holds in every state of the server.
THEOREM Invariance == Spec => []IInv
<1>1. Init => IInv
  BY InitHolds
<1>2. IInv /\ [Next]_vars => IInv'
  <2> SUFFICES ASSUME IInv, [Next]_vars PROVE IInv'
    OBVIOUS
  <2>1. CASE Load
    BY <2>1, LoadKeeps
  <2>2. ASSUME NEW t \in Threads, FactoryCalls(t) \/ ObjectCalls(t) \/ Unloading(t)
        PROVE  IInv'
    BY <2>2, StepKeepsCore, StepKeepsShapes, StepKeepsRanges, StepKeepsObjects DEF IInv
  <2>3. CASE UNCHANGED vars
    <3>1. UNCHANGED <<objects, locked, life, ref, of, holder, pc, arg, read, dll>>
      BY <2>3 DEF vars, countVars, heldVars
    <3>2. Core'
      BY <3>1, Quiet DEF IInv, Last
    <3>3. Shapes' /\ Named' /\ ObjectsStay'
      BY <3>1 DEF IInv, Shapes, Named, ObjectsStay, Built
    <3>4. Ranges'
      BY <2>3 DEF IInv, Ranges, vars
    <3>5. QED
      BY <3>2, <3>3, <3>4 DEF IInv
  <2>4. QED
    BY <2>1, <2>2, <2>3 DEF Next
<1>3. QED
  BY <1>1, <1>2, PTL DEF Spec

\* Every variable keeps its type.
THEOREM TypeCorrect == Spec => []TypeOK
<1>1. IInv => TypeOK
  BY DEF IInv, Shapes, Ranges, TypeOK
<1>2. QED
  BY <1>1, Invariance, PTL

\* DllCanUnloadNow never says S_OK while an object exists.
THEOREM ObjectsAlwaysStay == Spec => []ObjectsStay
<1>1. IInv => ObjectsStay
  BY DEF IInv
<1>2. QED
  BY <1>1, Invariance, PTL

\* No reference is to an object that has been destroyed.
THEOREM HeldAlwaysExists == Spec => []HeldExists
<1>1. IInv => HeldExists
  BY DEF IInv, Core
<1>2. QED
  BY <1>1, Invariance, PTL

\* An object that nobody can release any more has been destroyed.
THEOREM NothingIsLeaked == Spec => []NothingLeaked
<1>1. IInv => NothingLeaked
  BY DEF IInv, Core, Kept, NothingLeaked, InUse, Last
<1>2. QED
  BY <1>1, Invariance, PTL

-----------------------------------------------------------------------------
(* The locks. *)

\* What m_cLocked counts: the locks of each thread, from 1 on, and as 0 the one
\* the thread is just giving back.
Owed == {k \in Threads \X (0..MaxLocks) :
            IF k[2] = 0 THEN pc[k[1]] = "unlock" ELSE k[2] <= locks[k[1]]}

\* DllCanUnloadNow is past its test of the locks, or has said S_OK.
Shut == dll = "leaving" \/ \E t \in Threads : pc[t] = "asked"

\* Unless something has gone wrong the count is right, and nobody has a lock
\* when DllCanUnloadNow no longer looks at them.
LocksCounted ==
    races = {} =>
        /\ locked = Cardinality(Owed)
        /\ Shut => \A t \in Threads : locks[t] = 0

LInv == IInv /\ IsFiniteSet(Owed) /\ LocksCounted

\* One lock of one thread is in the set or it is not.
LEMMA OwedBy ==
    ASSUME NEW t \in Threads, NEW i \in 0..MaxLocks
    PROVE  <<t, i>> \in Owed <=> IF i = 0 THEN pc[t] = "unlock" ELSE i <= locks[t]
BY DEF Owed

\* A step of t that asks for no lock and gives none back.
LEMMA NoLock ==
    ASSUME LInv, UNCHANGED <<locked, locks, races>>,
           \A u \in Threads : pc'[u] = "unlock" <=> pc[u] = "unlock",
           Shut' => Shut \/ locked <= 0
    PROVE  IsFiniteSet(Owed)' /\ LocksCounted'
<1>1. Owed' = Owed
  BY DEF Owed
<1>2. ASSUME races = {}, locked <= 0 PROVE \A u \in Threads : locks[u] = 0
  <2>1. Cardinality(Owed) = 0
    <3>1. Cardinality(Owed) \in Nat
      BY FS_CardinalityType DEF LInv
    <3>2. QED
      BY <1>2, <3>1 DEF LInv, LocksCounted
  <2>2. Owed = {}
    BY <2>1, FS_EmptySet DEF LInv
  <2>3. SUFFICES ASSUME NEW u \in Threads, locks[u] # 0 PROVE FALSE
    OBVIOUS
  <2>4. locks[u] \in 1..MaxLocks
    BY <2>3, BoundsAssumption DEF LInv, IInv, Ranges
  <2>5. <<u, locks[u]>> \in Owed
    BY <2>4, BoundsAssumption, OwedBy
  <2>6. QED
    BY <2>2, <2>5
<1>3. QED
  BY <1>1, <1>2 DEF LInv, LocksCounted

\* LockServer( TRUE ) has stored: the thread has one lock more, and the count
\* one, unless it was changed in between.
LEMMA LockStoredCounts ==
    ASSUME LInv, NEW t \in Threads, LockStored(t)
    PROVE  IsFiniteSet(Owed)' /\ LocksCounted'
<1> DEFINE n == locks[t] + 1
<1>1. n \in 1..MaxLocks /\ pc[t] = "lock" /\ locks[t] \in Nat
  BY BoundsAssumption DEF LInv, IInv, Ranges, LockStored
<1>2. \A u \in Threads : pc'[u] = "unlock" <=> pc[u] = "unlock"
  BY <1>1 DEF LInv, IInv, Shapes, LockStored, Returns, Enters
<1>3. \A u \in Threads : locks'[u] = IF u = t THEN n ELSE locks[u]
  BY DEF LInv, IInv, Ranges, LockStored
<1>4. <<t, n>> \notin Owed
  BY <1>1, OwedBy, BoundsAssumption
<1>5. Owed' = Owed \cup {<<t, n>>}
  <2>1. ASSUME NEW u \in Threads, NEW i \in 0..MaxLocks
        PROVE  <<u, i>> \in Owed' <=> (<<u, i>> \in Owed \/ (u = t /\ i = n))
    <3>1. <<u, i>> \in Owed' <=> IF i = 0 THEN pc'[u] = "unlock" ELSE i <= locks'[u]
      BY DEF Owed
    <3>2. <<u, i>> \in Owed <=> IF i = 0 THEN pc[u] = "unlock" ELSE i <= locks[u]
      BY OwedBy
    <3>3. i \in Nat /\ (i <= n <=> i <= locks[t] \/ i = n)
      BY <1>1, BoundsAssumption
    <3>4. QED
      BY <1>1, <1>2, <1>3, <3>1, <3>2, <3>3
  <2>2. Owed' \subseteq Threads \X (0..MaxLocks) /\ Owed \subseteq Threads \X (0..MaxLocks)
    BY DEF Owed
  <2>3. <<t, n>> \in Threads \X (0..MaxLocks)
    BY <1>1, BoundsAssumption
  <2>4. QED
    BY <2>1, <2>2, <2>3
<1>6. IsFiniteSet(Owed') /\ Cardinality(Owed') = Cardinality(Owed) + 1
  BY <1>4, <1>5, FS_AddElement DEF LInv
<1>7. ASSUME races' = {}
      PROVE  locked' = Cardinality(Owed') /\ (Shut' => \A u \in Threads : locks'[u] = 0)
  <2>1. races = {} /\ Wrong(t) = {}
    BY <1>7 DEF LockStored
  <2>2. locked = read[t] /\ ~Shut
    BY <2>1 DEF Wrong, Races, Shut
  <2>3. locked' = locked + 1
    BY <2>2 DEF LockStored
  <2>4. ~Shut'
    BY <1>1, <2>2 DEF LInv, IInv, Shapes, LockStored, Returns, Enters, Shut
  <2>5. QED
    BY <1>6, <2>1, <2>3, <2>4 DEF LInv, LocksCounted
<1>8. QED
  BY <1>6, <1>7 DEF LocksCounted

\* LockServer( FALSE ) begins: the lock is no longer the thread's, but still
\* counts.
LEMMA UnlockBeginsCounts ==
    ASSUME LInv, NEW t \in Threads, LockServer(t, FALSE)
    PROVE  IsFiniteSet(Owed)' /\ LocksCounted'
<1> DEFINE n == locks[t]
<1>1. n \in 1..MaxLocks /\ pc[t] = "host" /\ dll = "loaded"
  BY BoundsAssumption DEF LInv, IInv, Ranges, LockServer, Calls
<1>2. \A u \in Threads : pc'[u] = IF u = t THEN "unlock" ELSE pc[u]
  BY DEF LInv, IInv, Shapes, LockServer, Enters
<1>3. \A u \in Threads : locks'[u] = IF u = t THEN n - 1 ELSE locks[u]
  BY DEF LInv, IInv, Ranges, LockServer
<1>4. <<t, n>> \in Owed /\ <<t, 0>> \notin Owed
  BY <1>1, OwedBy, BoundsAssumption
<1>5. Owed' = (Owed \ {<<t, n>>}) \cup {<<t, 0>>}
  <2>1. ASSUME NEW u \in Threads, NEW i \in 0..MaxLocks
        PROVE  <<u, i>> \in Owed' <=>
                  ((<<u, i>> \in Owed /\ ~(u = t /\ i = n)) \/ (u = t /\ i = 0))
    <3>1. <<u, i>> \in Owed' <=> IF i = 0 THEN pc'[u] = "unlock" ELSE i <= locks'[u]
      BY DEF Owed
    <3>2. <<u, i>> \in Owed <=> IF i = 0 THEN pc[u] = "unlock" ELSE i <= locks[u]
      BY OwedBy
    <3>3. i \in Nat /\ (i <= n - 1 <=> i <= n /\ i # n)
      BY <1>1, BoundsAssumption
    <3>4. QED
      BY <1>1, <1>2, <1>3, <3>1, <3>2, <3>3
  <2>2. Owed' \subseteq Threads \X (0..MaxLocks) /\ Owed \subseteq Threads \X (0..MaxLocks)
    BY DEF Owed
  <2>3. <<t, 0>> \in Threads \X (0..MaxLocks)
    BY BoundsAssumption
  <2>4. QED
    BY <2>1, <2>2, <2>3
<1>6. IsFiniteSet(Owed') /\ Cardinality(Owed') = Cardinality(Owed)
  <2>1. /\ IsFiniteSet(Owed \ {<<t, n>>})
        /\ Cardinality(Owed \ {<<t, n>>}) = Cardinality(Owed) - 1
    BY <1>4, FS_RemoveElement DEF LInv
  <2>2. IsFiniteSet(Owed') /\ Cardinality(Owed') = Cardinality(Owed \ {<<t, n>>}) + 1
    BY <1>4, <1>5, <2>1, FS_AddElement
  <2>3. Cardinality(Owed) \in Nat
    BY FS_CardinalityType DEF LInv
  <2>4. QED
    BY <2>1, <2>2, <2>3
<1>7. ASSUME races' = {}
      PROVE  locked' = Cardinality(Owed') /\ (Shut' => \A u \in Threads : locks'[u] = 0)
  <2>1. races = {} /\ locked' = locked /\ dll' = dll
    BY <1>7 DEF LockServer, countVars
  <2>2. ~Shut
    BY <1>1, <2>1 DEF LInv, LocksCounted
  <2>3. ~Shut'
    BY <1>2, <2>1, <2>2 DEF Shut
  <2>4. QED
    BY <1>6, <2>1, <2>3 DEF LInv, LocksCounted
<1>8. QED
  BY <1>6, <1>7 DEF LocksCounted

\* LockServer( FALSE ) has stored: the lock no longer counts.
LEMMA UnlockStoredCounts ==
    ASSUME LInv, NEW t \in Threads, UnlockStored(t)
    PROVE  IsFiniteSet(Owed)' /\ LocksCounted'
<1>1. pc[t] = "unlock" /\ locks' = locks
  BY DEF UnlockStored
<1>2. \A u \in Threads : pc'[u] = IF u = t THEN "host" ELSE pc[u]
  BY DEF LInv, IInv, Shapes, UnlockStored, Returns, Enters
<1>3. <<t, 0>> \in Owed
  BY <1>1, OwedBy, BoundsAssumption
<1>4. Owed' = Owed \ {<<t, 0>>}
  <2>1. ASSUME NEW u \in Threads, NEW i \in 0..MaxLocks
        PROVE  <<u, i>> \in Owed' <=> (<<u, i>> \in Owed /\ ~(u = t /\ i = 0))
    <3>1. <<u, i>> \in Owed' <=> IF i = 0 THEN pc'[u] = "unlock" ELSE i <= locks'[u]
      BY DEF Owed
    <3>2. <<u, i>> \in Owed <=> IF i = 0 THEN pc[u] = "unlock" ELSE i <= locks[u]
      BY OwedBy
    <3>3. QED
      BY <1>1, <1>2, <3>1, <3>2
  <2>2. Owed' \subseteq Threads \X (0..MaxLocks) /\ Owed \subseteq Threads \X (0..MaxLocks)
    BY DEF Owed
  <2>3. QED
    BY <2>1, <2>2
<1>5. IsFiniteSet(Owed') /\ Cardinality(Owed') = Cardinality(Owed) - 1
  BY <1>3, <1>4, FS_RemoveElement DEF LInv
<1>6. ASSUME races' = {}
      PROVE  locked' = Cardinality(Owed') /\ (Shut' => \A u \in Threads : locks'[u] = 0)
  <2>1. races = {} /\ Wrong(t) \subseteq {"window"}
    BY <1>6 DEF UnlockStored
  <2>2. locked = read[t]
    BY <2>1 DEF Wrong, Races
  <2>3. locked' = locked - 1
    BY <2>2 DEF UnlockStored
  <2>4. Shut' => Shut
    BY <1>2 DEF UnlockStored, Shut
  <2>5. QED
    BY <1>1, <1>5, <2>1, <2>3, <2>4 DEF LInv, LocksCounted
<1>7. QED
  BY <1>5, <1>6 DEF LocksCounted

\* Every step of a thread.
LEMMA StepKeepsLocks ==
    ASSUME LInv, NEW t \in Threads, FactoryCalls(t) \/ ObjectCalls(t) \/ Unloading(t)
    PROVE  IsFiniteSet(Owed)' /\ LocksCounted'
<1> USE DEF Returns, Enters, NoCall, Calls
<1>1. CASE GetClassObject(t) \/ FactoryAddRef(t) \/ FactoryRelease(t)
  BY <1>1, NoLock DEF GetClassObject, FactoryAddRef, FactoryRelease, countVars, Shut
<1>2. CASE LockServer(t, TRUE)
  <2>1. \A u \in Threads : pc'[u] = IF u = t THEN "lock" ELSE pc[u]
    BY <1>2 DEF LockServer, LInv, IInv, Shapes
  <2>2. pc[t] = "host" /\ UNCHANGED <<dll, locked, locks, races>>
    BY <1>2 DEF LockServer, countVars
  <2>3. QED
    BY <2>1, <2>2, NoLock DEF Shut
<1>3. CASE ObjectCalls(t)
  <2>1. UNCHANGED <<dll, locked, locks, races>>
    BY <1>3 DEF ObjectCalls, CreateInstance, AddRef, Release, HandOver, Created, Deletes, Remains,
                countVars
  <2>2. pc' = pc \/ (pc[t] \in {"host", "created", "released"}
                     /\ \E w \in {"host", "created", "released"} : pc' = [pc EXCEPT ![t] = w])
    BY <1>3 DEF ObjectCalls, CreateInstance, AddRef, Release, HandOver, Created, Deletes, Remains
  <2>3. \A u \in Threads : /\ pc'[u] = "unlock" <=> pc[u] = "unlock"
                           /\ pc'[u] = "asked" => pc[u] = "asked"
    BY <2>2 DEF LInv, IInv, Shapes
  <2>4. QED
    BY <2>1, <2>3, NoLock DEF Shut
<1>4. CASE CanUnloadNow(t)
  <2>1. \A u \in Threads : pc'[u] = IF u = t THEN "asked" ELSE pc[u]
    BY <1>4 DEF CanUnloadNow, LInv, IInv, Shapes
  <2>2. pc[t] = "host" /\ locked <= 0 /\ UNCHANGED <<locked, locks, races>>
    BY <1>4 DEF CanUnloadNow, countVars
  <2>3. QED
    BY <2>1, <2>2, NoLock
<1>5. CASE CanUnloadAnswers(t)
  <2>1. \A u \in Threads : pc'[u] = IF u = t THEN "host" ELSE pc[u]
    BY <1>5 DEF CanUnloadAnswers, LInv, IInv, Shapes
  <2>2. pc[t] = "asked" /\ UNCHANGED <<locked, locks, races>>
    BY <1>5 DEF CanUnloadAnswers, countVars
  <2>3. Shut
    BY <2>2 DEF Shut
  <2>4. QED
    BY <2>1, <2>2, <2>3, NoLock
<1>6. QED
  BY <1>1, <1>2, <1>3, <1>4, <1>5, LockStoredCounts, UnlockBeginsCounts, UnlockStoredCounts
     DEF FactoryCalls, Unloading

\* The count of locks is right in every state in which nothing has gone wrong.
THEOREM LockInvariance == Spec => []LInv
<1>1. Init => IsFiniteSet(Owed) /\ LocksCounted
  <2> SUFFICES ASSUME Init PROVE IsFiniteSet(Owed) /\ LocksCounted
    OBVIOUS
  <2>1. Owed = {}
    <3>1. ASSUME NEW k \in Owed PROVE FALSE
      BY BoundsAssumption DEF Init, Owed
    <3>2. QED
      BY <3>1
  <2>2. QED
    BY <2>1, FS_EmptySet DEF Init, LocksCounted
<1>2. IInv /\ IInv' /\ LInv /\ [Next]_vars => IsFiniteSet(Owed)' /\ LocksCounted'
  <2> SUFFICES ASSUME LInv, [Next]_vars PROVE IsFiniteSet(Owed)' /\ LocksCounted'
    OBVIOUS
  <2>1. CASE Load
    BY <2>1, NoLock DEF Load, NoCall, countVars, Shut
  <2>2. ASSUME NEW t \in Threads, FactoryCalls(t) \/ ObjectCalls(t) \/ Unloading(t)
        PROVE  IsFiniteSet(Owed)' /\ LocksCounted'
    BY <2>2, StepKeepsLocks
  <2>3. CASE UNCHANGED vars
    BY <2>3, NoLock DEF vars, countVars, Shut
  <2>4. QED
    BY <2>1, <2>2, <2>3 DEF Next
<1>3. Init => IInv
  BY InitHolds
<1>4. IInv /\ IsFiniteSet(Owed) /\ LocksCounted <=> LInv
  BY DEF LInv
<1>5. QED
  BY <1>1, <1>2, <1>3, <1>4, Invariance, PTL DEF Spec

\* DllCanUnloadNow does not say S_OK while a thread has a lock, unless LockServer
\* raced with itself or with DllCanUnloadNow.
THEOREM LocksAlwaysStay == Spec => []LocksStayUnlessRaced
<1>1. LInv => LocksStayUnlessRaced
  BY DEF LInv, LocksCounted, Shut, LocksStayUnlessRaced
<1>2. QED
  BY <1>1, LockInvariance, PTL

(***************************************************************************)
(* DriverCalls, for any lists of infos, any memory and any number of       *)
(* switches: no buffer is lost, freed twice or shared, the host's callback *)
(* finds the time and the position of its own block, and a change of the   *)
(* rate or the clock source is told.                                       *)
(*                                                                         *)
(* What has to be said in addition: where the time and the position are    *)
(* while a switch is under way, that an object nobody gave up waiting for  *)
(* has no thread unless it runs, and that a change no callback has told is *)
(* among the flags the host's thread has read and is about to write back.  *)
(***************************************************************************)

\* m_sysTime and m_uPosSample are those of the block but for the first
\* statements of _bufferSwitch.
Clock ==
    /\ IF phase \in {"low", "position"}
         THEN switch > 0 /\ pos = (switch - 1) % PosMod
         ELSE pos = switch % PosMod
    /\ time["hi"] = switch
    /\ phase # "low" => time["lo"] = switch

\* m_asioTime has the current rate if it is passed at all, and in the callback
\* the block's time and position; there is a callback only while the driver
\* runs.
Passed ==
    /\ infoMode /\ call # "rate" => info.rate = rate
    /\ "late" \notin raced /\ host # "running" => phase = "none"
    /\ phase = "info" /\ "late" \notin raced =>
          infoMode /\ info.time = switch /\ info.pos = pos

\* getSamplePosition has read words of the current block.
Position ==
    call \in {"position", "low"} /\ "switch" \notin raced =>
        /\ phase \notin {"low", "position"}
        /\ words["hi"] = switch
        /\ call = "low" => words["lo"] = switch

\* A change that is not told is flagged, in what the host's thread has read as
\* well; none is left once the callback was given the flags.  Those that a race
\* or createBuffers has taken from them are excepted.
Flagged ==
    /\ untold \subseteq info.flags \cup raced \cup dropped
    /\ phase \in {"info", "clear", "cleared"} => untold \subseteq raced \cup dropped
    /\ call \in {"rate flagged", "clock flagged"} =>
          untold \subseteq seen["host"] \cup raced \cup dropped

\* The buffers.
Buffered ==
    /\ heap = MemoryOf(table) /\ Cardinality(heap) = Count
    /\ answer.error = "ok" => Count \in {0, answer.asked}

CallsIInv == CallsTypeOK /\ Clock /\ Passed /\ Position /\ Flagged /\ Buffered

-----------------------------------------------------------------------------
(* The buffers that createBuffers prepares. *)

\* A table without entries has no memory.
LEMMA EmptyHasNone ==
    /\ MemoryOf(EmptyTable) = {}
    /\ \A d \in Directions : DOMAIN EmptyTable[d] = {}
<1>1. \A d \in Directions : EmptyTable[d] = << >>
  BY DEF EmptyTable
<1>2. DOMAIN << >> = {}
  OBVIOUS
<1>3. Range(<< >>) = {}
  BY <1>2 DEF Range
<1>4. EmptyTable["in"] = << >> /\ EmptyTable["out"] = << >>
  BY <1>1 DEF Directions
<1>5. QED
  BY <1>1, <1>2, <1>3, <1>4 DEF MemoryOf

\* The places of a list of n.
LEMMA Places ==
    ASSUME NEW n \in Nat
    PROVE  IsFiniteSet(1..n) /\ Cardinality(1..n) = n
<1>1. 1 \in Int /\ n \in Int
  OBVIOUS
<1>2. IsFiniteSet(1..n) /\ Cardinality(1..n) = IF 1 > n THEN 0 ELSE n - 1 + 1
  BY <1>1, FS_Interval
<1>3. QED
  BY <1>2

\* What is accepted of a list is the beginning of it, with channels the driver
\* has.
LEMMA AcceptedIsFirst ==
    ASSUME NEW infos \in Seq(Infos)
    PROVE  \E n \in 0..Len(infos) :
              /\ Accepted(infos) = SubSeq(infos, 1, n)
              /\ \A k \in 1..n : infos[k].channel \in Channels
<1> DEFINE size == Cardinality(Channels)
           fits(k) == /\ infos[k].channel \in Channels
                      /\ Cardinality(Dir(infos[k].dir, SubSeq(infos, 1, k - 1))) < size
           fitting == {k \in DOMAIN infos : \A j \in 1..k : fits(j)}
<1>1. Accepted(infos) = SubSeq(infos, 1, Cardinality(fitting))
  BY DEF Accepted
<1>2. fitting \subseteq 1..Len(infos)
  OBVIOUS
<1>3. IsFiniteSet(1..Len(infos)) /\ Cardinality(1..Len(infos)) = Len(infos)
  BY Places
<1>4. IsFiniteSet(fitting) /\ Cardinality(fitting) <= Len(infos)
  BY <1>2, <1>3, FS_Subset
<1>5. Cardinality(fitting) \in 0..Len(infos)
  BY <1>4, FS_CardinalityType
<1>6. ASSUME NEW k \in 1..Cardinality(fitting) PROVE infos[k].channel \in Channels
  <2>1. SUFFICES ASSUME k \notin fitting PROVE FALSE
    OBVIOUS
  <2>2. k \in 1..Len(infos)
    BY <1>5
  <2>3. fitting \subseteq 1..(k - 1)
    BY <2>1, <2>2
  <2>4. IsFiniteSet(1..(k - 1)) /\ Cardinality(1..(k - 1)) = k - 1
    BY <2>2, Places
  <2>5. Cardinality(fitting) <= k - 1
    BY <2>3, <2>4, FS_Subset
  <2> HIDE DEF fitting
  <2>6. QED
    BY <1>5, <2>5
<1>7. QED
  BY <1>1, <1>5, <1>6

\* Where every info has got a block of its own, the entries of the two
\* directions have all of them, one each.
LEMMA EntriesHaveAll ==
    ASSUME NEW got \in Seq(Infos), NEW M, NEW blocks \in [1..Len(got) -> M],
           IsInjective(blocks), NEW t, t = [d \in Directions |-> Entries(got, d, blocks)]
    PROVE  /\ MemoryOf(t) = Range(blocks)
           /\ Cardinality(MemoryOf(t)) = Len(got)
           /\ Cardinality(DOMAIN t["in"]) + Cardinality(DOMAIN t["out"]) = Len(got)
<1> DEFINE P == 1..Len(got)
<1>1. \A k \in P : got[k].dir \in {"in", "out"}
  <2>1. \A k \in P : got[k] \in Infos
    OBVIOUS
  <2>2. QED
    BY <2>1 DEF Infos, Directions
<1>2. DOMAIN got = P /\ DOMAIN blocks = P /\ Len(got) \in Nat
  OBVIOUS
<1>3. t["in"] = Entries(got, "in", blocks) /\ t["out"] = Entries(got, "out", blocks)
  BY DEF Directions
<1>4. /\ DOMAIN t["in"] = {k \in P : got[k].dir = "in"}
      /\ DOMAIN t["out"] = {k \in P : got[k].dir = "out"}
      /\ \A k \in DOMAIN t["in"] : t["in"][k].memory = blocks[k]
      /\ \A k \in DOMAIN t["out"] : t["out"][k].memory = blocks[k]
  <2>1. /\ Dir("in", got) = {k \in P : got[k].dir = "in"}
        /\ Dir("out", got) = {k \in P : got[k].dir = "out"}
    BY <1>2 DEF Dir
  <2>2. /\ DOMAIN t["in"] = Dir("in", got) /\ DOMAIN t["out"] = Dir("out", got)
        /\ \A k \in Dir("in", got) : t["in"][k].memory = blocks[k]
        /\ \A k \in Dir("out", got) : t["out"][k].memory = blocks[k]
    <3>1. ASSUME NEW d \in Directions
          PROVE  /\ DOMAIN Entries(got, d, blocks) = Dir(d, got)
                 /\ \A k \in Dir(d, got) : Entries(got, d, blocks)[k].memory = blocks[k]
      BY DEF Entries
    <3>2. QED
      BY <1>3, <3>1 DEF Directions
  <2>3. QED
    BY <2>1, <2>2
<1>5. DOMAIN t["in"] \cup DOMAIN t["out"] = P /\ DOMAIN t["in"] \cap DOMAIN t["out"] = {}
  BY <1>1, <1>4
<1>6. MemoryOf(t) = Range(blocks)
  <2>1. ASSUME NEW m \in MemoryOf(t) PROVE m \in Range(blocks)
    <3>1. PICK k \in P : m = blocks[k]
      <4>1. PICK e \in Range(t["in"]) \cup Range(t["out"]) : m = e.memory
        BY <2>1 DEF MemoryOf
      <4>2. CASE e \in Range(t["in"])
        <5>1. PICK k \in DOMAIN t["in"] : e = t["in"][k]
          BY <4>2 DEF Range
        <5>2. QED
          BY <1>4, <1>5, <4>1, <5>1
      <4>3. CASE e \in Range(t["out"])
        <5>1. PICK k \in DOMAIN t["out"] : e = t["out"][k]
          BY <4>3 DEF Range
        <5>2. QED
          BY <1>4, <1>5, <4>1, <5>1
      <4>4. QED
        BY <4>2, <4>3
    <3>2. QED
      BY <1>2, <3>1 DEF Range
  <2>2. ASSUME NEW m \in Range(blocks) PROVE m \in MemoryOf(t)
    <3>1. PICK k \in P : m = blocks[k]
      BY <1>2, <2>2 DEF Range
    <3>2. CASE k \in DOMAIN t["in"]
      <4>1. t["in"][k] \in Range(t["in"]) /\ t["in"][k].memory = m
        BY <1>4, <3>1, <3>2 DEF Range
      <4>2. QED
        BY <4>1 DEF MemoryOf
    <3>3. CASE k \in DOMAIN t["out"]
      <4>1. t["out"][k] \in Range(t["out"]) /\ t["out"][k].memory = m
        BY <1>4, <3>1, <3>3 DEF Range
      <4>2. QED
        BY <4>1 DEF MemoryOf
    <3>4. QED
      BY <1>5, <3>2, <3>3
  <2>3. QED
    BY <2>1, <2>2
<1>7. IsFiniteSet(P) /\ Cardinality(P) = Len(got)
  BY <1>2, Places
<1>8. Cardinality(Range(blocks)) = Len(got)
  <2>1. blocks \in Injection(P, Range(blocks)) /\ blocks \in Surjection(P, Range(blocks))
    <3>1. blocks \in [P -> Range(blocks)]
      BY <1>2 DEF Range
    <3>2. \A m \in Range(blocks) : \E k \in P : blocks[k] = m
      BY <1>2 DEF Range
    <3>3. QED
      BY <3>1, <3>2 DEF Injection, Surjection
  <2>2. QED
    BY <1>7, <2>1, FS_Surjection
<1>9. Cardinality(DOMAIN t["in"]) + Cardinality(DOMAIN t["out"]) = Len(got)
  <2>1. /\ IsFiniteSet(DOMAIN t["in"]) /\ IsFiniteSet(DOMAIN t["out"])
    BY <1>5, <1>7, FS_Subset
  <2>2. Cardinality(DOMAIN t["in"]) \in Nat /\ Cardinality(DOMAIN t["out"]) \in Nat
    BY <2>1, FS_CardinalityType
  <2>3. Cardinality(DOMAIN t["in"] \cap DOMAIN t["out"]) = 0
    BY <1>5, FS_EmptySet
  <2>4. Cardinality(DOMAIN t["in"] \cup DOMAIN t["out"]) =
            Cardinality(DOMAIN t["in"]) + Cardinality(DOMAIN t["out"])
              - Cardinality(DOMAIN t["in"] \cap DOMAIN t["out"])
    BY <2>1, FS_Union
  <2>5. QED
    <3>1. Cardinality(DOMAIN t["in"] \cup DOMAIN t["out"]) = Len(got)
      BY <1>5, <1>7
    <3>2. QED
      BY <2>2, <2>3, <2>4, <3>1
<1>10. QED
  BY <1>6, <1>8, <1>9

\* A table whose entries are those of infos with channels the driver has.
LEMMA EntriesType ==
    ASSUME NEW infos \in Seq(Infos), NEW n \in 0..Len(infos),
           \A k \in 1..n : infos[k].channel \in Channels,
           NEW blocks \in [1..n -> Memory], NEW d \in Directions
    PROVE  LET e == Entries(SubSeq(infos, 1, n), d, blocks)
           IN  e \in [DOMAIN e -> Entry]
<1> DEFINE got == SubSeq(infos, 1, n)
<1>1. DOMAIN got = 1..n /\ \A k \in 1..n : got[k] = infos[k]
  OBVIOUS
<1>2. Dir(d, got) \subseteq 1..n
  BY <1>1 DEF Dir
<1>3. \A k \in Dir(d, got) :
        [channel |-> got[k].channel, memory |-> blocks[k]] \in Entry
  BY <1>1, <1>2 DEF Entry
<1>4. QED
  BY <1>3 DEF Entries

\* createBuffers has freed what there was, and prepares what it has got, or
\* nothing.
LEMMA CreateBuffersHas ==
    ASSUME CallsIInv, NEW infos \in Requests, NEW timeInfo \in BOOLEAN,
           CreateBuffers(infos, timeInfo)
    PROVE  /\ Buffered'
           /\ \A d \in Directions : table'[d] \in [DOMAIN table'[d] -> Entry]
           /\ DOMAIN table' = Directions
           /\ heap' \in SUBSET Memory
           /\ answer' \in [asked : Nat, error : {"none", "ok", "thrown"}]
           /\ host' \in {"loaded", "prepared"}
<1>0. infos \in Seq(Infos)
  BY CallsAssumption
<1>1. Cleared(heap, table) = {}
  BY DEF CallsIInv, Buffered, Cleared
<1>2. PICK m \in 0..Len(infos) :
        /\ Accepted(infos) = SubSeq(infos, 1, m)
        /\ \A k \in 1..m : infos[k].channel \in Channels
  BY <1>0, AcceptedIsFirst
<1>3. Len(Accepted(infos)) = m
  BY <1>0, <1>2
<1>4. PICK n \in 0..m : \E blocks \in [1..n -> Memory] :
        LET got == SubSeq(Accepted(infos), 1, n)
            new == Prepared(infos, Accepted(infos), got, blocks)
        IN  /\ IsInjective(blocks)
            /\ table' = new
            /\ heap' = MemoryOf(new)
            /\ answer' = [asked |-> Len(infos), error |-> IF n = m THEN "ok" ELSE "thrown"]
            /\ host' = IF n = m THEN "prepared" ELSE host
  BY <1>1, <1>3 DEF CreateBuffers
<1> DEFINE got == SubSeq(Accepted(infos), 1, n)
<1>5. PICK blocks \in [1..n -> Memory] :
        /\ IsInjective(blocks)
        /\ table' = Prepared(infos, Accepted(infos), got, blocks)
        /\ heap' = MemoryOf(table')
        /\ answer' = [asked |-> Len(infos), error |-> IF n = m THEN "ok" ELSE "thrown"]
        /\ host' = IF n = m THEN "prepared" ELSE host
  BY <1>4
<1>6. got = SubSeq(infos, 1, n) /\ got \in Seq(Infos) /\ Len(got) = n
  BY <1>0, <1>2
<1>7. /\ answer' \in [asked : Nat, error : {"none", "ok", "thrown"}]
      /\ host' \in {"loaded", "prepared"}
  BY <1>0, <1>5 DEF CreateBuffers
<1>8. CASE got = Accepted(infos) /\ Accepted(infos) # infos
  <2>1. table' = EmptyTable
    BY <1>5, <1>8 DEF Prepared
  <2>2. heap' = {} /\ Count' = 0
    <3>1. heap' = {}
      BY <1>5, <2>1, EmptyHasNone
    <3>2. DOMAIN table'["in"] = {} /\ DOMAIN table'["out"] = {}
      BY <2>1, EmptyHasNone DEF Directions
    <3>3. Cardinality({}) = 0
      BY FS_EmptySet
    <3>4. Count' = 0
      BY <3>2, <3>3 DEF Count
    <3>5. QED
      BY <3>1, <3>4
  <2>3. /\ DOMAIN table' = Directions
        /\ \A d \in Directions : table'[d] \in [DOMAIN table'[d] -> Entry]
    BY <2>1 DEF EmptyTable
  <2>4. Buffered'
    BY <1>5, <2>2, FS_EmptySet DEF Buffered
  <2>5. QED
    BY <1>7, <2>2, <2>3, <2>4
<1>9. CASE ~(got = Accepted(infos) /\ Accepted(infos) # infos)
  <2>1. table' = [d \in Directions |-> Entries(got, d, blocks)]
    BY <1>5, <1>9 DEF Prepared
  <2>2. /\ heap' = Range(blocks) /\ Cardinality(heap') = n
        /\ Count' = n
    <3>1. blocks \in [1..Len(got) -> Memory] /\ got \in Seq(Infos) /\ IsInjective(blocks)
      BY <1>5, <1>6
    <3> HIDE DEF got
    <3>2. /\ MemoryOf(table') = Range(blocks)
          /\ Cardinality(MemoryOf(table')) = Len(got)
          /\ Cardinality(DOMAIN table'["in"]) + Cardinality(DOMAIN table'["out"]) = Len(got)
      BY <2>1, <3>1, EntriesHaveAll
    <3>3. QED
      BY <1>5, <1>6, <3>2 DEF Count
  <2>3. \A d \in Directions : table'[d] \in [DOMAIN table'[d] -> Entry]
    <3>1. n \in 0..Len(infos) /\ \A k \in 1..n : infos[k].channel \in Channels
      BY <1>2
    <3>2. ASSUME NEW d \in Directions
          PROVE  Entries(got, d, blocks) \in [DOMAIN Entries(got, d, blocks) -> Entry]
      BY <1>0, <1>5, <1>6, <3>1, EntriesType
    <3>3. QED
      BY <2>1, <3>2
  <2>4. heap' \in SUBSET Memory
    BY <2>2 DEF Range
  <2>5. answer'.error = "ok" => n = answer'.asked
    <3>1. SUFFICES ASSUME n = m PROVE m = Len(infos)
      BY <1>5
    <3>2. got = Accepted(infos)
      BY <1>2, <1>6, <3>1
    <3>3. Accepted(infos) = infos
      BY <1>9, <3>2
    <3>4. QED
      BY <1>3, <3>3
  <2>6. Buffered'
    BY <1>5, <2>2, <2>5 DEF Buffered
  <2>7. QED
    BY <1>7, <2>1, <2>3, <2>4, <2>6
<1>10. QED
  BY <1>8, <1>9

\* disposeBuffers leaves none.
LEMMA DisposeBuffersHas ==
    ASSUME CallsIInv, DisposeBuffers
    PROVE  Buffered' /\ CallsTypeOK'
<1>1. heap' = {} /\ table' = EmptyTable /\ answer' = [asked |-> 0, error |-> "none"]
  BY DEF CallsIInv, Buffered, Cleared, DisposeBuffers
<1>2. DOMAIN table'["in"] = {} /\ DOMAIN table'["out"] = {}
  BY <1>1, EmptyHasNone DEF Directions
<1>3. Cardinality({}) = 0 /\ MemoryOf(table') = {}
  BY <1>1, EmptyHasNone, FS_EmptySet
<1>4. Buffered'
  BY <1>1, <1>2, <1>3 DEF Buffered, Count
<1>5. DOMAIN table' = Directions /\ \A d \in Directions : table'[d] \in [DOMAIN table'[d] -> Entry]
  BY <1>1 DEF EmptyTable
<1>6. CallsTypeOK'
  BY <1>1, <1>5 DEF CallsIInv, CallsTypeOK, DisposeBuffers, tellVars, clockVars
<1>7. QED
  BY <1>4, <1>6

\* No other step changes them.
OtherHostCalls ==
    \/ Start \/ Stop
    \/ \E r \in Rates : SetSampleRate(r)
    \/ SetClockSource \/ PositionBegins

\* Neither do the calls go on with them, nor the thread.
LEMMA OthersLeaveBuffers ==
    OtherHostCalls \/ CallGoesOn \/ AsioThread => UNCHANGED bufferVars
<1>1. OtherHostCalls => UNCHANGED bufferVars
  BY DEF OtherHostCalls, Start, Stop, SetSampleRate, SetClockSource, PositionBegins, bufferVars
<1>2. CallGoesOn => UNCHANGED bufferVars
  BY DEF CallGoesOn, StopReturns, FlagsRead, FlagsWritten, PositionGoesOn, PositionReturns,
         bufferVars
<1>3. AsioThread => UNCHANGED bufferVars
  BY DEF AsioThread, ThreadEnds, Wakes, StampsLow, Advances, CallbackReturns, ClearReads,
         ClearWrites, Sent, bufferVars
<1>4. QED
  BY <1>1, <1>2, <1>3

-----------------------------------------------------------------------------
(* Types. *)

\* The bounds are numbers.
LEMMA Bounds ==
    /\ MaxSwitches \in Nat /\ PosMod \in Nat /\ PosMod > 0
    /\ 0 \in 0..MaxSwitches /\ 0 \in 0..PosMod - 1
BY CallsAssumption

\* A position stays below PosMod.
LEMMA PositionWraps ==
    ASSUME NEW p \in Nat
    PROVE  p % PosMod \in 0..PosMod - 1
BY Bounds

\* What the calls change apart from the buffers.
LEMMA HostCallsKeepTypes ==
    ASSUME CallsTypeOK, OtherHostCalls
    PROVE  CallsTypeOK'
<1> USE Bounds DEF CallsTypeOK
<1>1. UNCHANGED bufferVars
  BY OthersLeaveBuffers
<1>2. CASE Start
  <2>1. CASE UNCHANGED <<started, phase, clockVars, raced>>
    BY <1>1, <1>2, <2>1 DEF Start, bufferVars, clockVars
  <2>2. CASE ThreadBegins
    BY <1>1, <1>2, <2>2 DEF Start, ThreadBegins, bufferVars
  <2>3. QED
    BY <1>2, <2>1, <2>2 DEF Start
<1>3. CASE Stop \/ SetClockSource
  BY <1>1, <1>3 DEF Stop, SetClockSource, bufferVars, tellVars, clockVars
<1>4. ASSUME NEW r \in Rates, SetSampleRate(r) PROVE CallsTypeOK'
  BY <1>1, <1>4 DEF SetSampleRate, bufferVars, clockVars
<1>5. CASE PositionBegins
  <2>1. words' \in [Words -> 0..MaxSwitches]
    BY <1>5 DEF PositionBegins, NothingRead, Words
  <2>2. raced' \in SUBSET (Changes \cup {"late", "switch"})
    BY <1>5 DEF PositionBegins
  <2>3. QED
    BY <1>1, <1>5, <2>1, <2>2 DEF PositionBegins, bufferVars, clockVars
<1>6. QED
  BY <1>2, <1>3, <1>4, <1>5 DEF OtherHostCalls

\* The rest of a call.
LEMMA CallsKeepTypes ==
    ASSUME CallsTypeOK, CallGoesOn
    PROVE  CallsTypeOK'
<1> USE Bounds DEF CallsTypeOK
<1>1. UNCHANGED bufferVars
  BY OthersLeaveBuffers
<1>2. CASE StopReturns
  BY <1>1, <1>2 DEF StopReturns, bufferVars, clockVars
<1>3. CASE FlagsRead
  <2>1. info' \in [rate : Rates, flags : SUBSET Changes, time : 0..MaxSwitches, pos : 0..PosMod - 1]
    BY <1>3 DEF FlagsRead
  <2>2. seen' \in [{"host", "thread"} -> SUBSET Changes]
    BY <1>3 DEF FlagsRead
  <2>3. call' \in {"rate flagged", "clock flagged"}
    BY <1>3 DEF FlagsRead
  <2>4. QED
    BY <1>1, <1>3, <2>1, <2>2, <2>3 DEF FlagsRead, bufferVars, clockVars
<1>4. ASSUME NEW change \in Changes, FlagsWritten(change) PROVE CallsTypeOK'
  <2>1. info' \in [rate : Rates, flags : SUBSET Changes, time : 0..MaxSwitches, pos : 0..PosMod - 1]
    BY <1>4 DEF FlagsWritten
  <2>2. seen' \in [{"host", "thread"} -> SUBSET Changes]
    BY <1>4 DEF FlagsWritten
  <2>3. /\ raced' \in SUBSET (Changes \cup {"late", "switch"})
        /\ untold' \in SUBSET Changes /\ dropped' \in SUBSET Changes
    BY <1>4 DEF FlagsWritten
  <2>4. QED
    BY <1>1, <1>4, <2>1, <2>2, <2>3 DEF FlagsWritten, bufferVars, clockVars
<1>5. CASE PositionGoesOn
  BY <1>1, <1>5 DEF PositionGoesOn, Words, bufferVars, tellVars, clockVars
<1>6. CASE PositionReturns
  BY <1>1, <1>6 DEF PositionReturns, NothingRead, bufferVars, clockVars
<1>7. QED
  BY <1>2, <1>3, <1>4, <1>5, <1>6 DEF CallGoesOn

\* The thread.
LEMMA ThreadKeepsTypes ==
    ASSUME CallsTypeOK, AsioThread
    PROVE  CallsTypeOK'
<1> USE Bounds DEF CallsTypeOK
<1>1. UNCHANGED bufferVars
  BY OthersLeaveBuffers
<1>2. CASE ThreadEnds \/ CallbackReturns \/ Sent
  BY <1>1, <1>2, ZenonT(40) DEF ThreadEnds, CallbackReturns, Sent, ThreadGoes, bufferVars, tellVars, clockVars
<1>3. CASE Wakes
  <2>1. switch + 1 \in 0..MaxSwitches
    <3>1. switch \in 0..MaxSwitches /\ switch < MaxSwitches
      BY <1>3 DEF Wakes
    <3>2. QED
      BY ONLY <3>1, Bounds
  <2>2. QED
    BY <1>1, <1>3, <2>1 DEF Wakes, ThreadGoes, Words, bufferVars
<1>4. CASE StampsLow
  BY <1>1, <1>4 DEF StampsLow, ThreadGoes, Words, bufferVars, tellVars
<1>5. CASE Advances
  <2>1. pos' \in 0..PosMod - 1
    <3>1. pos + 1 \in Nat /\ pos' = (pos + 1) % PosMod
      <4>1. pos \in 0..PosMod - 1 /\ pos' = (pos + 1) % PosMod
        BY <1>5 DEF Advances
      <4>2. QED
        BY ONLY <4>1, Bounds
    <3>2. QED
      BY <3>1, PositionWraps
  <2>2. time["lo"] \in 0..MaxSwitches
    BY DEF Words
  <2>3. info' \in [rate : Rates, flags : SUBSET Changes, time : 0..MaxSwitches, pos : 0..PosMod - 1]
    BY <1>5, <2>1, <2>2 DEF Advances, TellsHost
  <2>4. /\ untold' \in SUBSET Changes /\ phase' \in Callbacks
        /\ raced' \in SUBSET (Changes \cup {"late", "switch"})
    BY <1>5 DEF Advances, TellsHost, Callbacks
  <2>5. QED
    BY <1>1, <1>5, <2>1, <2>3, <2>4 DEF Advances, bufferVars
<1>6. CASE ClearReads
  BY <1>1, <1>6 DEF ClearReads, ThreadGoes, bufferVars, clockVars
<1>7. CASE ClearWrites
  <2>1. info' \in [rate : Rates, flags : SUBSET Changes, time : 0..MaxSwitches, pos : 0..PosMod - 1]
    BY <1>7 DEF ClearWrites
  <2>2. QED
    BY <1>1, <1>7, <2>1 DEF ClearWrites, ThreadGoes, bufferVars, clockVars
<1>8. QED
  BY <1>2, <1>3, <1>4, <1>5, <1>6, <1>7 DEF AsioThread

\* createBuffers.
LEMMA CreateKeepsTypes ==
    ASSUME CallsIInv, NEW infos \in Requests, NEW timeInfo \in BOOLEAN,
           CreateBuffers(infos, timeInfo)
    PROVE  CallsTypeOK'
<1>1. CallsTypeOK
  BY DEF CallsIInv
<1>2. /\ UNCHANGED <<call, started, rate, seen, untold, time, pos, switch, phase, words>>
      /\ infoMode' = timeInfo
      /\ IF timeInfo
           THEN /\ info' = [rate |-> rate, flags |-> {}, time |-> 0, pos |-> 0]
                /\ dropped' = dropped \cup untold /\ raced' = raced \ untold
           ELSE UNCHANGED <<info, dropped, raced>>
  BY DEF CreateBuffers, clockVars
<1>3. info' \in [rate : Rates, flags : SUBSET Changes, time : 0..MaxSwitches, pos : 0..PosMod - 1]
  <2>1. rate \in Rates /\ (info' = info \/ info' = [rate |-> rate, flags |-> {}, time |-> 0, pos |-> 0])
    BY <1>1, <1>2 DEF CallsTypeOK
  <2>2. info \in [rate : Rates, flags : SUBSET Changes, time : 0..MaxSwitches, pos : 0..PosMod - 1]
    BY <1>1 DEF CallsTypeOK
  <2>3. QED
    BY <2>1, <2>2, Bounds
<1>4. /\ untold' \in SUBSET Changes /\ dropped' \in SUBSET Changes
      /\ raced' \in SUBSET (Changes \cup {"late", "switch"})
  BY <1>1, <1>2 DEF CallsTypeOK
<1>5. /\ rate' \in Rates /\ infoMode' \in BOOLEAN
      /\ UNCHANGED <<call, started, seen, time, pos, switch, phase, words>>
  BY <1>1, <1>2 DEF CallsTypeOK
<1>6. /\ \A d \in Directions : table'[d] \in [DOMAIN table'[d] -> Entry]
      /\ DOMAIN table' = Directions
      /\ heap' \in SUBSET Memory
      /\ answer' \in [asked : Nat, error : {"none", "ok", "thrown"}]
      /\ host' \in {"loaded", "prepared", "running"}
  BY CreateBuffersHas
<1> HIDE DEF CreateBuffers
<1>7. QED
  BY ONLY <1>1, <1>3, <1>4, <1>5, <1>6 DEF CallsTypeOK

\* Every step.
LEMMA StepKeepsTypes ==
    ASSUME CallsIInv, CallsNext
    PROVE  CallsTypeOK' /\ Buffered'
<1>1. ASSUME NEW infos \in Requests, NEW timeInfo \in BOOLEAN, CreateBuffers(infos, timeInfo)
      PROVE  CallsTypeOK' /\ Buffered'
  BY <1>1, CreateKeepsTypes, CreateBuffersHas
<1>2. CASE DisposeBuffers
  BY <1>2, DisposeBuffersHas
<1>3. CASE OtherHostCalls \/ CallGoesOn \/ AsioThread
  <2>1. CallsTypeOK'
    BY <1>3, HostCallsKeepTypes, CallsKeepTypes, ThreadKeepsTypes DEF CallsIInv
  <2>2. Buffered'
    BY <1>3, OthersLeaveBuffers DEF CallsIInv, Buffered, Count, bufferVars
  <2>3. QED
    BY <2>1, <2>2
<1>4. QED
  BY <1>1, <1>2, <1>3 DEF CallsNext, HostCalls, OtherHostCalls

-----------------------------------------------------------------------------
(* The clock. *)

\* A multiple of m is 0 or at least m.
LEMMA TimesBound ==
    ASSUME NEW m \in Nat, m > 0, NEW z \in Int
    PROVE  (z >= 1 => m * z >= m) /\ (z <= -1 => m * z <= -m)
<1>1. z >= 1 => m * z >= m
  <2>1. SUFFICES ASSUME z >= 1 PROVE m * (z - 1) >= 0
    <3>1. m * (z - 1) = m * z - m
      OBVIOUS
    <3>2. m * z \in Int
      OBVIOUS
    <3>3. QED
      BY <3>1, <3>2
  <2>2. QED
    BY <2>1
<1>2. z <= -1 => m * z <= -m
  <2>1. SUFFICES ASSUME z <= -1 PROVE m * (z + 1) <= 0
    <3>1. m * (z + 1) = m * z + m
      OBVIOUS
    <3>2. m * z \in Int
      OBVIOUS
    <3>3. QED
      BY <3>1, <3>2
  <2>2. QED
    BY <2>1
<1>3. QED
  BY <1>1, <1>2

\* The remainder is the only one.
LEMMA Euclid ==
    ASSUME NEW m \in Nat, m > 0, NEW q \in Int, NEW r \in 0..m - 1, NEW k \in Int, k = m * q + r
    PROVE  k % m = r
<1> DEFINE x == k % m
           y == k \div m
           z == q - y
<1>1. x \in 0..m - 1 /\ y \in Int /\ k = m * y + x
  OBVIOUS
<1>2. z \in Int /\ m * z = m * q - m * y
  BY <1>1
<1>3. m * z = x - r
  BY <1>1, <1>2
<1>4. ~(z >= 1) /\ ~(z <= -1)
  <2>1. m * z < m /\ m * z > -m
    BY <1>1, <1>3
  <2>2. QED
    BY <1>2, <2>1, TimesBound
<1>5. z = 0
  BY <1>2, <1>4
<1>6. m * z = 0
  BY <1>5
<1>7. QED
  BY <1>1, <1>3, <1>6

\* One more than a position that wraps.
LEMMA PositionAdvances ==
    ASSUME NEW k \in Nat
    PROVE  ((k % PosMod) + 1) % PosMod = (k + 1) % PosMod
<1> DEFINE r == k % PosMod
           q == k \div PosMod
<1>1. r \in 0..PosMod - 1 /\ q \in Int /\ k = PosMod * q + r
  BY Bounds
<1> HIDE DEF r, q
<1>2. CASE r + 1 \in 0..PosMod - 1
  <2>1. k + 1 = PosMod * q + (r + 1) /\ r + 1 = PosMod * 0 + (r + 1)
    BY <1>1, Bounds
  <2>2. (k + 1) % PosMod = r + 1
    BY <1>1, <1>2, <2>1, Euclid, Bounds
  <2>3. (r + 1) % PosMod = r + 1
    BY <1>1, <1>2, <2>1, Euclid, Bounds
  <2>4. QED
    BY <2>2, <2>3 DEF r
<1>3. CASE r + 1 = PosMod
  <2>1. k + 1 = PosMod * (q + 1) + 0 /\ r + 1 = PosMod * 1 + 0
    BY <1>1, <1>3, Bounds
  <2>2. (k + 1) % PosMod = 0
    BY <1>1, <2>1, Euclid, Bounds
  <2>3. (r + 1) % PosMod = 0
    BY <1>1, <2>1, Euclid, Bounds
  <2>4. QED
    BY <2>2, <2>3 DEF r
<1>4. QED
  BY <1>1, <1>2, <1>3, Bounds

\* Where the clock, the block and the place in _bufferSwitch stay.
LEMMA ClockStands ==
    ASSUME Clock, UNCHANGED <<clockVars, phase>>
    PROVE  Clock'
BY DEF Clock, clockVars

\* The thread.
LEMMA ThreadKeepsClock ==
    ASSUME CallsTypeOK, Clock, AsioThread
    PROVE  Clock'
<1>1. CASE ThreadEnds \/ CallbackReturns \/ Sent \/ ClearReads \/ ClearWrites
  <2>1. /\ UNCHANGED <<time, pos, switch>>
        /\ phase \notin {"low", "position"} /\ phase' \notin {"low", "position"}
    BY <1>1 DEF ThreadEnds, CallbackReturns, Sent, ClearReads, ClearWrites, ThreadGoes, clockVars,
                Callbacks
  <2>2. QED
    BY <2>1 DEF Clock
<1>2. CASE Wakes
  <2>1. switch \in Nat /\ phase = "wait" /\ phase' = "low"
    <3>1. switch \in 0..MaxSwitches
      BY DEF CallsTypeOK
    <3>2. QED
      BY <1>2, <3>1, Bounds DEF Wakes, ThreadGoes
  <2>2. pos' = pos /\ switch' = switch + 1 /\ time'["hi"] = switch + 1
    BY <1>2 DEF Wakes, CallsTypeOK, Words
  <2>3. pos = switch % PosMod /\ switch + 1 > 0 /\ (switch + 1) - 1 = switch
    BY <2>1 DEF Clock
  <2>4. QED
    BY <2>1, <2>2, <2>3 DEF Clock
<1>3. CASE StampsLow
  <2>1. phase = "low" /\ phase' = "position" /\ UNCHANGED <<pos, switch>>
    BY <1>3 DEF StampsLow, ThreadGoes
  <2>2. time'["lo"] = switch /\ time'["hi"] = time["hi"]
    BY <1>3 DEF StampsLow, CallsTypeOK, Words
  <2>3. QED
    BY <2>1, <2>2 DEF Clock
<1>4. CASE Advances
  <2>1. phase = "position" /\ phase' \in Callbacks /\ UNCHANGED <<time, switch>>
        /\ pos' = (pos + 1) % PosMod
    BY <1>4 DEF Advances, TellsHost, Callbacks
  <2>2. switch \in Nat /\ switch > 0 /\ pos = (switch - 1) % PosMod
    <3>1. switch \in 0..MaxSwitches
      BY DEF CallsTypeOK
    <3>2. switch > 0 /\ pos = (switch - 1) % PosMod
      BY <2>1 DEF Clock
    <3>3. QED
      BY <3>1, <3>2, Bounds
  <2>3. pos' = switch % PosMod
    <3>1. switch - 1 \in Nat /\ (switch - 1) + 1 = switch
      BY <2>2
    <3>2. QED
      BY <2>1, <2>2, <3>1, PositionAdvances
  <2>4. QED
    BY <2>1, <2>3 DEF Clock, Callbacks
<1>5. QED
  BY <1>1, <1>2, <1>3, <1>4 DEF AsioThread

\* The host's thread only sets the clock in start().
LEMMA CallsKeepClock ==
    ASSUME CallsTypeOK, Clock, HostCalls \/ CallGoesOn
    PROVE  Clock'
<1>1. CASE Start
  <2>1. CASE UNCHANGED <<started, phase, clockVars, raced>>
    BY <2>1, ClockStands
  <2>2. CASE ThreadBegins
    <3>1. 0 % PosMod = 0
      BY Bounds
    <3>2. /\ time'["hi"] = 0 /\ time'["lo"] = 0 /\ pos' = 0 /\ switch' = 0
          /\ phase' = "wait"
      BY <2>2 DEF ThreadBegins, Words
    <3>3. QED
      BY <3>1, <3>2 DEF Clock
  <2>3. QED
    BY <1>1, <2>1, <2>2 DEF Start
<1>2. ~Start => UNCHANGED <<clockVars, phase>>
  <2>1. HostCalls /\ ~Start => UNCHANGED <<clockVars, phase>>
    BY DEF HostCalls, CreateBuffers, DisposeBuffers, Stop, SetSampleRate, SetClockSource,
           PositionBegins
  <2>2. CallGoesOn => UNCHANGED <<clockVars, phase>>
    BY DEF CallGoesOn, StopReturns, FlagsRead, FlagsWritten, PositionGoesOn, PositionReturns
  <2>3. QED
    BY <2>1, <2>2
<1>3. QED
  BY <1>1, <1>2, ClockStands

-----------------------------------------------------------------------------
(* What the host is told. *)

\* A call of the host begins.  No list is prepared while a callback runs that
\* nobody gave up waiting for.
LEMMA HostCallsPass ==
    ASSUME CallsTypeOK, Passed, HostCalls
    PROVE  Passed'
<1>1. ASSUME NEW infos \in Requests, NEW timeInfo \in BOOLEAN, CreateBuffers(infos, timeInfo)
      PROVE  Passed'
  <2>1. /\ host = "loaded" /\ call = "none" /\ host' \in {"loaded", "prepared"}
        /\ UNCHANGED <<call, rate, phase, switch, pos>>
        /\ infoMode' => info'.rate = rate
        /\ raced' = raced \/ raced' = raced \ untold
    BY <1>1 DEF CreateBuffers, clockVars
  <2>2. "late" \notin raced' => phase = "none"
    BY <2>1 DEF Passed, CallsTypeOK, Changes
  <2>3. QED
    BY <2>1, <2>2 DEF Passed
<1>2. CASE DisposeBuffers
  BY <1>2 DEF DisposeBuffers, Passed, tellVars, clockVars
<1>3. CASE Start
  <2>1. CASE UNCHANGED <<started, phase, clockVars, raced>>
    BY <1>3, <2>1 DEF Start, Passed, clockVars
  <2>2. CASE ThreadBegins
    <3>1. phase' = "wait" /\ host' = "running" /\ UNCHANGED <<infoMode, call, rate, info>>
      BY <1>3, <2>2 DEF Start, ThreadBegins
    <3>2. QED
      BY <3>1 DEF Passed
  <2>3. QED
    BY <1>3, <2>1, <2>2 DEF Start
<1>4. CASE Stop \/ SetClockSource
  BY <1>4 DEF Stop, SetClockSource, Passed, tellVars, clockVars
<1>5. ASSUME NEW r \in Rates, SetSampleRate(r) PROVE Passed'
  BY <1>5 DEF SetSampleRate, Passed, clockVars
<1>6. CASE PositionBegins
  <2>1. "late" \notin raced' => "late" \notin raced
    BY <1>6 DEF PositionBegins
  <2>2. QED
    BY <1>6, <2>1 DEF PositionBegins, Passed, clockVars
<1>7. QED
  BY <1>1, <1>2, <1>3, <1>4, <1>5, <1>6 DEF HostCalls

\* The rest of a call: stop() that gives up waiting is a race.
LEMMA CallsPass ==
    ASSUME CallsTypeOK, Passed, CallGoesOn
    PROVE  Passed'
<1>1. CASE StopReturns
  BY <1>1 DEF StopReturns, Passed, clockVars
<1>2. CASE FlagsRead
  <2>1. /\ info'.time = info.time /\ info'.pos = info.pos
        /\ info'.rate = IF call = "rate" THEN rate ELSE info.rate
    BY <1>2 DEF FlagsRead, CallsTypeOK
  <2>2. /\ UNCHANGED <<host, infoMode, rate, raced, switch, pos, phase>>
    BY <1>2 DEF FlagsRead, clockVars
  <2>3. QED
    BY <2>1, <2>2 DEF Passed
<1>3. ASSUME NEW change \in Changes, FlagsWritten(change) PROVE Passed'
  <2>1. info'.time = info.time /\ info'.pos = info.pos /\ info'.rate = info.rate
    BY <1>3 DEF FlagsWritten, CallsTypeOK
  <2>2. /\ UNCHANGED <<host, infoMode, rate, switch, pos, phase>> /\ call # "rate"
        /\ "late" \notin raced' => "late" \notin raced
    BY <1>3 DEF FlagsWritten, Changes, clockVars
  <2>3. QED
    BY <2>1, <2>2 DEF Passed
<1>4. CASE PositionGoesOn \/ PositionReturns
  BY <1>4 DEF PositionGoesOn, PositionReturns, Passed, tellVars, clockVars
<1>5. QED
  BY <1>1, <1>2, <1>3, <1>4 DEF CallGoesOn

\* A callback leaves the races that are not of a change.
LEMMA ToldKeepsRaces ==
    ASSUME CallsTypeOK, Advances
    PROVE  \A x \in {"late", "switch"} : x \in raced' <=> x \in raced
<1>1. raced' = raced \ info.flags \/ raced' = raced
  BY DEF Advances, TellsHost
<1>2. "late" \notin info.flags /\ "switch" \notin info.flags
  BY DEF CallsTypeOK, Changes
<1>3. QED
  BY <1>1, <1>2

\* The thread: the callback is passed the time and position of its block.
LEMMA ThreadPasses ==
    ASSUME CallsTypeOK, Clock, Passed, AsioThread
    PROVE  Passed'
<1>1. CASE ThreadEnds \/ CallbackReturns \/ Sent \/ ClearReads
  BY <1>1 DEF ThreadEnds, CallbackReturns, Sent, ClearReads, ThreadGoes, tellVars, clockVars, Passed,
              Callbacks
<1>2. CASE Wakes \/ StampsLow
  BY <1>2 DEF Wakes, StampsLow, ThreadGoes, tellVars, Passed
<1>3. CASE Advances
  <2>1. /\ phase = "position" /\ UNCHANGED <<host, call, infoMode, rate, time, switch>>
        /\ "late" \in raced' <=> "late" \in raced
    BY <1>3, ToldKeepsRaces DEF Advances
  <2>2. /\ info'.rate = info.rate
        /\ phase' = "info" => infoMode /\ info'.time = time["lo"] /\ info'.pos = pos'
    BY <1>3 DEF Advances, TellsHost, CallsTypeOK
  <2>3. time["lo"] = switch
    BY <2>1 DEF Clock
  <2>4. QED
    BY <2>1, <2>2, <2>3 DEF Passed
<1>4. CASE ClearWrites
  <2>1. info'.rate = info.rate /\ phase = "cleared" /\ phase' = "send"
    BY <1>4 DEF ClearWrites, ThreadGoes, CallsTypeOK
  <2>2. QED
    BY <1>4, <2>1 DEF ClearWrites, Passed
<1>5. QED
  BY <1>1, <1>2, <1>3, <1>4 DEF AsioThread

-----------------------------------------------------------------------------
(* getSamplePosition. *)

\* The host's thread reads its words one after the other.
LEMMA CallsReadPosition ==
    ASSUME CallsTypeOK, Clock, Position, HostCalls \/ CallGoesOn
    PROVE  Position'
<1>1. CASE PositionBegins
  <2>1. words'["hi"] = switch /\ call' = "position" /\ UNCHANGED <<phase, switch>>
    BY <1>1 DEF PositionBegins, NothingRead, Words, Clock, clockVars
  <2>2. "switch" \notin raced' => phase \notin {"low", "position"}
    BY <1>1 DEF PositionBegins
  <2>3. QED
    BY <2>1, <2>2 DEF Position
<1>2. CASE PositionGoesOn
  <2>1. call = "position" /\ call' = "low" /\ UNCHANGED <<raced, phase, switch>>
    BY <1>2 DEF PositionGoesOn, tellVars, clockVars
  <2>2. words'["hi"] = words["hi"] /\ words'["lo"] = time["lo"]
    BY <1>2 DEF PositionGoesOn, CallsTypeOK, Words
  <2>3. QED
    BY <2>1, <2>2 DEF Position, Clock
<1>3. HostCalls /\ ~PositionBegins => call' \notin {"position", "low"}
  BY DEF HostCalls, CreateBuffers, DisposeBuffers, Start, Stop, SetSampleRate, SetClockSource
<1>4. CallGoesOn /\ ~PositionGoesOn => call' \notin {"position", "low"}
  BY DEF CallGoesOn, StopReturns, FlagsRead, FlagsWritten, PositionReturns
<1>5. QED
  BY <1>1, <1>2, <1>3, <1>4 DEF Position

\* A switch that begins during the call is a race; once it has, the words of
\* one switch do not change any more.
LEMMA ThreadLeavesPosition ==
    ASSUME CallsTypeOK, Position, AsioThread
    PROVE  Position'
<1>1. CASE Wakes
  <2>1. call' = call /\ (call \in {"position", "low"} => "switch" \in raced')
    BY <1>1 DEF Wakes
  <2>2. QED
    BY <2>1 DEF Position
<1>2. CASE StampsLow \/ Advances
  <2>1. /\ phase \in {"low", "position"} /\ call' = call
        /\ "switch" \in raced' <=> "switch" \in raced
    BY <1>2, ToldKeepsRaces DEF StampsLow, Advances, ThreadGoes, tellVars
  <2>2. QED
    BY <2>1 DEF Position
<1>3. CASE ThreadEnds \/ CallbackReturns \/ Sent \/ ClearReads \/ ClearWrites
  <2>1. UNCHANGED <<call, raced, words, switch>> /\ phase' \notin {"low", "position"}
    BY <1>3 DEF ThreadEnds, CallbackReturns, Sent, ClearReads, ClearWrites, ThreadGoes, tellVars,
                clockVars
  <2>2. QED
    BY <2>1 DEF Position
<1>4. QED
  BY <1>1, <1>2, <1>3 DEF AsioThread

-----------------------------------------------------------------------------
(* The flags that tell a change. *)

\* A call of the host begins: what createBuffers takes from the flags is dropped.
LEMMA HostCallsFlag ==
    ASSUME CallsTypeOK, Flagged, HostCalls
    PROVE  Flagged'
<1>1. ASSUME NEW infos \in Requests, NEW timeInfo \in BOOLEAN, CreateBuffers(infos, timeInfo)
      PROVE  Flagged'
  <2>1. /\ UNCHANGED <<call, phase, seen, untold>>
        /\ untold \subseteq dropped' \/ UNCHANGED <<info, dropped, raced>>
    BY <1>1 DEF CreateBuffers
  <2>2. QED
    BY <2>1 DEF Flagged
<1>2. CASE DisposeBuffers
  BY <1>2 DEF DisposeBuffers, Flagged, tellVars
<1>3. CASE Start
  <2>1. CASE UNCHANGED <<started, phase, clockVars, raced>>
    BY <1>3, <2>1 DEF Start, Flagged
  <2>2. CASE ThreadBegins
    <3>1. /\ phase' = "wait" /\ raced' = raced \ {"late"} /\ call' = "none"
          /\ UNCHANGED <<info, untold, dropped>>
      BY <1>3, <2>2 DEF Start, ThreadBegins
    <3>2. "late" \notin untold
      BY DEF CallsTypeOK, Changes
    <3>3. QED
      BY <3>1, <3>2 DEF Flagged
  <2>3. QED
    BY <1>3, <2>1, <2>2 DEF Start
<1>4. CASE Stop \/ SetClockSource
  BY <1>4 DEF Stop, SetClockSource, Flagged, tellVars
<1>5. ASSUME NEW r \in Rates, SetSampleRate(r) PROVE Flagged'
  BY <1>5 DEF SetSampleRate, Flagged
<1>6. CASE PositionBegins
  <2>1. raced \subseteq raced' /\ call' = "position" /\ UNCHANGED <<info, seen, untold, dropped, phase>>
    BY <1>6 DEF PositionBegins
  <2>2. QED
    BY <2>1 DEF Flagged
<1>7. QED
  BY <1>1, <1>2, <1>3, <1>4, <1>5, <1>6 DEF HostCalls

\* The rest of a call: what the host's thread writes is what it has read and
\* the change.
LEMMA CallsFlag ==
    ASSUME CallsTypeOK, Flagged, CallGoesOn
    PROVE  Flagged'
<1>1. CASE StopReturns
  <2>1. raced \subseteq raced' /\ call' = "none" /\ UNCHANGED <<info, seen, untold, dropped, phase>>
    BY <1>1 DEF StopReturns
  <2>2. QED
    BY <2>1 DEF Flagged
<1>2. CASE FlagsRead
  <2>1. info'.flags = info.flags /\ seen'["host"] = info.flags
        /\ UNCHANGED <<untold, dropped, raced, phase>>
    BY <1>2 DEF FlagsRead, CallsTypeOK
  <2>2. QED
    BY <2>1 DEF Flagged
<1>3. ASSUME NEW change \in Changes, FlagsWritten(change) PROVE Flagged'
  <2>1. /\ info'.flags = seen["host"] \cup {change}
        /\ untold' = untold \cup {change} /\ dropped' = dropped \ {change} /\ call' = "none" /\ phase' = phase
        /\ IF phase \in {"info", "clear", "cleared"} THEN raced' = raced \cup {change}
                                                     ELSE raced' = raced \ {change}
    BY <1>3 DEF FlagsWritten, CallsTypeOK
  <2>2. untold \subseteq seen["host"] \cup raced \cup dropped
    BY <1>3 DEF FlagsWritten, Flagged
  <2>3. QED
    BY <2>1, <2>2 DEF Flagged
<1>4. CASE PositionGoesOn
  BY <1>4 DEF PositionGoesOn, Flagged, tellVars
<1>5. CASE PositionReturns
  <2>1. raced' = raced \ {"switch"} /\ call' = "none" /\ UNCHANGED <<info, seen, untold, dropped, phase>>
    BY <1>5 DEF PositionReturns
  <2>2. "switch" \notin untold
    BY DEF CallsTypeOK, Changes
  <2>3. QED
    BY <2>1, <2>2 DEF Flagged
<1>6. QED
  BY <1>1, <1>2, <1>3, <1>4, <1>5 DEF CallGoesOn

\* The thread: the callback is told what is flagged, and then the flags may go.
LEMMA ThreadFlags ==
    ASSUME CallsTypeOK, Flagged, AsioThread
    PROVE  Flagged'
<1>1. CASE ThreadEnds \/ StampsLow \/ Sent
  BY <1>1 DEF ThreadEnds, StampsLow, Sent, ThreadGoes, tellVars, Flagged
<1>2. CASE Wakes
  <2>1. raced \subseteq raced' /\ phase' = "low" /\ UNCHANGED <<call, info, seen, untold, dropped>>
    BY <1>2 DEF Wakes, ThreadGoes
  <2>2. QED
    BY <2>1 DEF Flagged
<1>3. CASE CallbackReturns
  BY <1>3 DEF CallbackReturns, tellVars, Flagged, Callbacks
<1>4. CASE Advances
  <2>1. /\ UNCHANGED <<call, seen, dropped>> /\ info'.flags = info.flags
        /\ IF infoMode THEN untold' = untold \ info.flags /\ raced' = raced \ info.flags
                       ELSE UNCHANGED <<untold, raced>> /\ phase' = "plain"
    BY <1>4 DEF Advances, TellsHost, CallsTypeOK
  <2>2. QED
    BY <2>1 DEF Flagged
<1>5. CASE ClearReads
  <2>1. /\ phase = "clear" /\ phase' = "cleared" /\ seen'["host"] = seen["host"]
        /\ UNCHANGED <<call, info, untold, dropped, raced>>
    BY <1>5 DEF ClearReads, ThreadGoes, CallsTypeOK
  <2>2. QED
    BY <2>1 DEF Flagged
<1>6. CASE ClearWrites
  <2>1. /\ phase = "cleared" /\ phase' = "send" /\ seen'["host"] = seen["host"]
        /\ UNCHANGED <<call, untold, dropped, raced>>
    BY <1>6 DEF ClearWrites, ThreadGoes, CallsTypeOK
  <2>2. QED
    BY <2>1 DEF Flagged
<1>7. QED
  BY <1>1, <1>2, <1>3, <1>4, <1>5, <1>6 DEF AsioThread

-----------------------------------------------------------------------------

\* The constructor's state.
LEMMA CallsInitHolds == CallsInit => CallsIInv
<1> SUFFICES ASSUME CallsInit PROVE CallsIInv
  OBVIOUS
<1>1. 0 % PosMod = 0
  BY Bounds
<1>2. Clock
  BY <1>1 DEF CallsInit, Clock, Words
<1>3. Passed /\ Position /\ Flagged
  BY DEF CallsInit, Passed, Position, Flagged
<1>4. Buffered
  <2>1. heap = {} /\ table = EmptyTable /\ answer = [asked |-> 0, error |-> "none"]
    BY DEF CallsInit
  <2>2. DOMAIN table["in"] = {} /\ DOMAIN table["out"] = {} /\ MemoryOf(table) = {}
    BY <2>1, EmptyHasNone DEF Directions
  <2>3. Cardinality({}) = 0
    BY FS_EmptySet
  <2>4. QED
    BY <2>1, <2>2, <2>3 DEF Buffered, Count
<1>5. CallsTypeOK
  <2>1. DOMAIN table = Directions /\ \A d \in Directions : table[d] \in [DOMAIN table[d] -> Entry]
    BY DEF CallsInit, EmptyTable
  <2>2. info \in [rate : Rates, flags : SUBSET Changes, time : 0..MaxSwitches, pos : 0..PosMod - 1]
    BY Bounds DEF CallsInit
  <2>3. /\ seen \in [{"host", "thread"} -> SUBSET Changes]
        /\ time \in [Words -> 0..MaxSwitches] /\ words \in [Words -> 0..MaxSwitches]
    BY Bounds DEF CallsInit, NothingRead
  <2>4. QED
    BY <2>1, <2>2, <2>3, Bounds DEF CallsInit, CallsTypeOK
<1>6. QED
  BY <1>2, <1>3, <1>4, <1>5 DEF CallsIInv

\* The invariant holds in every state.
THEOREM CallsInvariance == CallsSpec => []CallsIInv
<1>1. CallsInit => CallsIInv
  BY CallsInitHolds
<1>2. CallsIInv /\ [CallsNext]_driverVars => CallsIInv'
  <2> SUFFICES ASSUME CallsIInv, [CallsNext]_driverVars PROVE CallsIInv'
    OBVIOUS
  <2>1. CASE CallsNext
    <3>1. CallsTypeOK' /\ Buffered'
      BY <2>1, StepKeepsTypes
    <3>2. Clock'
      BY <2>1, ThreadKeepsClock, CallsKeepClock DEF CallsIInv, CallsNext
    <3>3. Passed'
      BY <2>1, HostCallsPass, CallsPass, ThreadPasses DEF CallsIInv, CallsNext
    <3>4. Position'
      BY <2>1, CallsReadPosition, ThreadLeavesPosition DEF CallsIInv, CallsNext
    <3>5. Flagged'
      BY <2>1, HostCallsFlag, CallsFlag, ThreadFlags DEF CallsIInv, CallsNext
    <3>6. QED
      BY <3>1, <3>2, <3>3, <3>4, <3>5 DEF CallsIInv
  <2>2. CASE UNCHANGED driverVars
    <3> USE <2>2 DEF driverVars, bufferVars, tellVars, clockVars
    <3>0. UNCHANGED <<host, call, infoMode, started, table, heap, answer, rate, info, seen,
                      time, pos, switch, phase, words, untold, dropped, raced>>
      OBVIOUS
    <3>1. CallsTypeOK'
      <4>1. CallsTypeOK
        BY DEF CallsIInv
      <4>2. /\ host' = host /\ call' = call /\ infoMode' = infoMode /\ started' = started
            /\ table' = table /\ heap' = heap /\ answer' = answer /\ rate' = rate
            /\ info' = info /\ seen' = seen /\ time' = time /\ pos' = pos
            /\ switch' = switch /\ phase' = phase /\ words' = words
            /\ untold' = untold /\ dropped' = dropped /\ raced' = raced
        BY <3>0
      <4>3. /\ DOMAIN table' = Directions
            /\ \A d \in Directions : table'[d] \in [DOMAIN table'[d] -> Entry]
        BY ONLY <4>1, <4>2, Zenon DEF CallsTypeOK
      <4>4. /\ host' \in {"loaded", "prepared", "running"}
            /\ call' \in {"none", "stop", "rate", "clock", "rate flagged", "clock flagged",
                         "position", "low"}
            /\ infoMode' \in BOOLEAN /\ started' \in BOOLEAN
            /\ heap' \in SUBSET Memory
            /\ answer' \in [asked : Nat, error : {"none", "ok", "thrown"}]
            /\ rate' \in Rates
        BY ONLY <4>1, <4>2, Zenon DEF CallsTypeOK
      <4>5. QED
        BY ONLY <4>1, <4>2, <4>3, <4>4, Zenon DEF CallsTypeOK
    <3>2. Clock' /\ Passed' /\ Position' /\ Flagged'
      BY DEF CallsIInv, Clock, Passed, Position, Flagged
    <3>3. Buffered'
      BY DEF CallsIInv, Buffered, Count
    <3>4. QED
      BY <3>1, <3>2, <3>3 DEF CallsIInv
  <2>3. QED
    BY <2>1, <2>2
<1>3. QED
  BY <1>1, <1>2, PTL DEF CallsSpec

\* Every block of memory is the buffer of one channel, and every channel that
\* createBuffers says it has prepared has one.
THEOREM EveryBufferIsOnce == CallsSpec => []EveryBufferOnce
<1>1. CallsIInv => EveryBufferOnce
  BY DEF CallsIInv, Buffered, EveryBufferOnce
<1>2. QED
  BY <1>1, CallsInvariance, PTL

\* Time and position are those of the block.
THEOREM TimeIsOfItsBlock == CallsSpec => []TimeOfItsBlock
<1>1. CallsIInv => TimeOfItsBlock
  <2> SUFFICES ASSUME CallsIInv PROVE TimeOfItsBlock
    OBVIOUS
  <2>1. phase \in Callbacks => pos = switch % PosMod /\ \A w \in Words : time[w] = switch
    BY DEF CallsIInv, Clock, Callbacks, Words
  <2>2. phase = "info" /\ "late" \notin raced =>
          info.time = switch /\ info.pos = pos /\ (call # "rate" => info.rate = rate)
    BY DEF CallsIInv, Passed
  <2>3. call = "low" /\ "switch" \notin raced =>
          words["hi"] = words["lo"] /\ pos = words["hi"] % PosMod
    BY DEF CallsIInv, Position, Clock
  <2>4. QED
    BY <2>1, <2>2, <2>3 DEF TimeOfItsBlock
<1>2. QED
  BY <1>1, CallsInvariance, PTL

\* A change stays flagged until a callback tells it, unless it was made during
\* such a callback, or the host prepares the driver again before one tells it.
THEOREM ChangeIsAlwaysTold == CallsSpec => []ChangeIsTold
<1>1. CallsIInv => ChangeIsTold
  BY DEF CallsIInv, Flagged, ChangeIsTold
<1>2. QED
  BY <1>1, CallsInvariance, PTL

=============================================================================
