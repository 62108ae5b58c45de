------------------------------ MODULE ComServer ------------------------------
(***************************************************************************)
(* dk_asio_user.dll as a COM server: DllGetClassObject, the class factory, *)
(* the reference counts of the objects and DllCanUnloadNow, called by the  *)
(* threads of one host.  A class factory is used by the thread that asked  *)
(* for it (ThreadingModel "Apartment"); references to objects are handed   *)
(* from thread to thread, as ASIO hosts do with a driver's pointer.        *)
(*                                                                         *)
(* The counts of objects and of references are changed by Interlocked      *)
(* calls; CClassFactory::m_cLocked is not, so that LockServer is two       *)
(* steps.  So is Release, which looks at m_cRef again after the decrement, *)
(* and DllCanUnloadNow, which looks at two counts one after the other.     *)
(***************************************************************************)
EXTENDS Integers, FiniteSets

CONSTANTS
    Threads,     \* the host's threads
    NoThread,
    Objects,     \* the DKASIOUser objects it creates, each of them once
    NoObject,
    References,  \* places for references to objects: at most this many at a time
    MaxRefs,     \* bound on the references to one class factory
    MaxLocks,    \* bound on the locks a thread asks for
    MaxCount     \* bound on how far lost updates may take m_cLocked from 0

ASSUME ThreadsAssumption == NoThread \notin Threads
ASSUME ObjectsAssumption == IsFiniteSet(Objects) /\ NoObject \notin Objects
ASSUME ReferencesAssumption == IsFiniteSet(References)
ASSUME BoundsAssumption == MaxRefs \in Nat \ {0} /\ MaxLocks \in Nat /\ MaxCount \in Nat

\* What may go wrong with the count of locks: a change of m_cLocked was
\* overwritten by another thread's; a lock was granted when DllCanUnloadNow was
\* past its test of the locks.
Races == {"count", "window"}

VARIABLES
    dll,       \* "absent", "loaded", "leaving"
    locked,    \* CClassFactory::m_cLocked
    objects,   \* CBaseObject::m_cObjects
    life,      \* life[o]: "none", "built", "gone"
    ref,       \* ref[o]: m_cRef of o
    of,        \* of[r]: the object reference r is to, NoObject: r is free
    holder,    \* holder[r]: the thread that has to release r
    factory,   \* factory[t]: m_cRef of the class factory of t, 0: it has none
    locks,     \* locks[t]: locks that t was granted and has not given back
    pc,        \* pc[t]: where t is in a call
    arg,       \* arg[t]: the object of that call
    read,      \* read[t]: m_cLocked as t has read it, or what its decrement left
    races

countVars == <<locked, objects, ref>>
heldVars == <<of, holder>>
vars == <<dll, countVars, life, heldVars, factory, locks, pc, arg, read, races>>

Built == {o \in Objects : life[o] = "built"}

\* The references to o.
HeldOn(o) == {r \in References : of[r] = o}

Holds(t, r, o) == of[r] = o /\ holder[r] = t

\* What becomes of the places when reference r to o is given to t.
Gives(r, t, o) == of' = [of EXCEPT ![r] = o] /\ holder' = [holder EXCEPT ![r] = t]

Frees(r) == Gives(r, NoThread, NoObject)

Init ==
    /\ dll = "absent"
    /\ locked = 0
    /\ objects = 0
    /\ life = [o \in Objects |-> "none"]
    /\ ref = [o \in Objects |-> 0]
    /\ of = [r \in References |-> NoObject]
    /\ holder = [r \in References |-> NoThread]
    /\ factory = [t \in Threads |-> 0]
    /\ locks = [t \in Threads |-> 0]
    /\ pc = [t \in Threads |-> "host"]
    /\ arg = [t \in Threads |-> NoObject]
    /\ read = [t \in Threads |-> 0]
    /\ races = {}

\* The host's thread calls into the DLL, which COM has not begun to unload.
Calls(t) == pc[t] = "host" /\ dll = "loaded"

Enters(t, where, o, value) ==
    /\ pc' = [pc EXCEPT ![t] = where]
    /\ arg' = [arg EXCEPT ![t] = o]
    /\ read' = [read EXCEPT ![t] = value]

Returns(t) == Enters(t, "host", NoObject, 0)

NoCall == UNCHANGED <<pc, arg, read>>

-----------------------------------------------------------------------------
(* The DLL and the class factory. *)

\* DllMain( DLL_PROCESS_ATTACH ): the counts have their initial values.
Load ==
    /\ dll = "absent"
    /\ dll' = "loaded"
    /\ UNCHANGED <<countVars, life, heldVars, factory, locks, races>> /\ NoCall

\* DllGetClassObject makes a factory of its own for every caller, whatever the
\* class is.
GetClassObject(t) ==
    /\ Calls(t)
    /\ factory[t] = 0
    /\ factory' = [factory EXCEPT ![t] = 1]
    /\ UNCHANGED <<dll, countVars, life, heldVars, locks, races>> /\ NoCall

\* AddRef of the factory, or QueryInterface for one of its interfaces.
FactoryAddRef(t) ==
    /\ Calls(t)
    /\ factory[t] \in 1..(MaxRefs - 1)
    /\ factory' = [factory EXCEPT ![t] = @ + 1]
    /\ UNCHANGED <<dll, countVars, life, heldVars, locks, races>> /\ NoCall

FactoryRelease(t) ==
    /\ Calls(t)
    /\ factory[t] > 0
    /\ factory' = [factory EXCEPT ![t] = @ - 1]
    /\ UNCHANGED <<dll, countVars, life, heldVars, locks, races>> /\ NoCall

\* LockServer reads m_cLocked.  A lock that is given back no longer counts.
LockServer(t, lock) ==
    /\ Calls(t)
    /\ factory[t] > 0
    /\ locked \in -MaxCount..MaxCount
    /\ IF lock
         THEN locks[t] < MaxLocks /\ UNCHANGED locks
         ELSE locks[t] > 0 /\ locks' = [locks EXCEPT ![t] = @ - 1]
    /\ Enters(t, IF lock THEN "lock" ELSE "unlock", NoObject, locked)
    /\ UNCHANGED <<dll, countVars, life, heldVars, factory, races>>

\* What has gone wrong when t stores m_cLocked.
Wrong(t) ==
    {r \in Races : \/ r = "count" /\ locked # read[t]
                   \/ /\ r = "window"
                      /\ dll = "leaving" \/ \E u \in Threads : pc[u] = "asked"}

\* LockServer( TRUE ) stores it.
LockStored(t) ==
    /\ pc[t] = "lock"
    /\ locked' = read[t] + 1
    /\ locks' = [locks EXCEPT ![t] = @ + 1]
    /\ races' = races \cup Wrong(t)
    /\ Returns(t)
    /\ UNCHANGED <<dll, objects, life, ref, heldVars, factory>>

UnlockStored(t) ==
    /\ pc[t] = "unlock"
    /\ locked' = read[t] - 1
    /\ races' = races \cup (Wrong(t) \ {"window"})
    /\ Returns(t)
    /\ UNCHANGED <<dll, objects, life, ref, heldVars, factory, locks>>

-----------------------------------------------------------------------------
(* The objects. *)

\* The constructors of CBaseObject and CUnknown: the object is counted, and has
\* no references.
Constructed(o) ==
    /\ life' = [life EXCEPT ![o] = "built"]
    /\ ref' = [ref EXCEPT ![o] = 0]
    /\ objects' = objects + 1

Destroyed(o) ==
    /\ life' = [life EXCEPT ![o] = "gone"]
    /\ objects' = objects - 1

CreateInstance(t, o) ==
    /\ Calls(t)
    /\ factory[t] > 0
    /\ life[o] = "none"
    /\ Constructed(o)
    /\ Enters(t, "created", o, 0)
    /\ UNCHANGED <<dll, locked, heldVars, factory, locks, races>>

\* NonDelegatingQueryInterface gives t a reference to o if it knows the interface.
Queried(t, o, known) ==
    IF known
      THEN \E r \in HeldOn(NoObject) : Gives(r, t, o)
      ELSE UNCHANGED heldVars

\* A mutation of Created: NonDelegatingRelease is not called.
CreatedUnreleased(t, known) ==
    LET o == arg[t]
    IN  /\ pc[t] = "created"
        /\ ref' = [ref EXCEPT ![o] = IF known THEN 2 ELSE 1]
        /\ Queried(t, o, known)
        /\ Returns(t)
        /\ UNCHANGED <<dll, locked, objects, life, factory, locks, races>>

\* Then NonDelegatingAddRef, NonDelegatingQueryInterface, which adds a reference
\* if the interface is a known one, and NonDelegatingRelease, which destroys
\* the object if it is not.
Created(t, known) ==
    LET o == arg[t]
    IN  /\ pc[t] = "created"
        /\ ref' = [ref EXCEPT ![o] = 1]
        /\ Queried(t, o, known)
        /\ IF known THEN UNCHANGED <<life, objects>> ELSE Destroyed(o)
        /\ Returns(t)
        /\ UNCHANGED <<dll, locked, factory, locks, races>>

\* AddRef, and QueryInterface for a known interface (GetInterface).
AddRef(t, o) ==
    /\ Calls(t)
    /\ \E r \in References : Holds(t, r, o)
    /\ ref' = [ref EXCEPT ![o] = @ + 1]
    /\ Queried(t, o, TRUE)
    /\ UNCHANGED <<dll, locked, objects, life, factory, locks, races>> /\ NoCall

\* The host gives a reference of t to u.
HandOver(t, u, r) ==
    /\ pc[t] = "host"
    /\ t # u
    /\ holder[r] = t
    /\ holder' = [holder EXCEPT ![r] = u]
    /\ UNCHANGED <<dll, countVars, life, of, factory, locks, races>> /\ NoCall

\* NonDelegatingRelease decrements the count.
Release(t, r) ==
    LET o == of[r]
    IN  /\ Calls(t)
        /\ holder[r] = t
        /\ Frees(r)
        /\ ref' = [ref EXCEPT ![o] = @ - 1]
        /\ Enters(t, "released", o, ref[o] - 1)
        /\ UNCHANGED <<dll, locked, objects, life, factory, locks, races>>

\* A mutation of Deletes: the object goes with the last reference but one.
DeletesEarly(t) ==
    /\ pc[t] = "released"
    /\ read[t] <= 1
    /\ ref' = [ref EXCEPT ![arg[t]] = @ + 1]
    /\ Destroyed(arg[t])
    /\ Returns(t)
    /\ UNCHANGED <<dll, locked, heldVars, factory, locks, races>>

\* The last reference is gone: m_cRef++ and delete this.
Deletes(t) ==
    /\ pc[t] = "released"
    /\ read[t] = 0
    /\ ref' = [ref EXCEPT ![arg[t]] = @ + 1]
    /\ Destroyed(arg[t])
    /\ Returns(t)
    /\ UNCHANGED <<dll, locked, heldVars, factory, locks, races>>

\* It is not: m_cRef is read once more, for the result.
Remains(t) ==
    /\ pc[t] = "released"
    /\ read[t] # 0
    /\ Returns(t)
    /\ UNCHANGED <<dll, countVars, life, heldVars, factory, locks, races>>

-----------------------------------------------------------------------------
(* DllCanUnloadNow, which COM calls for a thread of the host. *)

\* A mutation of CanUnloadNow: the locks are not looked at.
CanUnloadUnlocked(t) ==
    /\ Calls(t)
    /\ Enters(t, "asked", NoObject, 0)
    /\ UNCHANGED <<dll, countVars, life, heldVars, factory, locks, races>>

\* IsLocked(): S_FALSE if there is a lock.
CanUnloadNow(t) ==
    /\ Calls(t)
    /\ locked <= 0
    /\ Enters(t, "asked", NoObject, 0)
    /\ UNCHANGED <<dll, countVars, life, heldVars, factory, locks, races>>

\* A mutation of CanUnloadAnswers: the objects are not looked at.
CanUnloadAtOnce(t) ==
    /\ pc[t] = "asked"
    /\ dll' = "leaving"
    /\ Returns(t)
    /\ UNCHANGED <<countVars, life, heldVars, factory, locks, races>>

\* ObjectsActive(): S_FALSE if there are objects, else S_OK, and COM unloads the
\* DLL.  That never ends: DLL_PROCESS_DETACH destroys g_asioRoot, which waits
\* for its receive threads, and they cannot end while the loader's lock is held.
CanUnloadAnswers(t) ==
    /\ pc[t] = "asked"
    /\ dll' = IF objects # 0 THEN dll ELSE "leaving"
    /\ Returns(t)
    /\ UNCHANGED <<countVars, life, heldVars, factory, locks, races>>

-----------------------------------------------------------------------------

FactoryCalls(t) ==
    \/ GetClassObject(t) \/ FactoryAddRef(t) \/ FactoryRelease(t)
    \/ \E lock \in BOOLEAN : LockServer(t, lock)
    \/ LockStored(t) \/ UnlockStored(t)

ObjectCalls(t) ==
    \/ \E o \in Objects : CreateInstance(t, o) \/ AddRef(t, o)
    \/ \E r \in References : Release(t, r) \/ \E u \in Threads : HandOver(t, u, r)
    \/ \E known \in BOOLEAN : Created(t, known)
    \/ Deletes(t) \/ Remains(t)

Unloading(t) == CanUnloadNow(t) \/ CanUnloadAnswers(t)

Next == Load \/ \E t \in Threads : FactoryCalls(t) \/ ObjectCalls(t) \/ Unloading(t)

Spec == Init /\ [][Next]_vars

-----------------------------------------------------------------------------

TypeOK ==
    /\ dll \in {"absent", "loaded", "leaving"}
    /\ locked \in Int /\ objects \in Int
    /\ life \in [Objects -> {"none", "built", "gone"}]
    /\ ref \in [Objects -> Int]
    /\ of \in [References -> Objects \cup {NoObject}]
    /\ holder \in [References -> Threads \cup {NoThread}]
    /\ factory \in [Threads -> 0..MaxRefs]
    /\ locks \in [Threads -> 0..MaxLocks]
    /\ pc \in [Threads -> {"host", "lock", "unlock", "created", "released", "asked"}]
    /\ arg \in [Threads -> Objects \cup {NoObject}]
    /\ read \in [Threads -> Int]
    /\ races \in SUBSET Races

\* DllCanUnloadNow never says S_OK while an object exists, whatever threads
\* create and release at that moment.
ObjectsStay == dll # "loaded" => Built = {}

\* An object is not destroyed while some thread has a reference to it.
HeldExists == \A r \in References : of[r] # NoObject => of[r] \in Built

\* There is a reference to o, or a thread is creating or releasing it.
InUse(o) == HeldOn(o) # {} \/ \E t \in Threads : arg[t] = o

\* An object nobody can release any more has been destroyed: a host that asks
\* CreateInstance for an interface the driver does not have leaves nothing
\* behind, and m_cObjects lets the DLL go.
NothingLeaked == \A o \in Built : InUse(o)

\* DllCanUnloadNow does not say S_OK while a lock is requested, unless two
\* threads called LockServer at once, or one during DllCanUnloadNow.
LocksStayUnlessRaced ==
    races = {} => (dll = "leaving" => \A t \in Threads : locks[t] = 0)
=============================================================================
