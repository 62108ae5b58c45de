-------------------------- MODULE RegistrationProofs --------------------------
(***************************************************************************)
(* regsvr32 touches no key that is not the driver's own, a registration    *)
(* leaves a complete entry and an unregistration leaves nothing: for any   *)
(* directories, any number of runs, failed calls and killed processes.     *)
(*                                                                         *)
(* What carries over from step to step is that what findAllSubKeys has     *)
(* listed is the driver's own, that the registry stays a tree above the    *)
(* driver's keys, and what a run has achieved wherever it is, which the    *)
(* other build's process cannot undo.                                      *)
(***************************************************************************)
EXTENDS Registration, SequenceTheorems, TLAPS

\* The driver's own keys of build b, whether they exist or not.
Own(b, k) == IsPrefix(ClassKey(b), k) \/ IsPrefix(DriverKey(b), k)

\* What is still to be deleted is the driver's own.
ListedAreOwn == \A b \in Builds : \A k \in todo[b] : Own(b, k)

\* The functions of the processes have a place for each build.
Shapes == DOMAIN at = Builds /\ DOMAIN todo = Builds

IInv == Shapes /\ ListedAreOwn

\* A key of the registry may have changed: what b's process may do to it.
May(b, k) ==
    /\ <<op[b], at[b], todo[b]>>' # <<op[b], at[b], todo[b]>>
    /\ Own(b, k) \/ (k = AsioKey(b) /\ k \notin DOMAIN reg)

\* The registry is the same, but for key and what b may do to it.
Kept(k) == k \in DOMAIN reg /\ k \in DOMAIN reg' /\ reg'[k] = reg[k]

Touched(b) == \A k \in DOMAIN reg \cup DOMAIN reg' : Kept(k) \/ May(b, k)

-----------------------------------------------------------------------------
(* The keys. *)

\* A sequence is a prefix of itself and of what is appended to it.
LEMMA PrefixKept ==
    ASSUME NEW S, NEW s \in Seq(S), NEW e \in S
    PROVE  IsPrefix(s, s) /\ IsPrefix(s, Append(s, e))
<1> DEFINE t == Append(s, e)
<1>1. Len(s) \in Nat /\ t \in Seq(S) /\ Len(t) = Len(s) + 1
  OBVIOUS
<1>2. SubSeq(s, 1, Len(s)) = s
  BY <1>1, SubSeqFull
<1>3. SubSeq(t, 1, Len(s)) = s
  <2>1. t = s \o <<e>> /\ <<e>> \in Seq(S)
    BY AppendIsConcat
  <2>2. SubSeq(t, 1, Len(s)) = SubSeq(s, 1, Len(s))
    BY <1>1, <2>1, SubSeqOfConcat1
  <2>3. QED
    BY <1>2, <2>2
<1>4. QED
  BY <1>1, <1>2, <1>3 DEF IsPrefix

\* The names on the paths of all keys.
Names == {"HKCR", "HKLM", "CLSID", "SOFTWARE", "Wow6432Node", "ASIO",
          "{188135E1}", "InprocServer32", "DK ASIO Driver", "{OTHER}", "Other Driver",
          "Implemented Categories", "{ASIO}"}

\* The three keys the driver's values are put under are its own.
LEMMA OwnKeys ==
    ASSUME NEW b \in Builds
    PROVE  Own(b, ClassKey(b)) /\ Own(b, ServerKey(b)) /\ Own(b, DriverKey(b))
<1>0. "InprocServer32" \in Names
  BY DEF Names
<1>1. ClassesRoot(b) \in Seq(Names) /\ SoftwareRoot(b) \in Seq(Names)
  <2>1. /\ <<"HKCR", "Wow6432Node", "CLSID">> \in Seq(Names)
        /\ <<"HKLM", "SOFTWARE", "Wow6432Node">> \in Seq(Names)
    BY DEF Names
  <2>2. <<"HKCR", "CLSID">> \in Seq(Names) /\ <<"HKLM", "SOFTWARE">> \in Seq(Names)
    BY DEF Names
  <2>3. QED
    BY <2>1, <2>2 DEF ClassesRoot, SoftwareRoot
<1>2. ClassKey(b) \in Seq(Names) /\ AsioKey(b) \in Seq(Names) /\ DriverKey(b) \in Seq(Names)
  <2>1. {"{188135E1}", "ASIO", "DK ASIO Driver"} \subseteq Names
    BY DEF Names
  <2>2. AsioKey(b) \in Seq(Names)
    BY <1>1, <2>1, AppendProperties DEF AsioKey
  <2>3. QED
    BY <1>1, <2>1, <2>2, AppendProperties DEF ClassKey, DriverKey
<1>3. IsPrefix(ClassKey(b), ClassKey(b)) /\ IsPrefix(DriverKey(b), DriverKey(b))
  BY <1>0, <1>2, PrefixKept
<1>4. IsPrefix(ClassKey(b), ServerKey(b))
  BY <1>0, <1>2, PrefixKept DEF ServerKey
<1>5. QED
  BY <1>3, <1>4 DEF Own

\* What is below one of the driver's keys is its own.
LEMMA OwnBelow ==
    ASSUME NEW b \in Builds, NEW key \in {ClassKey(b), DriverKey(b)},
           NEW k \in AllSubKeys(key)
    PROVE  Own(b, k)
BY DEF AllSubKeys, Under, Own

-----------------------------------------------------------------------------
(* The registry calls. *)

\* A call that may change reg at one of the driver's own keys, and moves on.
LEMMA ChangeTouches ==
    ASSUME NEW b \in Builds, NEW key, NEW possible \in BOOLEAN,
           NEW after \in {WithKey(key), WithoutKey(key)},
           Own(b, key) \/ (key = AsioKey(b) /\ after = WithKey(key)),
           Change(b, possible, after),
           <<op[b], at[b], todo[b]>>' # <<op[b], at[b], todo[b]>>
    PROVE  Touched(b)
<1>1. CASE reg' = reg
  BY <1>1 DEF Touched, Kept
<1>2. CASE reg' = WithKey(key)
  BY <1>2 DEF Touched, Kept, May, WithKey
<1>3. CASE reg' = WithoutKey(key) /\ Own(b, key)
  BY <1>3 DEF Touched, Kept, May, WithoutKey
<1>4. QED
  BY <1>1, <1>2, <1>3 DEF Change

\* Setting a value below one of the driver's own keys.
LEMMA ValueTouches ==
    ASSUME NEW b \in Builds, NEW key, NEW data, NEW name, Own(b, key),
           Change(b, key \in DOMAIN reg, WithValue(key, name, data)),
           <<op[b], at[b], todo[b]>>' # <<op[b], at[b], todo[b]>>
    PROVE  Touched(b)
<1>1. CASE reg' = reg
  BY <1>1 DEF Touched, Kept
<1>2. CASE key \in DOMAIN reg /\ reg' = WithValue(key, name, data)
  BY <1>2 DEF Touched, Kept, May, WithValue
<1>3. QED
  BY <1>1, <1>2 DEF Change

-----------------------------------------------------------------------------
(* The steps of a process. *)

\* Nothing is added to the lists but what the driver owns.
LEMMA ListsStayOwn ==
    ASSUME IInv, NEW b \in Builds, NEW S, \A k \in S : Own(b, k),
           todo' = [todo EXCEPT ![b] = S], DOMAIN at' = Builds
    PROVE  IInv'
<1>1. \A x \in Builds : todo'[x] = IF x = b THEN S ELSE todo[x]
  BY DEF IInv, Shapes
<1>2. Shapes'
  BY DEF IInv, Shapes
<1>3. ListedAreOwn'
  BY <1>1 DEF IInv, ListedAreOwn
<1>4. QED
  BY <1>2, <1>3 DEF IInv

\* A step that leaves the registry and the lists alone.
LEMMA Idle ==
    ASSUME IInv, NEW b \in Builds, UNCHANGED <<reg, todo>>, DOMAIN at' = Builds
    PROVE  IInv' /\ Touched(b)
<1>1. IInv'
  BY DEF IInv, Shapes, ListedAreOwn
<1>2. Touched(b)
  BY DEF Touched, Kept
<1>3. QED
  BY <1>1, <1>2

\* findRegPath
LEMMA FindStep ==
    ASSUME IInv, NEW b \in Builds, NEW key, NEW found, NEW missing, Find(b, key, found, missing)
    PROVE  IInv' /\ Touched(b)
<1>1. UNCHANGED <<reg, todo>> /\ DOMAIN at' = Builds
  BY DEF IInv, Shapes, Find, Goes
<1>2. QED
  BY <1>1, Idle

\* createRegPath
LEMMA CreateStep ==
    ASSUME IInv, NEW b \in Builds, NEW key, NEW next, next # at[b],
           Own(b, key) \/ key = AsioKey(b), CreateKey(b, key, next)
    PROVE  IInv' /\ Touched(b)
<1>1. todo' = todo /\ DOMAIN at' = Builds /\ at'[b] = next
  BY DEF IInv, Shapes, CreateKey, Goes
<1>2. IInv'
  BY <1>1 DEF IInv, Shapes, ListedAreOwn
<1>3. <<op[b], at[b], todo[b]>>' # <<op[b], at[b], todo[b]>>
  BY <1>1
<1>4. Change(b, Parent(key) \in DOMAIN reg, WithKey(key))
  BY DEF CreateKey
<1>5. Touched(b)
  <2>1. (Parent(key) \in DOMAIN reg) \in BOOLEAN
    OBVIOUS
  <2>2. WithKey(key) \in {WithKey(key), WithoutKey(key)}
    OBVIOUS
  <2>3. QED
    BY <1>3, <1>4, <2>1, <2>2, ChangeTouches
<1>6. QED
  BY <1>2, <1>5

\* createRegStringValue
LEMMA SetStep ==
    ASSUME IInv, NEW b \in Builds, NEW key, NEW name, NEW data, NEW next, next # at[b],
           Own(b, key), SetValue(b, key, name, data, next)
    PROVE  IInv' /\ Touched(b)
<1>1. todo' = todo /\ DOMAIN at' = Builds /\ at'[b] = next
  BY DEF IInv, Shapes, SetValue, Goes
<1>2. IInv'
  BY <1>1 DEF IInv, Shapes, ListedAreOwn
<1>3. <<op[b], at[b], todo[b]>>' # <<op[b], at[b], todo[b]>>
  BY <1>1
<1>4. Change(b, key \in DOMAIN reg, WithValue(key, name, data))
  BY DEF SetValue
<1>5. Touched(b)
  BY <1>3, <1>4, ValueTouches
<1>6. QED
  BY <1>2, <1>5

\* findAllSubKeys
LEMMA ListStep ==
    ASSUME IInv, NEW b \in Builds, NEW key \in {ClassKey(b), DriverKey(b)}, NEW next,
           ListKeys(b, key, next)
    PROVE  IInv' /\ Touched(b)
<1>1. PICK S : (\A k \in S : Own(b, k)) /\ todo' = [todo EXCEPT ![b] = S]
  <2>1. CASE todo' = [todo EXCEPT ![b] = AllSubKeys(key)]
    BY <2>1, OwnBelow
  <2>2. CASE \E shut \in AllSubKeys(key) \cup {Parent(key)} :
               todo' = [todo EXCEPT ![b] = {k \in AllSubKeys(key) : ~IsPrefix(shut, k)}]
    BY <2>2, OwnBelow
  <2>3. QED
    BY <2>1, <2>2 DEF ListKeys
<1>2. DOMAIN at' = Builds /\ reg' = reg
  BY DEF IInv, Shapes, ListKeys, Goes
<1>3. IInv'
  BY <1>1, <1>2, ListsStayOwn
<1>4. Touched(b)
  BY <1>2 DEF Touched, Kept
<1>5. QED
  BY <1>3, <1>4

\* One key of the list, or its end.
LEMMA DropStep ==
    ASSUME IInv, NEW b \in Builds, NEW next, DeleteListed(b) \/ ListEnds(b, next)
    PROVE  IInv' /\ Touched(b)
<1>1. CASE DeleteListed(b)
  <2>1. PICK key \in todo[b] :
          /\ Change(b, IsLeaf(key), WithoutKey(key))
          /\ todo' = [todo EXCEPT ![b] = @ \ {key}]
    BY <1>1 DEF DeleteListed
  <2>2. Own(b, key) /\ \A k \in todo[b] \ {key} : Own(b, k)
    BY DEF IInv, ListedAreOwn
  <2>3. DOMAIN at' = Builds
    BY <1>1 DEF DeleteListed, IInv, Shapes
  <2>4. todo' = [todo EXCEPT ![b] = todo[b] \ {key}] /\ todo'[b] = todo[b] \ {key}
    BY <2>1 DEF IInv, Shapes
  <2>5. IInv'
    BY <2>2, <2>3, <2>4, ListsStayOwn
  <2>6. <<op[b], at[b], todo[b]>>' # <<op[b], at[b], todo[b]>>
    BY <2>4
  <2>7. IsLeaf(key) \in BOOLEAN
    BY DEF IsLeaf
  <2>8. Touched(b)
    BY <2>1, <2>2, <2>6, <2>7, ChangeTouches
  <2>9. QED
    BY <2>5, <2>8
<1>2. CASE ListEnds(b, next)
  <2>1. UNCHANGED <<reg, todo>> /\ DOMAIN at' = Builds
    BY <1>2 DEF ListEnds, Goes, IInv, Shapes
  <2>2. QED
    BY <2>1, Idle
<1>3. QED
  BY <1>1, <1>2

\* Every step of b's process.
LEMMA ProcessStep ==
    ASSUME IInv, NEW b \in Builds, Process(b)
    PROVE  IInv' /\ Touched(b)
<1>1. CASE Begin(b)
  BY <1>1, Idle DEF Begin, Goes, IInv, Shapes
<1>2. CASE Class(b)
  <2>1. CASE FindClass(b)
    BY <2>1, FindStep DEF FindClass
  <2>2. CASE ReadPath(b)
    BY <2>2, Idle DEF ReadPath, Goes, IInv, Shapes
  <2>3. CASE ListClass(b)
    BY <2>3, ListStep DEF ListClass
  <2>4. CASE DropClass(b)
    BY <2>4, DropStep DEF DropClass
  <2>5. QED
    BY <1>2, <2>1, <2>2, <2>3, <2>4 DEF Class
<1>3. CASE NewEntry(b)
  <2>1. CASE MakeClass(b)
    BY <2>1, CreateStep, OwnKeys DEF MakeClass, At
  <2>2. CASE Describe(b)
    BY <2>2, SetStep, OwnKeys DEF Describe, At
  <2>3. CASE MakeServer(b)
    BY <2>3, CreateStep, OwnKeys DEF MakeServer, At
  <2>4. CASE SetPath(b)
    BY <2>4, SetStep, OwnKeys DEF SetPath, At
  <2>5. CASE SetModel(b)
    BY <2>5, SetStep, OwnKeys DEF SetModel, At
  <2>6. QED
    BY <1>3, <2>1, <2>2, <2>3, <2>4, <2>5 DEF NewEntry
<1>4. CASE Listing(b)
  <2>1. CASE FindAsio(b) \/ FindDriver(b)
    BY <2>1, FindStep DEF FindAsio, FindDriver
  <2>2. CASE MakeAsio(b)
    BY <2>2, CreateStep DEF MakeAsio, At
  <2>3. CASE ListDriver(b)
    BY <2>3, ListStep DEF ListDriver
  <2>4. CASE DropDriver(b)
    BY <2>4, DropStep DEF DropDriver
  <2>5. CASE MakeDriver(b)
    BY <2>5, CreateStep, OwnKeys DEF MakeDriver, At
  <2>6. CASE SetClsid(b)
    BY <2>6, SetStep, OwnKeys DEF SetClsid, At
  <2>7. CASE SetText(b)
    BY <2>7, SetStep, OwnKeys DEF SetText, At
  <2>8. QED
    BY <1>4, <2>1, <2>2, <2>3, <2>4, <2>5, <2>6, <2>7 DEF Listing
<1>5. CASE Return(b)
  BY <1>5, Idle DEF Return, Goes, IInv, Shapes
<1>6. CASE Kill(b)
  <2>1. reg' = reg /\ todo' = [todo EXCEPT ![b] = {}] /\ DOMAIN at' = Builds
    BY <1>6 DEF Kill, Goes, IInv, Shapes
  <2>2. \A x \in Builds : todo'[x] = IF x = b THEN {} ELSE todo[x]
    BY <2>1 DEF IInv, Shapes
  <2>3. IInv'
    BY <2>1, <2>2 DEF IInv, Shapes, ListedAreOwn
  <2>4. Touched(b)
    BY <2>1 DEF Touched, Kept
  <2>5. QED
    BY <2>3, <2>4
<1>7. QED
  BY <1>1, <1>2, <1>3, <1>4, <1>5, <1>6 DEF Process

-----------------------------------------------------------------------------

\* What findAllSubKeys has listed is always the driver's own.
THEOREM Invariance == RegistrationSpec => []IInv
<1>1. RegistrationInit => IInv
  BY DEF RegistrationInit, ProcessesInit, IInv, Shapes, ListedAreOwn
<1>2. IInv /\ [RegistrationNext]_registrationVars => IInv'
  <2>1. ASSUME IInv, RegistrationNext PROVE IInv'
    BY <2>1, ProcessStep DEF RegistrationNext
  <2>2. ASSUME IInv, UNCHANGED registrationVars PROVE IInv'
    BY <2>2 DEF registrationVars, procVars, IInv, Shapes, ListedAreOwn
  <2>3. QED
    BY <2>1, <2>2
<1>3. QED
  BY <1>1, <1>2, PTL DEF RegistrationSpec

\* Neither function changes a key that is not the driver's own, whatever
\* fails, whenever it is killed and whatever the other build's process does.
THEOREM OthersAreUntouched == RegistrationSpec => OthersUntouched
<1> DEFINE Step ==
      \A k \in DOMAIN reg \cup DOMAIN reg' :
         \/ k \in DOMAIN reg /\ k \in DOMAIN reg' /\ reg'[k] = reg[k]
         \/ \E b \in Builds :
              /\ <<op[b], at[b], todo[b]>>' # <<op[b], at[b], todo[b]>>
              /\ \/ IsPrefix(ClassKey(b), k) \/ IsPrefix(DriverKey(b), k)
                 \/ k = AsioKey(b) /\ k \notin DOMAIN reg
<1>1. IInv /\ [RegistrationNext]_registrationVars => [Step]_registrationVars
  <2>1. ASSUME IInv, RegistrationNext PROVE Step
    <3>1. PICK b \in Builds : Touched(b)
      BY <2>1, ProcessStep DEF RegistrationNext
    <3>2. QED
      BY <3>1 DEF Touched, Kept, May, Own
  <2>2. QED
    BY <2>1
<1>2. RegistrationSpec => [][Step]_registrationVars
  BY <1>1, Invariance, PTL DEF RegistrationSpec
<1>3. QED
  BY <1>2 DEF OthersUntouched

-----------------------------------------------------------------------------
(* The type invariant. *)

\* A registry call that works or fails keeps the count of the faults.
LEMMA CallKeepsFaults ==
    ASSUME RegistrationTypeOK, NEW b \in Builds, Works \/ Fails(b)
    PROVE  sound' \in [Builds -> BOOLEAN] /\ faults' \in 0 .. MaxFaults
<1>1. faults' \in 0 .. MaxFaults
  BY BoundAssumption DEF RegistrationTypeOK, Works, Fails
<1>2. sound' \in [Builds -> BOOLEAN]
  BY Zenon DEF RegistrationTypeOK, Works, Fails
<1>3. QED
  BY <1>1, <1>2

\* A step to another label that leaves what else is typed alone; it may be the
\* last of a list.
LEMMA CallKeepsTypes ==
    ASSUME RegistrationTypeOK, Shapes, NEW b \in Builds, NEW label, Goes(b, label),
           Works \/ Fails(b), todo[b] = {}, UNCHANGED <<op, dir, todo, runs, kills>>
    PROVE  RegistrationTypeOK'
<1>1. \A x \in Builds : todo'[x] # {} => at'[x] \in {"dropClass", "dropDriver"}
  BY DEF RegistrationTypeOK, Shapes, Goes
<1>2. sound' \in [Builds -> BOOLEAN] /\ faults' \in 0 .. MaxFaults
  BY CallKeepsFaults
<1>3. QED
  BY <1>1, <1>2 DEF RegistrationTypeOK

\* findAllSubKeys goes to the label where the list is deleted.
LEMMA ListKeepsTypes ==
    ASSUME RegistrationTypeOK, Shapes, NEW b \in Builds, NEW key,
           NEW next \in {"dropClass", "dropDriver"}, ListKeys(b, key, next)
    PROVE  RegistrationTypeOK'
<1>1. \A x \in Builds : todo'[x] # {} => at'[x] \in {"dropClass", "dropDriver"}
  BY DEF RegistrationTypeOK, Shapes, ListKeys, Goes
<1>2. QED
  BY <1>1, CallKeepsFaults DEF RegistrationTypeOK, ListKeys

\* One key of the list, or its end.
LEMMA DropKeepsTypes ==
    ASSUME RegistrationTypeOK, Shapes, NEW b \in Builds, NEW next,
           at[b] \in {"dropClass", "dropDriver"}, DeleteListed(b) \/ ListEnds(b, next)
    PROVE  RegistrationTypeOK'
<1>1. CASE DeleteListed(b)
  <2>1. PICK key \in todo[b] : /\ Change(b, IsLeaf(key), WithoutKey(key))
                               /\ todo' = [todo EXCEPT ![b] = @ \ {key}]
    BY <1>1 DEF DeleteListed
  <2>2. \A x \in Builds : todo'[x] # {} => todo[x] # {} /\ at'[x] = at[x]
    BY <1>1, <2>1 DEF DeleteListed, Shapes
  <2>3. Works \/ Fails(b)
    BY <2>1 DEF Change
  <2>4. QED
    BY <1>1, <2>2, <2>3, CallKeepsFaults DEF RegistrationTypeOK, DeleteListed
<1>2. CASE ListEnds(b, next)
  <2>1. Works /\ todo[b] = {} /\ Goes(b, next) /\ UNCHANGED <<op, dir, todo, runs, kills>>
    BY <1>2 DEF ListEnds, Works
  <2>2. QED
    BY <2>1, CallKeepsTypes
<1>3. QED
  BY <1>1, <1>2

\* The registry calls that are not about a list.
LEMMA OneCall ==
    ASSUME RegistrationTypeOK, Shapes, NEW b \in Builds, at[b] \notin {"dropClass", "dropDriver"},
           \/ \E key, found, missing : Find(b, key, found, missing)
           \/ \E key, next : CreateKey(b, key, next)
           \/ \E key, name, data, next : SetValue(b, key, name, data, next)
           \/ ReadPath(b)
    PROVE  RegistrationTypeOK'
<1>1. todo[b] = {}
  BY DEF RegistrationTypeOK
<1>2. /\ UNCHANGED <<op, dir, todo, runs, kills>> /\ (Works \/ Fails(b))
      /\ \E label : Goes(b, label)
  BY DEF Find, CreateKey, SetValue, Change, ReadPath
<1>3. QED
  BY <1>1, <1>2, CallKeepsTypes

\* Every step of a process keeps the types.
LEMMA ProcessKeepsTypes ==
    ASSUME RegistrationTypeOK, Shapes, NEW b \in Builds, Process(b)
    PROVE  RegistrationTypeOK'
<1>1. CASE Begin(b)
  <2>1. PICK o \in {"register", "unregister"}, d \in Dirs :
          /\ op' = [op EXCEPT ![b] = o] /\ dir' = [dir EXCEPT ![b] = d]
          /\ sound' = [sound EXCEPT ![b] = o = "register" => SoundEntry(b, d)]
    BY <1>1 DEF Begin
  <2>2. runs' \in 0 .. MaxRuns
    BY <1>1, BoundAssumption DEF Begin, RegistrationTypeOK
  <2>3. \A x \in Builds : todo'[x] # {} => at'[x] \in {"dropClass", "dropDriver"}
    BY <1>1 DEF Begin, Goes, At, RegistrationTypeOK, Shapes
  <2>4. (o = "register" => SoundEntry(b, d)) \in BOOLEAN
    OBVIOUS
  <2>5. sound' \in [Builds -> BOOLEAN]
    BY <2>1, <2>4 DEF RegistrationTypeOK
  <2>6. QED
    BY <1>1, <2>1, <2>2, <2>3, <2>5 DEF Begin, RegistrationTypeOK
<1>2. CASE FindClass(b) \/ ReadPath(b) \/ NewEntry(b) \/ FindAsio(b) \/ MakeAsio(b)
            \/ FindDriver(b) \/ MakeDriver(b) \/ SetClsid(b) \/ SetText(b)
  BY <1>2, OneCall
     DEF FindClass, ReadPath, NewEntry, MakeClass, Describe, MakeServer, SetPath, SetModel,
         FindAsio, MakeAsio, FindDriver, MakeDriver, SetClsid, SetText, At
<1>3. CASE ListClass(b) \/ ListDriver(b)
  BY <1>3, ListKeepsTypes DEF ListClass, ListDriver
<1>4. CASE DropClass(b) \/ DropDriver(b)
  BY <1>4, DropKeepsTypes DEF DropClass, DropDriver, At
<1>5. CASE Return(b)
  <2>1. \A x \in Builds : todo'[x] # {} => at'[x] \in {"dropClass", "dropDriver"}
    BY <1>5 DEF Return, Goes, At, RegistrationTypeOK, Shapes
  <2>2. QED
    BY <1>5, <2>1 DEF Return, RegistrationTypeOK
<1>6. CASE Kill(b)
  <2>1. \A x \in Builds : todo'[x] # {} => at'[x] \in {"dropClass", "dropDriver"}
    BY <1>6 DEF Kill, Goes, RegistrationTypeOK, Shapes
  <2>2. kills' \in 0 .. MaxKills
    BY <1>6, BoundAssumption DEF Kill, RegistrationTypeOK
  <2>3. QED
    BY <1>6, <2>1, <2>2 DEF Kill, RegistrationTypeOK
<1>7. QED
  BY <1>1, <1>2, <1>3, <1>4, <1>5, <1>6 DEF Process, Class, Listing

\* Every variable keeps its type; a list of keys to delete is only there where
\* they are deleted.
THEOREM TypeCorrect == RegistrationSpec => []RegistrationTypeOK
<1>1. RegistrationInit => RegistrationTypeOK
  BY BoundAssumption DEF RegistrationInit, ProcessesInit, RegistrationTypeOK
<1>2. RegistrationTypeOK /\ IInv /\ [RegistrationNext]_registrationVars => RegistrationTypeOK'
  <2>1. ASSUME RegistrationTypeOK, IInv, RegistrationNext PROVE RegistrationTypeOK'
    BY <2>1, ProcessKeepsTypes DEF RegistrationNext, IInv
  <2>2. ASSUME RegistrationTypeOK, UNCHANGED registrationVars PROVE RegistrationTypeOK'
    BY <2>2 DEF registrationVars, procVars, RegistrationTypeOK
  <2>3. QED
    BY <2>1, <2>2
<1>3. QED
  BY <1>1, <1>2, Invariance, PTL DEF RegistrationSpec
-----------------------------------------------------------------------------
(* Where the keys are. *)

\* A name is appended to a path.
LEMMA PathExtended ==
    ASSUME NEW s \in Seq(Names), NEW e \in Names
    PROVE  /\ Append(s, e) \in Seq(Names) /\ Len(Append(s, e)) = Len(s) + 1
           /\ Append(s, e)[Len(s) + 1] = e
           /\ \A i \in 1 .. Len(s) : Append(s, e)[i] = s[i]
           /\ Parent(Append(s, e)) = s
<1> DEFINE t == Append(s, e)
<1>1. t \in Seq(Names) /\ Len(t) = Len(s) + 1 /\ t[Len(s) + 1] = e /\ \A i \in 1 .. Len(s) : t[i] = s[i]
  BY AppendProperties
<1>2. SubSeq(t, 1, Len(s)) = SubSeq(s, 1, Len(s))
  BY PrefixKept DEF IsPrefix
<1>3. SubSeq(s, 1, Len(s)) = s
  BY SubSeqFull
<1>4. Len(s) \in Nat /\ Len(t) - 1 = Len(s)
  BY <1>1
<1>5. QED
  BY <1>1, <1>2, <1>3, <1>4 DEF Parent

\* The keys of a 32-bit build are one name deeper.
Deeper(b) == IF b = "wow64" THEN 1 ELSE 0

\* The keys above the driver's, whose names tell the build.
LEMMA RootPaths ==
    ASSUME NEW b \in Builds
    PROVE  /\ ClassesRoot(b) \in Seq(Names) /\ SoftwareRoot(b) \in Seq(Names)
           /\ Len(ClassesRoot(b)) = 2 + Deeper(b)
           /\ Len(SoftwareRoot(b)) = 2 + Deeper(b)
           /\ ClassesRoot(b)[1] = "HKCR"
           /\ b = "wow64" <=> ClassesRoot(b)[2] = "Wow6432Node"
           /\ SoftwareRoot(b)[1] = "HKLM"
           /\ b = "wow64" => SoftwareRoot(b)[3] = "Wow6432Node"
           /\ Deeper(b) \in {0, 1}
<1>1. CASE b = "native"
  <2>1. ClassesRoot(b) = <<"HKCR", "CLSID">> /\ SoftwareRoot(b) = <<"HKLM", "SOFTWARE">>
    BY <1>1 DEF ClassesRoot, SoftwareRoot
  <2>2. <<"HKCR", "CLSID">> \in Seq(Names) /\ <<"HKLM", "SOFTWARE">> \in Seq(Names)
    BY DEF Names
  <2>3. /\ Len(ClassesRoot(b)) = 2 /\ ClassesRoot(b)[1] = "HKCR" /\ ClassesRoot(b)[2] = "CLSID"
        /\ Len(SoftwareRoot(b)) = 2 /\ SoftwareRoot(b)[1] = "HKLM"
    BY <2>1
  <2>4. b # "wow64" /\ Deeper(b) = 0
    BY <1>1 DEF Deeper
  <2>5. QED
    BY <2>1, <2>2, <2>3, <2>4
<1>2. CASE b = "wow64"
  <2>1. /\ ClassesRoot(b) = <<"HKCR", "Wow6432Node", "CLSID">>
        /\ SoftwareRoot(b) = <<"HKLM", "SOFTWARE", "Wow6432Node">>
    BY <1>2 DEF ClassesRoot, SoftwareRoot
  <2>2. /\ <<"HKCR", "Wow6432Node", "CLSID">> \in Seq(Names)
        /\ <<"HKLM", "SOFTWARE", "Wow6432Node">> \in Seq(Names)
    BY DEF Names
  <2>3. /\ Len(ClassesRoot(b)) = 3 /\ ClassesRoot(b)[1] = "HKCR"
        /\ ClassesRoot(b)[2] = "Wow6432Node" /\ Len(SoftwareRoot(b)) = 3
        /\ SoftwareRoot(b)[1] = "HKLM" /\ SoftwareRoot(b)[3] = "Wow6432Node"
    BY <2>1
  <2>4. Deeper(b) = 1 /\ Len(ClassesRoot(b)) = 2 + Deeper(b) /\ Len(SoftwareRoot(b)) = 2 + Deeper(b)
    BY <1>2, <2>3 DEF Deeper
  <2>5. ClassesRoot(b) \in Seq(Names) /\ SoftwareRoot(b) \in Seq(Names)
    BY <2>1, <2>2
  <2>6. QED
    BY <1>2, <2>3, <2>4, <2>5
<1>3. QED
  BY <1>1, <1>2 DEF Builds

\* The driver's keys, each with the key above it.
LEMMA KeyPaths ==
    ASSUME NEW b \in Builds
    PROVE  /\ {ClassKey(b), ServerKey(b), AsioKey(b), DriverKey(b)} \subseteq Seq(Names)
           /\ Len(ClassKey(b)) = Len(ClassesRoot(b)) + 1 /\ Parent(ClassKey(b)) = ClassesRoot(b)
           /\ Len(ServerKey(b)) = Len(ClassKey(b)) + 1 /\ Parent(ServerKey(b)) = ClassKey(b)
           /\ Len(AsioKey(b)) = Len(SoftwareRoot(b)) + 1 /\ Parent(AsioKey(b)) = SoftwareRoot(b)
           /\ Len(DriverKey(b)) = Len(AsioKey(b)) + 1 /\ Parent(DriverKey(b)) = AsioKey(b)
           /\ \A i \in 1 .. Len(ClassesRoot(b)) : ClassKey(b)[i] = ClassesRoot(b)[i]
           /\ \A i \in 1 .. Len(ClassKey(b)) : ServerKey(b)[i] = ClassKey(b)[i]
           /\ \A i \in 1 .. Len(SoftwareRoot(b)) : AsioKey(b)[i] = SoftwareRoot(b)[i]
           /\ \A i \in 1 .. Len(AsioKey(b)) : DriverKey(b)[i] = AsioKey(b)[i]
           /\ AsioKey(b)[Len(SoftwareRoot(b)) + 1] = "ASIO"
<1>0. {"{188135E1}", "InprocServer32", "ASIO", "DK ASIO Driver"} \subseteq Names
  BY DEF Names
<1>1. ClassesRoot(b) \in Seq(Names) /\ SoftwareRoot(b) \in Seq(Names)
  BY RootPaths
<1>2. /\ ClassKey(b) \in Seq(Names) /\ Len(ClassKey(b)) = Len(ClassesRoot(b)) + 1
      /\ Parent(ClassKey(b)) = ClassesRoot(b)
      /\ \A i \in 1 .. Len(ClassesRoot(b)) : ClassKey(b)[i] = ClassesRoot(b)[i]
  BY <1>0, <1>1, PathExtended DEF ClassKey
<1>3. /\ AsioKey(b) \in Seq(Names) /\ Len(AsioKey(b)) = Len(SoftwareRoot(b)) + 1
      /\ Parent(AsioKey(b)) = SoftwareRoot(b) /\ AsioKey(b)[Len(SoftwareRoot(b)) + 1] = "ASIO"
      /\ \A i \in 1 .. Len(SoftwareRoot(b)) : AsioKey(b)[i] = SoftwareRoot(b)[i]
  BY <1>0, <1>1, PathExtended DEF AsioKey
<1>4. /\ ServerKey(b) \in Seq(Names) /\ Len(ServerKey(b)) = Len(ClassKey(b)) + 1
      /\ Parent(ServerKey(b)) = ClassKey(b)
      /\ \A i \in 1 .. Len(ClassKey(b)) : ServerKey(b)[i] = ClassKey(b)[i]
  BY <1>0, <1>2, PathExtended DEF ServerKey
<1>5. /\ DriverKey(b) \in Seq(Names) /\ Len(DriverKey(b)) = Len(AsioKey(b)) + 1
      /\ Parent(DriverKey(b)) = AsioKey(b)
      /\ \A i \in 1 .. Len(AsioKey(b)) : DriverKey(b)[i] = AsioKey(b)[i]
  BY <1>0, <1>3, PathExtended DEF DriverKey
<1>6. QED
  BY <1>2, <1>3, <1>4, <1>5

\* The names they end with.
LEMMA KeyEnds ==
    ASSUME NEW b \in Builds
    PROVE  /\ ClassKey(b)[Len(ClassesRoot(b)) + 1] = "{188135E1}"
           /\ DriverKey(b)[Len(AsioKey(b)) + 1] = "DK ASIO Driver"
<1>1. {"{188135E1}", "DK ASIO Driver"} \subseteq Names
  BY DEF Names
<1>2. ClassesRoot(b) \in Seq(Names) /\ AsioKey(b) \in Seq(Names)
  BY RootPaths, KeyPaths
<1>3. QED
  BY <1>1, <1>2, AppendProperties DEF ClassKey, DriverKey

\* The build is told by a name on the path, and so is what is listed there.
LEMMA KeyNames ==
    ASSUME NEW b \in Builds
    PROVE  /\ Deeper(b) \in {0, 1} /\ Len(ClassKey(b)) = 3 + Deeper(b)
           /\ Len(ServerKey(b)) = 4 + Deeper(b)
           /\ Len(AsioKey(b)) = 3 + Deeper(b)
           /\ Len(DriverKey(b)) = 4 + Deeper(b)
           /\ ClassKey(b)[1] = "HKCR" /\ (b = "wow64" <=> ClassKey(b)[2] = "Wow6432Node")
           /\ AsioKey(b)[1] = "HKLM" /\ (b = "wow64" <=> AsioKey(b)[3] = "Wow6432Node")
           /\ DriverKey(b)[1] = "HKLM" /\ (b = "wow64" <=> DriverKey(b)[3] = "Wow6432Node")
<1>0. /\ Len(ClassesRoot(b)) = 2 + Deeper(b) /\ Len(SoftwareRoot(b)) = 2 + Deeper(b)
      /\ Deeper(b) \in {0, 1}
  BY RootPaths
<1>1. /\ Len(ClassKey(b)) = 3 + Deeper(b)
      /\ Len(ServerKey(b)) = 4 + Deeper(b)
      /\ Len(AsioKey(b)) = 3 + Deeper(b)
      /\ Len(DriverKey(b)) = 4 + Deeper(b)
  <2>1. /\ Len(ClassKey(b)) = Len(ClassesRoot(b)) + 1 /\ Len(ServerKey(b)) = Len(ClassKey(b)) + 1
        /\ Len(AsioKey(b)) = Len(SoftwareRoot(b)) + 1 /\ Len(DriverKey(b)) = Len(AsioKey(b)) + 1
    BY KeyPaths
  <2>2. QED
    BY <1>0, <2>1
<1>2. /\ ClassKey(b)[1] = ClassesRoot(b)[1] /\ ClassKey(b)[2] = ClassesRoot(b)[2]
      /\ AsioKey(b)[1] = SoftwareRoot(b)[1] /\ DriverKey(b)[1] = AsioKey(b)[1]
      /\ DriverKey(b)[3] = AsioKey(b)[3]
  BY <1>0, <1>1, KeyPaths, SMTT(30)
<1>3. b = "wow64" <=> AsioKey(b)[3] = "Wow6432Node"
  <2>1. CASE b = "wow64"
    <3>1. Len(SoftwareRoot(b)) = 3
      BY <1>0, <2>1 DEF Deeper
    <3>2. \A i \in 1 .. 3 : AsioKey(b)[i] = SoftwareRoot(b)[i]
      BY <3>1, KeyPaths
    <3>3. QED
      BY <2>1, <3>2, RootPaths
  <2>2. CASE b # "wow64"
    <3>1. Len(SoftwareRoot(b)) = 2
      BY <1>0, <2>2 DEF Deeper
    <3>2. AsioKey(b)[2 + 1] = "ASIO"
      BY <3>1, KeyPaths
    <3>3. QED
      BY <2>2, <3>2
  <2>3. QED
    BY <2>1, <2>2
<1>4. QED
  BY <1>0, <1>1, <1>2, <1>3, RootPaths

\* A prefix has the same names, as far as it goes.
LEMMA PrefixPoints ==
    ASSUME NEW s \in Seq(Names), NEW t \in Seq(Names)
    PROVE  IsPrefix(s, t) <=> Len(s) <= Len(t) /\ \A i \in 1 .. Len(s) : s[i] = t[i]
<1>1. Len(s) \in Nat /\ Len(t) \in Nat
  OBVIOUS
<1>2. ASSUME Len(s) <= Len(t)
      PROVE  SubSeq(s, 1, Len(s)) = SubSeq(t, 1, Len(s)) <=> \A i \in 1 .. Len(s) : s[i] = t[i]
  <2>1. SubSeq(s, 1, Len(s)) = [i \in 1 .. Len(s) |-> s[i]]
    BY <1>1
  <2>2. SubSeq(t, 1, Len(s)) = [i \in 1 .. Len(s) |-> t[i]]
    BY <1>1, <1>2
  <2>3. QED
    BY <2>1, <2>2
<1>3. QED
  BY <1>2 DEF IsPrefix

\* A sequence is below itself; what is strictly below it is longer.
LEMMA PrefixLength ==
    ASSUME NEW s \in Seq(Names), NEW t \in Seq(Names)
    PROVE  IsPrefix(s, s) /\ (IsStrictPrefix(s, t) => Len(s) < Len(t))
<1>1. IsPrefix(s, s)
  BY PrefixPoints
<1>2. ASSUME IsPrefix(s, t), Len(t) = Len(s) PROVE s = t
  BY <1>2, PrefixPoints
<1>3. Len(s) \in Nat /\ Len(t) \in Nat /\ (IsPrefix(s, t) => Len(s) <= Len(t))
  BY DEF IsPrefix
<1>4. QED
  BY <1>1, <1>2, <1>3 DEF IsStrictPrefix

\* What is below a key below s is below s.
LEMMA PrefixTransitive ==
    ASSUME NEW s \in Seq(Names), NEW t \in Seq(Names), NEW u \in Seq(Names),
           IsPrefix(s, t), IsPrefix(t, u)
    PROVE  IsPrefix(s, u)
<1>1. Len(s) \in Nat /\ Len(t) \in Nat /\ Len(u) \in Nat
  OBVIOUS
<1>2. Len(s) <= Len(t) /\ \A i \in 1 .. Len(s) : s[i] = t[i]
  BY PrefixPoints
<1>3. Len(t) <= Len(u) /\ \A i \in 1 .. Len(t) : t[i] = u[i]
  BY PrefixPoints
<1>4. Len(s) <= Len(u) /\ \A i \in 1 .. Len(s) : s[i] = u[i]
  BY <1>1, <1>2, <1>3
<1>5. QED
  BY <1>4, PrefixPoints

\* Where a key below one of the driver's is tells whose it is.
LEMMA BelowClass ==
    ASSUME NEW b \in Builds, NEW k \in Seq(Names), IsPrefix(ClassKey(b), k)
    PROVE  Len(k) >= 3 + Deeper(b) /\ k[1] = "HKCR" /\ (b = "wow64" <=> k[2] = "Wow6432Node")
<1>1. Len(ClassKey(b)) <= Len(k) /\ \A i \in 1 .. Len(ClassKey(b)) : ClassKey(b)[i] = k[i]
  BY KeyPaths, PrefixPoints
<1>2. /\ Len(ClassKey(b)) = 3 + Deeper(b) /\ Deeper(b) \in {0, 1}
      /\ ClassKey(b)[1] = "HKCR" /\ (b = "wow64" <=> ClassKey(b)[2] = "Wow6432Node")
  BY KeyNames
<1>3. k[1] = ClassKey(b)[1] /\ k[2] = ClassKey(b)[2] /\ Len(k) \in Nat
  BY <1>1, <1>2
<1>4. QED
  BY <1>1, <1>2, <1>3

\* The same of its key in the list of drivers.
LEMMA BelowDriver ==
    ASSUME NEW b \in Builds, NEW k \in Seq(Names), IsPrefix(DriverKey(b), k)
    PROVE  Len(k) >= 4 + Deeper(b) /\ k[1] = "HKLM" /\ (b = "wow64" <=> k[3] = "Wow6432Node")
<1>1. Len(DriverKey(b)) <= Len(k) /\ \A i \in 1 .. Len(DriverKey(b)) : DriverKey(b)[i] = k[i]
  BY KeyPaths, PrefixPoints
<1>2. /\ Len(DriverKey(b)) = 4 + Deeper(b) /\ Deeper(b) \in {0, 1}
      /\ DriverKey(b)[1] = "HKLM" /\ (b = "wow64" <=> DriverKey(b)[3] = "Wow6432Node")
  BY KeyNames
<1>3. k[1] = DriverKey(b)[1] /\ k[3] = DriverKey(b)[3] /\ Len(k) \in Nat
  BY <1>1, <1>2
<1>4. QED
  BY <1>1, <1>2, <1>3

\* No key is the driver's own in both builds, nor below both of its keys.
LEMMA OneOwner ==
    ASSUME NEW b \in Builds, NEW c \in Builds, NEW k \in Seq(Names), Own(c, k)
    PROVE  /\ Own(b, k) => b = c
           /\ ~(IsPrefix(ClassKey(b), k) /\ IsPrefix(DriverKey(c), k))
<1>1. ~(IsPrefix(ClassKey(b), k) /\ IsPrefix(DriverKey(c), k))
  BY BelowClass, BelowDriver
<1>2. ~(IsPrefix(ClassKey(c), k) /\ IsPrefix(DriverKey(b), k))
  BY BelowClass, BelowDriver
<1>3. IsPrefix(ClassKey(b), k) /\ IsPrefix(ClassKey(c), k) => b = c
  BY BelowClass DEF Builds
<1>4. IsPrefix(DriverKey(b), k) /\ IsPrefix(DriverKey(c), k) => b = c
  BY BelowDriver DEF Builds
<1>5. QED
  BY <1>1, <1>2, <1>3, <1>4 DEF Own

\* The keys above the driver's are not its own.
LEMMA AboveNotOwn ==
    ASSUME NEW b \in Builds, NEW c \in Builds
    PROVE  ~Own(c, ClassesRoot(b)) /\ ~Own(c, SoftwareRoot(b)) /\ ~Own(c, AsioKey(b))
<1>1. Deeper(b) \in {0, 1} /\ Deeper(c) \in {0, 1}
  BY KeyNames
<1>2. ~Own(c, ClassesRoot(b))
  <2>1. /\ ClassesRoot(b) \in Seq(Names) /\ Len(ClassesRoot(b)) = 2 + Deeper(b)
        /\ ClassesRoot(b)[1] = "HKCR" /\ (b = "wow64" <=> ClassesRoot(b)[2] = "Wow6432Node")
    BY RootPaths
  <2>2. ~IsPrefix(DriverKey(c), ClassesRoot(b))
    BY <2>1, BelowDriver
  <2>3. ASSUME IsPrefix(ClassKey(c), ClassesRoot(b)) PROVE FALSE
    <3>1. /\ Len(ClassesRoot(b)) >= 3 + Deeper(c)
          /\ c = "wow64" <=> ClassesRoot(b)[2] = "Wow6432Node"
      BY <2>1, <2>3, BelowClass
    <3>2. b = c
      BY <2>1, <3>1 DEF Builds
    <3>3. QED
      BY <1>1, <2>1, <3>1, <3>2
  <2>4. QED
    BY <2>2, <2>3 DEF Own
<1>3. ~Own(c, SoftwareRoot(b))
  <2>1. /\ SoftwareRoot(b) \in Seq(Names) /\ Len(SoftwareRoot(b)) = 2 + Deeper(b)
        /\ SoftwareRoot(b)[1] = "HKLM"
    BY RootPaths
  <2>2. ASSUME IsPrefix(DriverKey(c), SoftwareRoot(b)) PROVE FALSE
    <3>1. Len(SoftwareRoot(b)) >= 4 + Deeper(c)
      BY <2>1, <2>2, BelowDriver
    <3>2. QED
      BY <1>1, <2>1, <3>1
  <2>3. ~IsPrefix(ClassKey(c), SoftwareRoot(b))
    BY <2>1, BelowClass
  <2>4. QED
    BY <2>2, <2>3 DEF Own
<1>4. ~Own(c, AsioKey(b))
  <2>1. /\ AsioKey(b) \in Seq(Names) /\ Len(AsioKey(b)) = 3 + Deeper(b)
        /\ AsioKey(b)[1] = "HKLM" /\ (b = "wow64" <=> AsioKey(b)[3] = "Wow6432Node")
    BY KeyPaths, KeyNames
  <2>2. ASSUME IsPrefix(DriverKey(c), AsioKey(b)) PROVE FALSE
    <3>1. /\ Len(AsioKey(b)) >= 4 + Deeper(c)
          /\ c = "wow64" <=> AsioKey(b)[3] = "Wow6432Node"
      BY <2>1, <2>2, BelowDriver
    <3>2. b = c
      BY <2>1, <3>1 DEF Builds
    <3>3. QED
      BY <1>1, <2>1, <3>1, <3>2
  <2>3. ~IsPrefix(ClassKey(c), AsioKey(b))
    BY <2>1, BelowClass
  <2>4. QED
    BY <2>2, <2>3 DEF Own
<1>5. QED
  BY <1>2, <1>3, <1>4

\* The driver's keys are different.
LEMMA KeysDiffer ==
    ASSUME NEW b \in Builds, NEW c \in Builds
    PROVE  /\ ClassKey(b) # ServerKey(b) /\ ClassKey(b) # DriverKey(b)
           /\ ServerKey(b) # DriverKey(b) /\ (AsioKey(b) = AsioKey(c) => b = c)
           /\ ~IsPrefix(ServerKey(b), ClassKey(b)) /\ ServerKey(b)[1] = "HKCR"
<1>1. /\ Deeper(b) \in {0, 1}
      /\ Len(ClassKey(b)) = 3 + Deeper(b) /\ Len(ServerKey(b)) = 4 + Deeper(b)
  BY KeyNames
<1>2. ClassKey(b)[1] = "HKCR" /\ DriverKey(b)[1] = "HKLM"
  BY KeyNames
<1>3. ServerKey(b)[1] = "HKCR"
  <2>1. \A i \in 1 .. Len(ClassKey(b)) : ServerKey(b)[i] = ClassKey(b)[i]
    BY KeyPaths
  <2>2. QED
    BY <1>1, <1>2, <2>1
<1>4. ClassKey(b) # ServerKey(b) /\ ~IsPrefix(ServerKey(b), ClassKey(b))
  BY <1>1 DEF IsPrefix
<1>5. AsioKey(b) = AsioKey(c) => b = c
  BY KeyNames DEF Builds
<1>6. QED
  BY <1>2, <1>3, <1>4, <1>5
-----------------------------------------------------------------------------
(* What the two functions have achieved wherever they are. *)

\* Keys are sequences of names, and none is deeper than those the driver's
\* category is put at.
MaxDepth == 6
KeysFit == \A k \in DOMAIN reg : k \in Seq(Names) /\ Len(k) \in 0 .. MaxDepth

\* The keys the driver's are put under are there; where something is below one
\* of the driver's keys that key is there, and where there is a driver's key
\* so is the list of ASIO drivers.
Rooted ==
    \A b \in Builds :
        /\ {ClassesRoot(b), SoftwareRoot(b)} \subseteq DOMAIN reg
        /\ Under(ClassKey(b)) # {} => ClassKey(b) \in DOMAIN reg
        /\ Under(DriverKey(b)) # {} => {DriverKey(b), AsioKey(b)} \subseteq DOMAIN reg

\* A list is of what is below the key whose deletion is under way.
ListedBelow ==
    \A b \in Builds :
        /\ at[b] = "dropClass" => \A k \in todo[b] : IsPrefix(ClassKey(b), k)
        /\ at[b] = "dropDriver" => \A k \in todo[b] : IsPrefix(DriverKey(b), k)

AfterClass == {"findAsio", "makeAsio", "findDriver", "listDriver", "dropDriver",
               "makeDriver", "setClsid", "setText", "return"}
AfterAsio == {"findDriver", "listDriver", "dropDriver", "makeDriver"}
Deleting == {"findClass", "listClass", "dropClass", "findAsio", "findDriver",
             "listDriver", "dropDriver", "return"}

\* COM loads the driver from the directory that is being registered.
Entered(b) == Loadable(b, dir[b]) /\ Has(ClassKey(b), "")

\* What there is of the entry while RegisterAsioDriver is in its first half.
EntrySoFar(b) ==
    /\ at[b] \in {"findClass", "readPath"} => SoundEntry(b, dir[b])
    /\ at[b] \in {"readPath", "describe"} => ClassKey(b) \in DOMAIN reg
    /\ at[b] \in {"makeServer", "setPath", "setModel"} => Has(ClassKey(b), "")
    /\ at[b] \in {"setPath", "setModel"} => ServerKey(b) \in DOMAIN reg
    /\ at[b] = "setModel" => Has(ServerKey(b), "") /\ Value(ServerKey(b), "") = dir[b]

\* And in its second half.
ListedSoFar(b) ==
    /\ at[b] \in AfterClass => Entered(b)
    /\ at[b] \in AfterAsio => AsioKey(b) \in DOMAIN reg
    /\ at[b] = "setClsid" => DriverKey(b) \in DOMAIN reg
    /\ at[b] = "setText" => Has(DriverKey(b), "CLSID")
    /\ at[b] = "return" => ListedDriver(b)

\* What there is left while UnregisterAsioDriver runs.
RemovedSoFar(b) ==
    /\ at[b] \in Deleting
    /\ at[b] = "dropClass" => todo[b] = Under(ClassKey(b))
    /\ at[b] \in AfterClass => Under(ClassKey(b)) = {}
    /\ at[b] = "dropDriver" => todo[b] = Under(DriverKey(b))
    /\ at[b] = "return" => Under(DriverKey(b)) = {}

SoFar(b) ==
    sound[b] => /\ op[b] = "register" => EntrySoFar(b) /\ ListedSoFar(b)
                /\ op[b] = "unregister" => RemovedSoFar(b)

DInv == KeysFit /\ Rooted /\ ListedBelow /\ \A b \in Builds : SoFar(b)

-----------------------------------------------------------------------------
(* The registry calls and the keys there are. *)

\* A key is made: it has no values, and the others keep theirs.
LEMMA KeyMade ==
    ASSUME NEW key, reg' = WithKey(key)
    PROVE  DOMAIN reg' = DOMAIN reg \cup {key} /\ \A k \in DOMAIN reg : reg'[k] = reg[k]
BY DEF WithKey

\* A key is deleted.
LEMMA KeyGone ==
    ASSUME NEW key, reg' = WithoutKey(key)
    PROVE  DOMAIN reg' = DOMAIN reg \ {key} /\ \A k \in DOMAIN reg' : reg'[k] = reg[k]
BY DEF WithoutKey

\* A value is set: it is there, and the others are as they were.
LEMMA ValueSet ==
    ASSUME NEW key, key \in DOMAIN reg, NEW name, NEW data, reg' = WithValue(key, name, data)
    PROVE  /\ DOMAIN reg' = DOMAIN reg
           /\ \A k \in DOMAIN reg : k # key => reg'[k] = reg[k]
           /\ DOMAIN reg'[key] = DOMAIN reg[key] \cup {name}
           /\ reg'[key][name] = data
           /\ \A n \in DOMAIN reg[key] : n # name => reg'[key][n] = reg[key][n]
BY DEF WithValue

\* The same of what can be read afterwards.
LEMMA ValueRead ==
    ASSUME NEW key, key \in DOMAIN reg, NEW name, NEW data, reg' = WithValue(key, name, data)
    PROVE  /\ Has(key, name)' /\ Value(key, name)' = data
           /\ \A k, n : Has(k, n) => Has(k, n)'
           /\ \A k, n : Has(k, n) /\ (k # key \/ n # name) => Value(k, n)' = Value(k, n)
<1>1. /\ DOMAIN reg' = DOMAIN reg
      /\ \A k \in DOMAIN reg : k # key => reg'[k] = reg[k]
      /\ DOMAIN reg'[key] = DOMAIN reg[key] \cup {name}
      /\ reg'[key][name] = data
      /\ \A n \in DOMAIN reg[key] : n # name => reg'[key][n] = reg[key][n]
  BY ValueSet
<1>2. QED
  BY <1>1 DEF Has, Value

\* What b's process may do to the registry.
RegistryStep(b) ==
    \/ reg' = reg
    \/ \E key \in {ClassKey(b), ServerKey(b), AsioKey(b), DriverKey(b)} :
         Parent(key) \in DOMAIN reg /\ reg' = WithKey(key)
    \/ \E key \in {ClassKey(b), ServerKey(b), DriverKey(b)} : \E name, data :
         key \in DOMAIN reg /\ reg' = WithValue(key, name, data)
    \/ \E key : Own(b, key) /\ IsLeaf(key) /\ reg' = WithoutKey(key)

\* Every step of a process is one of these.
LEMMA ProcessOnRegistry ==
    ASSUME IInv, NEW b \in Builds, Process(b)
    PROVE  RegistryStep(b)
<1>1. CASE Begin(b) \/ FindClass(b) \/ ReadPath(b) \/ ListClass(b) \/ FindAsio(b)
            \/ FindDriver(b) \/ ListDriver(b) \/ Return(b) \/ Kill(b)
  BY <1>1 DEF Begin, FindClass, ReadPath, ListClass, FindAsio, FindDriver, ListDriver, Return,
              Kill, Find, ListKeys, RegistryStep
<1>2. CASE DropClass(b) \/ DropDriver(b)
  <2>1. reg' = reg \/ \E key \in todo[b] : IsLeaf(key) /\ reg' = WithoutKey(key)
    BY <1>2 DEF DropClass, DropDriver, DeleteListed, ListEnds, Change
  <2>2. QED
    BY <2>1 DEF IInv, ListedAreOwn, RegistryStep
<1>3. CASE MakeClass(b) \/ MakeServer(b) \/ MakeAsio(b) \/ MakeDriver(b)
  <2>1. PICK key \in {ClassKey(b), ServerKey(b), AsioKey(b), DriverKey(b)} :
          Change(b, Parent(key) \in DOMAIN reg, WithKey(key))
    BY <1>3 DEF MakeClass, MakeServer, MakeAsio, MakeDriver, CreateKey
  <2>2. QED
    BY <2>1 DEF Change, RegistryStep
<1>4. CASE Describe(b) \/ SetPath(b) \/ SetModel(b) \/ SetClsid(b) \/ SetText(b)
  <2>1. PICK key \in {ClassKey(b), ServerKey(b), DriverKey(b)} : \E name, data :
          Change(b, key \in DOMAIN reg, WithValue(key, name, data))
    BY <1>4 DEF Describe, SetPath, SetModel, SetClsid, SetText, SetValue
  <2>2. QED
    BY <2>1 DEF Change, RegistryStep
<1>5. QED
  BY <1>1, <1>2, <1>3, <1>4 DEF Process, Class, NewEntry, Listing

\* The keys stay paths of at most that depth.
LEMMA KeysStayFit ==
    ASSUME KeysFit, NEW b \in Builds, RegistryStep(b)
    PROVE  KeysFit'
<1>1. ASSUME NEW key \in {ClassKey(b), ServerKey(b), AsioKey(b), DriverKey(b)}
      PROVE  key \in Seq(Names) /\ Len(key) \in 0 .. MaxDepth
  <2>1. key \in Seq(Names)
    BY KeyPaths
  <2>2. /\ Deeper(b) \in {0, 1} /\ Len(ClassKey(b)) = 3 + Deeper(b)
        /\ Len(ServerKey(b)) = 4 + Deeper(b) /\ Len(AsioKey(b)) = 3 + Deeper(b)
        /\ Len(DriverKey(b)) = 4 + Deeper(b)
    BY KeyNames
  <2>3. /\ Len(ClassKey(b)) \in 0 .. 6 /\ Len(ServerKey(b)) \in 0 .. 6
        /\ Len(AsioKey(b)) \in 0 .. 6 /\ Len(DriverKey(b)) \in 0 .. 6
    BY <2>2
  <2>4. QED
    BY <2>1, <2>3 DEF MaxDepth
<1>2. \A k \in DOMAIN reg' :
         k \in DOMAIN reg \/ k \in {ClassKey(b), ServerKey(b), AsioKey(b), DriverKey(b)}
  BY KeyMade, KeyGone, ValueSet DEF RegistryStep
<1>3. QED
  BY <1>1, <1>2 DEF KeysFit

\* A key that is made under one of the driver's keys is that key, or the one
\* above it is there.
LEMMA MadeBelow ==
    ASSUME NEW b \in Builds, NEW c \in Builds,
           NEW key \in {ClassKey(b), ServerKey(b), AsioKey(b), DriverKey(b)}
    PROVE  /\ IsPrefix(ClassKey(c), key) => c = b /\ key \in {ClassKey(b), ServerKey(b)}
           /\ IsPrefix(DriverKey(c), key) => c = b /\ key = DriverKey(b)
<1>1. key \in Seq(Names)
  BY KeyPaths
<1>2. key # AsioKey(b) => Own(b, key)
  BY OwnKeys
<1>3. Own(c, key) => c = b /\ key # AsioKey(b)
  BY <1>1, <1>2, OneOwner, AboveNotOwn
<1>4. IsPrefix(ClassKey(c), key) => key # DriverKey(b)
  BY <1>1, <1>3, OwnKeys, OneOwner, BelowDriver, BelowClass, KeyNames DEF Own
<1>5. IsPrefix(DriverKey(c), key) => key # ClassKey(b) /\ key # ServerKey(b)
  <2>1. ClassKey(b)[1] = "HKCR" /\ ServerKey(b)[1] = "HKCR"
    BY KeyNames, KeysDiffer
  <2>2. IsPrefix(DriverKey(c), key) => key[1] = "HKLM"
    BY <1>1, BelowDriver
  <2>3. QED
    BY <2>1, <2>2
<1>6. QED
  BY <1>3, <1>4, <1>5 DEF Own

\* The tree stays one.
LEMMA StaysRooted ==
    ASSUME Rooted, NEW b \in Builds, RegistryStep(b)
    PROVE  Rooted'
<1> SUFFICES ASSUME NEW c \in Builds
             PROVE  /\ {ClassesRoot(c), SoftwareRoot(c)} \subseteq DOMAIN reg'
                    /\ Under(ClassKey(c))' # {} => ClassKey(c) \in DOMAIN reg'
                    /\ Under(DriverKey(c))' # {} => {DriverKey(c), AsioKey(c)} \subseteq DOMAIN reg'
  BY DEF Rooted
<1>1. /\ {ClassesRoot(c), SoftwareRoot(c)} \subseteq DOMAIN reg
      /\ Under(ClassKey(c)) # {} => ClassKey(c) \in DOMAIN reg
      /\ Under(DriverKey(c)) # {} => {DriverKey(c), AsioKey(c)} \subseteq DOMAIN reg
  BY DEF Rooted
<1>2. CASE DOMAIN reg' = DOMAIN reg
  BY <1>1, <1>2 DEF Under
<1>3. ASSUME NEW key \in {ClassKey(b), ServerKey(b), AsioKey(b), DriverKey(b)},
             Parent(key) \in DOMAIN reg, reg' = WithKey(key)
      PROVE  /\ {ClassesRoot(c), SoftwareRoot(c)} \subseteq DOMAIN reg'
             /\ Under(ClassKey(c))' # {} => ClassKey(c) \in DOMAIN reg'
             /\ Under(DriverKey(c))' # {} => {DriverKey(c), AsioKey(c)} \subseteq DOMAIN reg'
  <2>1. DOMAIN reg' = DOMAIN reg \cup {key}
    BY <1>3, KeyMade
  <2>2. IsPrefix(ClassKey(c), key) => ClassKey(c) \in DOMAIN reg'
    BY <1>3, <2>1, MadeBelow, KeyPaths, SMTT(30)
  <2>3. IsPrefix(DriverKey(c), key) => {DriverKey(c), AsioKey(c)} \subseteq DOMAIN reg'
    BY <1>3, <2>1, MadeBelow, KeyPaths, SMTT(30)
  <2>4. QED
    BY <1>1, <2>1, <2>2, <2>3 DEF Under
<1>4. ASSUME NEW key, Own(b, key), IsLeaf(key), reg' = WithoutKey(key)
      PROVE  /\ {ClassesRoot(c), SoftwareRoot(c)} \subseteq DOMAIN reg'
             /\ Under(ClassKey(c))' # {} => ClassKey(c) \in DOMAIN reg'
             /\ Under(DriverKey(c))' # {} => {DriverKey(c), AsioKey(c)} \subseteq DOMAIN reg'
  <2>1. DOMAIN reg' = DOMAIN reg \ {key}
    BY <1>4, KeyGone
  <2>2. key \notin {ClassesRoot(c), SoftwareRoot(c), AsioKey(c)}
    BY <1>4, AboveNotOwn
  <2>3. key = ClassKey(c) => Under(ClassKey(c))' = {}
    BY <1>4, <2>1 DEF Under, IsLeaf, IsStrictPrefix
  <2>4. key = DriverKey(c) => Under(DriverKey(c))' = {}
    BY <1>4, <2>1 DEF Under, IsLeaf, IsStrictPrefix
  <2>5. /\ Under(ClassKey(c))' \subseteq Under(ClassKey(c))
        /\ Under(DriverKey(c))' \subseteq Under(DriverKey(c))
    BY <2>1 DEF Under
  <2>6. QED
    BY <1>1, <2>1, <2>2, <2>3, <2>4, <2>5
<1>5. QED
  BY <1>2, <1>3, <1>4, ValueSet DEF RegistryStep

-----------------------------------------------------------------------------
(* What a process has achieved is not undone by the other build's. *)

\* A key that is b's own, or its list of drivers, is left as it is by c.
LEMMA OtherBuildKeeps ==
    ASSUME KeysFit, KeysFit', NEW b \in Builds, NEW c \in Builds, c # b, Touched(c), NEW k,
           Own(b, k) \/ k = AsioKey(b)
    PROVE  (k \in DOMAIN reg' <=> k \in DOMAIN reg) /\ (k \in DOMAIN reg => reg'[k] = reg[k])
<1>1. ASSUME k \in DOMAIN reg \cup DOMAIN reg' PROVE Kept(k)
  <2>1. k \in Seq(Names)
    BY <1>1 DEF KeysFit
  <2>2. ~Own(c, k) /\ k # AsioKey(c)
    BY <2>1, OneOwner, AboveNotOwn, KeysDiffer
  <2>3. QED
    BY <1>1, <2>2 DEF Touched, May
<1>2. QED
  BY <1>1 DEF Kept

\* And so is what is below its keys.
LEMMA OtherBuildKeepsTrees ==
    ASSUME KeysFit, KeysFit', NEW b \in Builds, NEW c \in Builds, c # b, Touched(c)
    PROVE  Under(ClassKey(b))' = Under(ClassKey(b)) /\ Under(DriverKey(b))' = Under(DriverKey(b))
BY OtherBuildKeeps DEF Under, Own

\* What b's process has achieved stays while c's takes a step.
LEMMA SoFarStays ==
    ASSUME KeysFit, KeysFit', NEW b \in Builds, NEW c \in Builds, c # b, Touched(c), SoFar(b),
           at'[b] = at[b], op'[b] = op[b], dir'[b] = dir[b], todo'[b] = todo[b],
           sound'[b] = sound[b]
    PROVE  SoFar(b)'
<1>1. \A k \in {ClassKey(b), ServerKey(b), DriverKey(b), AsioKey(b)} :
         (k \in DOMAIN reg' <=> k \in DOMAIN reg) /\ (k \in DOMAIN reg => reg'[k] = reg[k])
  BY OtherBuildKeeps, OwnKeys
<1>2. \A k \in {ClassKey(b), ServerKey(b), DriverKey(b)} : \A n :
         (Has(k, n)' <=> Has(k, n)) /\ (Has(k, n) => Value(k, n)' = Value(k, n))
  BY <1>1 DEF Has, Value
<1>3. \A d : Loadable(b, d)' <=> Loadable(b, d)
  BY <1>2 DEF Loadable
<1>4. SoundEntry(b, dir[b])' <=> SoundEntry(b, dir[b])
  BY <1>1, <1>2, <1>3 DEF SoundEntry
<1>5. EntrySoFar(b) => EntrySoFar(b)'
  BY <1>1, <1>2, <1>4 DEF EntrySoFar
<1>6. ListedSoFar(b) => ListedSoFar(b)'
  BY <1>1, <1>2, <1>3 DEF ListedSoFar, ListedDriver, Entered
<1>7. RemovedSoFar(b) => RemovedSoFar(b)'
  BY OtherBuildKeepsTrees DEF RemovedSoFar
<1>8. QED
  BY <1>5, <1>6, <1>7 DEF SoFar

\* A process changes what is its own.
LEMMA OthersWait ==
    ASSUME Shapes, NEW b \in Builds, Process(b), NEW c \in Builds, c # b
    PROVE  at'[c] = at[c] /\ todo'[c] = todo[c]
<1>1. at' = at \/ \E l : at' = [at EXCEPT ![b] = l]
  BY DEF Process, Class, NewEntry, Listing, Begin, FindClass, ReadPath, ListClass, DropClass,
         MakeClass, Describe, MakeServer, SetPath, SetModel, FindAsio, MakeAsio, FindDriver,
         ListDriver, DropDriver, MakeDriver, SetClsid, SetText, Return, Kill, Find, CreateKey,
         SetValue, ListKeys, DeleteListed, ListEnds, Goes
<1>2. todo' = todo \/ \E l : todo' = [todo EXCEPT ![b] = l]
  BY DEF Process, Class, NewEntry, Listing, Begin, FindClass, ReadPath, ListClass, DropClass,
         MakeClass, Describe, MakeServer, SetPath, SetModel, FindAsio, MakeAsio, FindDriver,
         ListDriver, DropDriver, MakeDriver, SetClsid, SetText, Return, Kill, Find, CreateKey,
         SetValue, ListKeys, DeleteListed, ListEnds
<1>3. QED
  BY <1>1, <1>2 DEF Shapes

\* The same of what the run is for, and whether it is sound.
LEMMA OthersRun ==
    ASSUME RegistrationTypeOK, NEW b \in Builds, Process(b), NEW c \in Builds, c # b
    PROVE  op'[c] = op[c] /\ dir'[c] = dir[c] /\ sound'[c] = sound[c]
<1>1. /\ op' = op \/ \E l : op' = [op EXCEPT ![b] = l]
      /\ dir' = dir \/ \E l : dir' = [dir EXCEPT ![b] = l]
  BY DEF Process, Class, NewEntry, Listing, Begin, FindClass, ReadPath, ListClass, DropClass,
         MakeClass, Describe, MakeServer, SetPath, SetModel, FindAsio, MakeAsio, FindDriver,
         ListDriver, DropDriver, MakeDriver, SetClsid, SetText, Return, Kill, Find, CreateKey,
         SetValue, ListKeys, DeleteListed, ListEnds
<1>2. sound' = sound \/ \E l : sound' = [sound EXCEPT ![b] = l]
  BY DEF Process, Class, NewEntry, Listing, Begin, FindClass, ReadPath, ListClass, DropClass,
         MakeClass, Describe, MakeServer, SetPath, SetModel, FindAsio, MakeAsio, FindDriver,
         ListDriver, DropDriver, MakeDriver, SetClsid, SetText, Return, Kill, Find, CreateKey,
         SetValue, ListKeys, DeleteListed, ListEnds, Change, Works, Fails
<1>3. QED
  BY <1>1, <1>2 DEF RegistrationTypeOK

-----------------------------------------------------------------------------
(* What a process achieves with a step of its own. *)

\* Among keys of a bounded depth there is one with none below it, and
\* deleteRegPath's loop takes such a one.
LEMMA NextIsLowest ==
    ASSUME KeysFit, NEW S, S \subseteq DOMAIN reg, S # {}
    PROVE  NextListed(S) \in S /\ \A other \in S : ~IsStrictPrefix(NextListed(S), other)
<1>1. \A k \in S : Len(k) \in 0 .. 6 /\ k \in Seq(Names)
  BY DEF KeysFit, MaxDepth
<1>2. \E k \in S : \A other \in S : Len(other) <= Len(k)
  <2> DEFINE D == {Len(k) : k \in S}
  <2>0. D # {} /\ D \subseteq 0 .. 6
    BY <1>1
  <2> HIDE DEF D
  <2>1. \A m \in D : m \in Nat /\ (m = 0 \/ m = 1 \/ m = 2 \/ m = 3 \/ m = 4 \/ m = 5 \/ m = 6)
    BY <2>0
  <2>2. 0 \in D \/ 1 \in D \/ 2 \in D \/ 3 \in D \/ 4 \in D \/ 5 \in D \/ 6 \in D
    BY <2>0, <2>1
  <2>3. \E n \in D : \A m \in D : m <= n
    BY <2>1, <2>2
  <2>4. QED
    BY <2>3 DEF D
<1>3. \E k \in S : \A other \in S : ~IsStrictPrefix(k, other)
  BY <1>1, <1>2, PrefixLength
<1>4. QED
  BY <1>3 DEF NextListed

\* While what is below a key is all listed, the next key of the list goes, and
\* the list is of what is left below it.
LEMMA TreeShrinks ==
    ASSUME KeysFit, Shapes, NEW b \in Builds, NEW key, key \in Seq(Names), todo[b] = Under(key),
           DeleteListed(b), ~Fails(b)
    PROVE  todo'[b] = Under(key)' /\ \E k \in Under(key) : reg' = WithoutKey(k)
<1>1. PICK k \in todo[b] : /\ k = NextListed(todo[b])
                           /\ reg' = IF IsLeaf(k) THEN WithoutKey(k) ELSE reg
                           /\ todo' = [todo EXCEPT ![b] = @ \ {k}]
  BY DEF DeleteListed, Change
<1>2. \A other \in Under(key) : ~IsStrictPrefix(k, other)
  BY <1>1, NextIsLowest DEF Under
<1>3. IsLeaf(k)
  <2>1. ASSUME NEW other \in DOMAIN reg, IsStrictPrefix(k, other) PROVE FALSE
    <3>1. IsPrefix(key, k) /\ IsPrefix(k, other) /\ k \in Seq(Names) /\ other \in Seq(Names)
      BY <1>1, <2>1 DEF Under, IsStrictPrefix, KeysFit
    <3>2. other \in Under(key)
      BY <3>1, PrefixTransitive DEF Under
    <3>3. QED
      BY <1>2, <2>1, <3>2
  <2>2. QED
    BY <2>1 DEF IsLeaf
<1>4. todo'[b] = Under(key) \ {k} /\ DOMAIN reg' = DOMAIN reg \ {k}
  BY <1>1, <1>3, KeyGone DEF Shapes
<1>5. QED
  BY <1>1, <1>3, <1>4 DEF Under

\* A call that has failed ends what is said of the run.
LEMMA FailedCall ==
    ASSUME RegistrationTypeOK, NEW b \in Builds, Fails(b)
    PROVE  SoFar(b)'
<1>1. sound'[b] = FALSE
  BY Zenon DEF RegistrationTypeOK, Fails
<1>2. QED
  BY <1>1 DEF SoFar

\* With the same registry the entry is what it was.
LEMMA SameRegistry ==
    ASSUME NEW b \in Builds, reg' = reg
    PROVE  /\ \A k, n : Has(k, n)' <=> Has(k, n)
           /\ \A k, n : Value(k, n)' = Value(k, n)
           /\ \A d : SoundEntry(b, d)' <=> SoundEntry(b, d)
           /\ \A d : Loadable(b, d)' <=> Loadable(b, d)
           /\ ListedDriver(b)' <=> ListedDriver(b)
           /\ \A k : Under(k)' = Under(k)
BY DEF Has, Value, SoundEntry, Loadable, ListedDriver, Under

\* findRegPath
LEMMA FindSoFar ==
    ASSUME RegistrationTypeOK, Shapes, Rooted, NEW b \in Builds, SoFar(b),
           FindClass(b) \/ FindAsio(b) \/ FindDriver(b)
    PROVE  SoFar(b)'
<1>1. CASE Fails(b)
  BY <1>1, FailedCall
<1>2. CASE ~Fails(b)
  <2>0. UNCHANGED <<reg, op, dir, todo, sound>>
    BY <1>2 DEF FindClass, FindAsio, FindDriver, Find, Works
  <2>1. /\ \A d : SoundEntry(b, d)' <=> SoundEntry(b, d)
        /\ Entered(b)' <=> Entered(b)
        /\ \A k : Under(k)' = Under(k)
    BY <2>0, SameRegistry DEF Entered
  <2>2. /\ ClassKey(b) \notin DOMAIN reg => Under(ClassKey(b)) = {}
        /\ AsioKey(b) \notin DOMAIN reg => Under(DriverKey(b)) = {}
        /\ DriverKey(b) \notin DOMAIN reg => Under(DriverKey(b)) = {}
    BY DEF Rooted
  <2>3. CASE FindClass(b)
    <3>1. /\ at[b] = "findClass"
          /\ op[b] = "register" =>
               at'[b] = IF ClassKey(b) \in DOMAIN reg THEN "readPath" ELSE "makeClass"
          /\ op[b] = "unregister" =>
               at'[b] = IF ClassKey(b) \in DOMAIN reg THEN "listClass" ELSE "findAsio"
      BY <1>2, <2>3 DEF FindClass, Find, At, Registering, Goes, Shapes
    <3>2. QED
      BY <2>0, <2>1, <2>2, <3>1
         DEF SoFar, EntrySoFar, ListedSoFar, RemovedSoFar, AfterClass, AfterAsio, Deleting
  <2>4. CASE FindAsio(b)
    <3>1. /\ at[b] = "findAsio"
          /\ op[b] = "register" =>
               at'[b] = IF AsioKey(b) \in DOMAIN reg THEN "findDriver" ELSE "makeAsio"
          /\ op[b] = "unregister" =>
               at'[b] = IF AsioKey(b) \in DOMAIN reg THEN "findDriver" ELSE "return"
      BY <1>2, <2>4 DEF FindAsio, Find, At, Registering, Goes, Shapes
    <3>2. QED
      BY <2>0, <2>1, <2>2, <3>1
         DEF SoFar, EntrySoFar, ListedSoFar, RemovedSoFar, AfterClass, AfterAsio, Deleting
  <2>5. CASE FindDriver(b)
    <3>1. /\ at[b] = "findDriver"
          /\ op[b] = "register" =>
               at'[b] = IF DriverKey(b) \in DOMAIN reg THEN "listDriver" ELSE "makeDriver"
          /\ op[b] = "unregister" =>
               at'[b] = IF DriverKey(b) \in DOMAIN reg THEN "listDriver" ELSE "return"
      BY <1>2, <2>5 DEF FindDriver, Find, At, Registering, Goes, Shapes
    <3>2. QED
      BY <2>0, <2>1, <2>2, <3>1
         DEF SoFar, EntrySoFar, ListedSoFar, RemovedSoFar, AfterClass, AfterAsio, Deleting
  <2>6. QED
    BY <2>3, <2>4, <2>5
<1>3. QED
  BY <1>1, <1>2

\* The path that is found decides whether the entry is written again.
LEMMA ReadSoFar ==
    ASSUME RegistrationTypeOK, Shapes, NEW b \in Builds, SoFar(b), ReadPath(b)
    PROVE  SoFar(b)'
<1>1. CASE Fails(b)
  BY <1>1, FailedCall
<1>2. CASE ~Fails(b)
  <2>0. UNCHANGED <<reg, op, dir, todo, sound>>
    BY <1>2 DEF ReadPath, Works
  <2>1. Entered(b)' <=> Entered(b)
    BY <2>0, SameRegistry DEF Entered
  <2>2. at[b] = "readPath" /\ at'[b] \in {"findAsio", "listClass"}
    BY DEF ReadPath, At, Goes, Shapes
  <2>3. Has(ServerKey(b), "") => (at'[b] = "findAsio" => Value(ServerKey(b), "") = dir[b])
    BY <1>2 DEF ReadPath, At, Goes, Shapes
  <2>4. sound[b] /\ op[b] = "register" /\ at'[b] = "findAsio" => Entered(b)
    BY <2>2, <2>3 DEF SoFar, EntrySoFar, SoundEntry, Entered
  <2>5. ~(sound[b] /\ op[b] = "unregister")
    BY <2>2 DEF SoFar, RemovedSoFar, Deleting
  <2>6. QED
    BY <2>0, <2>1, <2>2, <2>4, <2>5 DEF SoFar, EntrySoFar, ListedSoFar, AfterClass, AfterAsio
<1>3. QED
  BY <1>1, <1>2

\* findAllSubKeys
LEMMA ListSoFar ==
    ASSUME RegistrationTypeOK, Shapes, NEW b \in Builds, SoFar(b), ListClass(b) \/ ListDriver(b)
    PROVE  SoFar(b)'
<1>1. CASE Fails(b)
  BY <1>1, FailedCall
<1>2. CASE ~Fails(b)
  <2>0. UNCHANGED <<reg, op, dir, sound>>
    BY <1>2 DEF ListClass, ListDriver, ListKeys, Works
  <2>1. (Entered(b)' <=> Entered(b)) /\ \A k : Under(k)' = Under(k)
    BY <2>0, SameRegistry DEF Entered
  <2>2. \/ at[b] = "listClass" /\ at'[b] = "dropClass" /\ todo'[b] = Under(ClassKey(b))
        \/ at[b] = "listDriver" /\ at'[b] = "dropDriver" /\ todo'[b] = Under(DriverKey(b))
    BY <1>2 DEF ListClass, ListDriver, ListKeys, At, Goes, Shapes, AllSubKeys
  <2>3. QED
    BY <2>0, <2>1, <2>2
       DEF SoFar, EntrySoFar, ListedSoFar, RemovedSoFar, AfterClass, AfterAsio, Deleting
<1>3. QED
  BY <1>1, <1>2

\* RegDeleteKey, or the end of a list.
LEMMA DropSoFar ==
    ASSUME RegistrationTypeOK, IInv, KeysFit, ListedBelow, NEW b \in Builds, SoFar(b),
           DropClass(b) \/ DropDriver(b)
    PROVE  SoFar(b)'
<1>1. CASE Fails(b)
  BY <1>1, FailedCall
<1>2. CASE ~Fails(b) /\ DeleteListed(b)
  <2>1. UNCHANGED <<op, at, dir, sound>>
    BY <1>2 DEF DeleteListed, Change, Works
  <2>2. PICK key \in todo[b] : reg' = reg \/ reg' = WithoutKey(key)
    BY <1>2 DEF DeleteListed, Change
  <2>3. Own(b, key)
    BY DEF IInv, ListedAreOwn
  <2>4. DOMAIN reg' \subseteq DOMAIN reg /\ \A k \in DOMAIN reg' : reg'[k] = reg[k]
    BY <2>2, KeyGone
  <2>5. ASSUME sound[b], op[b] = "unregister" PROVE RemovedSoFar(b)'
    <3>1. Shapes /\ RemovedSoFar(b)
      BY <2>5 DEF IInv, SoFar
    <3>2. CASE at[b] = "dropClass"
      <4>1. todo'[b] = Under(ClassKey(b))'
        BY <1>2, <3>1, <3>2, KeyPaths, TreeShrinks DEF RemovedSoFar
      <4>2. QED
        BY <2>1, <3>2, <4>1 DEF RemovedSoFar, AfterClass, Deleting
    <3>3. CASE at[b] = "dropDriver"
      <4>1. todo'[b] = Under(DriverKey(b))'
        BY <1>2, <3>1, <3>3, KeyPaths, TreeShrinks DEF RemovedSoFar
      <4>2. Under(ClassKey(b))' = {}
        BY <2>4, <3>1, <3>3 DEF RemovedSoFar, AfterClass, Under
      <4>3. QED
        BY <2>1, <3>3, <4>1, <4>2 DEF RemovedSoFar, AfterClass, Deleting
    <3>4. QED
      BY <3>2, <3>3 DEF DropClass, DropDriver, At
  <2>6. ASSUME sound[b], op[b] = "register" PROVE EntrySoFar(b)' /\ ListedSoFar(b)'
    <3>1. CASE at[b] = "dropClass"
      BY <2>1, <3>1 DEF EntrySoFar, ListedSoFar, AfterClass, AfterAsio
    <3>2. CASE at[b] = "dropDriver"
      <4>1. Entered(b) /\ AsioKey(b) \in DOMAIN reg /\ IsPrefix(DriverKey(b), key)
        BY <2>6, <3>2 DEF SoFar, ListedSoFar, AfterClass, AfterAsio, ListedBelow
      <4>2. ClassKey(b) \in DOMAIN reg /\ ServerKey(b) \in DOMAIN reg
        BY <4>1 DEF Entered, Loadable, Has
      <4>3. key \notin {ClassKey(b), ServerKey(b), AsioKey(b)}
        BY <2>3, <4>1, MadeBelow, AboveNotOwn, KeysDiffer
      <4>4. /\ {ClassKey(b), ServerKey(b), AsioKey(b)} \subseteq DOMAIN reg'
            /\ reg'[ClassKey(b)] = reg[ClassKey(b)] /\ reg'[ServerKey(b)] = reg[ServerKey(b)]
        <5>1. DOMAIN reg \ {key} \subseteq DOMAIN reg'
          BY <2>2, KeyGone
        <5>2. QED
          BY <2>4, <4>1, <4>2, <4>3, <5>1
      <4>5. Entered(b)'
        BY <2>1, <4>1, <4>4 DEF Entered, Loadable, Has, Value
      <4>6. QED
        BY <2>1, <3>2, <4>4, <4>5 DEF EntrySoFar, ListedSoFar, AfterClass, AfterAsio
    <3>3. QED
      BY <3>1, <3>2 DEF DropClass, DropDriver, At
  <2>7. QED
    BY <2>1, <2>5, <2>6 DEF SoFar
<1>3. CASE ~Fails(b) /\ ~DeleteListed(b)
  <2>1. /\ UNCHANGED <<reg, op, dir, todo, sound>> /\ todo[b] = {}
        /\ \/ /\ at[b] = "dropClass"
              /\ at'[b] = IF op[b] = "register" THEN "makeClass" ELSE "findAsio"
           \/ /\ at[b] = "dropDriver"
              /\ at'[b] = IF op[b] = "register" THEN "makeDriver" ELSE "return"
    BY <1>3 DEF DropClass, DropDriver, ListEnds, At, Registering, Goes, IInv, Shapes
  <2>2. (Entered(b)' <=> Entered(b)) /\ \A k : Under(k)' = Under(k)
    BY <2>1, SameRegistry DEF Entered
  <2>3. QED
    BY <2>1, <2>2
       DEF SoFar, EntrySoFar, ListedSoFar, RemovedSoFar, AfterClass, AfterAsio, Deleting
<1>4. QED
  BY <1>1, <1>2, <1>3

\* createRegPath and createRegStringValue: while a registration goes on, what
\* is needed to make a key or set a value is there.
LEMMA MakeSoFar ==
    ASSUME RegistrationTypeOK, Shapes, Rooted, NEW b \in Builds, SoFar(b),
           MakeClass(b) \/ MakeServer(b) \/ MakeAsio(b) \/ MakeDriver(b)
    PROVE  SoFar(b)'
<1>1. CASE Fails(b)
  BY <1>1, FailedCall
<1>2. CASE ~Fails(b)
  <2>1. UNCHANGED <<op, dir, todo, sound>>
    BY <1>2 DEF MakeClass, MakeServer, MakeAsio, MakeDriver, CreateKey, Change, Works
  <2>2. ~(sound[b] /\ op[b] = "unregister")
    BY DEF SoFar, RemovedSoFar, Deleting, MakeClass, MakeServer, MakeAsio, MakeDriver, At
  <2>3. {ClassesRoot(b), SoftwareRoot(b)} \subseteq DOMAIN reg
    BY DEF Rooted
  <2> SUFFICES ASSUME sound[b], op[b] = "register" PROVE EntrySoFar(b)' /\ ListedSoFar(b)'
    BY <2>1, <2>2 DEF SoFar
  <2>4. EntrySoFar(b) /\ ListedSoFar(b)
    BY DEF SoFar
  <2>5. CASE MakeClass(b)
    <3>1. at'[b] = "describe" /\ reg' = WithKey(ClassKey(b))
      BY <1>2, <2>3, <2>5, KeyPaths DEF MakeClass, CreateKey, Change, Goes, Shapes
    <3>2. ClassKey(b) \in DOMAIN reg'
      BY <3>1, KeyMade
    <3>3. QED
      BY <3>1, <3>2 DEF EntrySoFar, ListedSoFar, AfterClass, AfterAsio
  <2>6. CASE MakeServer(b)
    <3>1. Has(ClassKey(b), "") /\ at[b] = "makeServer"
      BY <2>4, <2>6 DEF EntrySoFar, MakeServer, At
    <3>2. at'[b] = "setPath" /\ reg' = WithKey(ServerKey(b))
      BY <1>2, <2>6, <3>1, KeyPaths DEF MakeServer, CreateKey, Change, Goes, Shapes, Has
    <3>3. ServerKey(b) \in DOMAIN reg' /\ Has(ClassKey(b), "")'
      BY <3>1, <3>2, KeyMade DEF Has
    <3>4. QED
      BY <3>2, <3>3 DEF EntrySoFar, ListedSoFar, AfterClass, AfterAsio
  <2>7. CASE MakeAsio(b)
    <3>1. Entered(b)
      BY <2>4, <2>7 DEF ListedSoFar, MakeAsio, At, AfterClass
    <3>2. at'[b] = "makeDriver" /\ reg' = WithKey(AsioKey(b))
      BY <1>2, <2>3, <2>7, KeyPaths DEF MakeAsio, CreateKey, Change, Goes, Shapes
    <3>3. AsioKey(b) \in DOMAIN reg' /\ Entered(b)'
      BY <2>1, <3>1, <3>2, KeyMade DEF Entered, Loadable, Has, Value
    <3>4. QED
      BY <3>2, <3>3 DEF EntrySoFar, ListedSoFar, AfterClass, AfterAsio
  <2>8. CASE MakeDriver(b)
    <3>1. Entered(b) /\ AsioKey(b) \in DOMAIN reg
      BY <2>4, <2>8 DEF ListedSoFar, MakeDriver, At, AfterClass, AfterAsio
    <3>2. at'[b] = "setClsid" /\ reg' = WithKey(DriverKey(b))
      BY <1>2, <2>8, <3>1, KeyPaths DEF MakeDriver, CreateKey, Change, Goes, Shapes
    <3>3. DriverKey(b) \in DOMAIN reg' /\ Entered(b)'
      BY <2>1, <3>1, <3>2, KeyMade DEF Entered, Loadable, Has, Value
    <3>4. QED
      BY <3>2, <3>3 DEF EntrySoFar, ListedSoFar, AfterClass, AfterAsio
  <2>9. QED
    BY <2>5, <2>6, <2>7, <2>8
<1>3. QED
  BY <1>1, <1>2

\* The same of the values of the new entry.
LEMMA EntryValueSoFar ==
    ASSUME RegistrationTypeOK, Shapes, NEW b \in Builds, SoFar(b),
           Describe(b) \/ SetPath(b) \/ SetModel(b)
    PROVE  SoFar(b)'
<1>1. CASE Fails(b)
  BY <1>1, FailedCall
<1>2. CASE ~Fails(b)
  <2>1. UNCHANGED <<op, dir, todo, sound>>
    BY <1>2 DEF Describe, SetPath, SetModel, SetValue, Change, Works
  <2>2. ~(sound[b] /\ op[b] = "unregister")
    BY DEF SoFar, RemovedSoFar, Deleting, Describe, SetPath, SetModel, At
  <2> SUFFICES ASSUME sound[b], op[b] = "register" PROVE EntrySoFar(b)' /\ ListedSoFar(b)'
    BY <2>1, <2>2 DEF SoFar
  <2>3. EntrySoFar(b) /\ ClassKey(b) # ServerKey(b)
    BY KeysDiffer DEF SoFar
  <2>4. CASE Describe(b)
    <3>1. ClassKey(b) \in DOMAIN reg
      BY <2>3, <2>4 DEF EntrySoFar, Describe, At
    <3>2. at'[b] = "makeServer" /\ reg' = WithValue(ClassKey(b), "", "DK ASIO")
      BY <1>2, <2>4, <3>1 DEF Describe, SetValue, Change, Goes, Shapes
    <3>3. Has(ClassKey(b), "")'
      BY <3>1, <3>2, ValueRead
    <3>4. QED
      BY <3>2, <3>3 DEF EntrySoFar, ListedSoFar, AfterClass, AfterAsio
  <2>5. CASE SetPath(b)
    <3>1. ServerKey(b) \in DOMAIN reg /\ Has(ClassKey(b), "")
      BY <2>3, <2>5 DEF EntrySoFar, SetPath, At
    <3>2. at'[b] = "setModel" /\ reg' = WithValue(ServerKey(b), "", dir[b])
      BY <1>2, <2>5, <3>1 DEF SetPath, SetValue, Change, Goes, Shapes
    <3>3. /\ Has(ServerKey(b), "")' /\ Value(ServerKey(b), "")' = dir[b]
          /\ Has(ClassKey(b), "")'
      BY <2>3, <3>1, <3>2, ValueRead
    <3>4. QED
      BY <2>1, <3>2, <3>3 DEF EntrySoFar, ListedSoFar, AfterClass, AfterAsio, Has
  <2>6. CASE SetModel(b)
    <3>1. Has(ServerKey(b), "") /\ Value(ServerKey(b), "") = dir[b] /\ Has(ClassKey(b), "")
      BY <2>3, <2>6 DEF EntrySoFar, SetModel, At
    <3>2. at'[b] = "findAsio" /\ reg' = WithValue(ServerKey(b), "ThreadingModel", "Apartment")
      BY <1>2, <2>6, <3>1 DEF SetModel, SetValue, Change, Goes, Shapes, Has
    <3>3. Entered(b)'
      <4>1. ServerKey(b) \in DOMAIN reg
        BY <3>1 DEF Has
      <4>2. /\ Has(ServerKey(b), "ThreadingModel")' /\ Has(ServerKey(b), "")' /\ Has(ClassKey(b), "")'
            /\ Value(ServerKey(b), "")' = Value(ServerKey(b), "")
        <5>1. /\ Has(ServerKey(b), "ThreadingModel")' /\ \A k, n : Has(k, n) => Has(k, n)'
              /\ \A k, n : Has(k, n) /\ (k # ServerKey(b) \/ n # "ThreadingModel")
                           => Value(k, n)' = Value(k, n)
          BY <3>2, <4>1, ValueRead
        <5>2. QED
          BY <3>1, <5>1
      <4>3. QED
        BY <2>1, <3>1, <4>2 DEF Entered, Loadable
    <3>4. QED
      BY <3>2, <3>3 DEF EntrySoFar, ListedSoFar, AfterClass, AfterAsio
  <2>7. QED
    BY <2>4, <2>5, <2>6
<1>3. QED
  BY <1>1, <1>2

\* And of those in the list of drivers.
LEMMA DriverValueSoFar ==
    ASSUME RegistrationTypeOK, Shapes, NEW b \in Builds, SoFar(b), SetClsid(b) \/ SetText(b)
    PROVE  SoFar(b)'
<1>1. CASE Fails(b)
  BY <1>1, FailedCall
<1>2. CASE ~Fails(b)
  <2>1. UNCHANGED <<op, dir, todo, sound>>
    BY <1>2 DEF SetClsid, SetText, SetValue, Change, Works
  <2>2. ~(sound[b] /\ op[b] = "unregister")
    BY DEF SoFar, RemovedSoFar, Deleting, SetClsid, SetText, At
  <2> SUFFICES ASSUME sound[b], op[b] = "register" PROVE EntrySoFar(b)' /\ ListedSoFar(b)'
    BY <2>1, <2>2 DEF SoFar
  <2>3. ListedSoFar(b) /\ ClassKey(b) # DriverKey(b) /\ ServerKey(b) # DriverKey(b)
    BY KeysDiffer DEF SoFar
  <2>4. Entered(b) /\ DriverKey(b) \in DOMAIN reg
    BY <2>3 DEF ListedSoFar, AfterClass, SetClsid, SetText, At, Has
  <2>5. PICK name, data : reg' = WithValue(DriverKey(b), name, data)
    BY <1>2, <2>4 DEF SetClsid, SetText, SetValue, Change
  <2>6. Entered(b)'
    <3>1. /\ Has(ServerKey(b), "") /\ Value(ServerKey(b), "") = dir[b]
          /\ Has(ServerKey(b), "ThreadingModel") /\ Has(ClassKey(b), "")
      BY <2>4 DEF Entered, Loadable
    <3>2. /\ Has(ServerKey(b), "ThreadingModel")' /\ Has(ServerKey(b), "")' /\ Has(ClassKey(b), "")'
          /\ Value(ServerKey(b), "")' = Value(ServerKey(b), "")
      <4>1. /\ \A k, n : Has(k, n) => Has(k, n)'
            /\ \A k, n : Has(k, n) /\ (k # DriverKey(b) \/ n # name)
                         => Value(k, n)' = Value(k, n)
        BY <2>4, <2>5, ValueRead
      <4>2. QED
        BY <2>3, <3>1, <4>1
    <3>3. QED
      BY <2>1, <3>1, <3>2 DEF Entered, Loadable
  <2>7. CASE SetClsid(b)
    <3>1. at'[b] = "setText" /\ reg' = WithValue(DriverKey(b), "CLSID", "{188135E1}")
      BY <1>2, <2>4, <2>7 DEF SetClsid, SetValue, Change, Goes, Shapes
    <3>2. Has(DriverKey(b), "CLSID")'
      BY <2>4, <3>1, ValueRead
    <3>3. QED
      BY <2>6, <3>1, <3>2 DEF EntrySoFar, ListedSoFar, AfterClass, AfterAsio
  <2>8. CASE SetText(b)
    <3>1. Has(DriverKey(b), "CLSID")
      BY <2>3, <2>8 DEF ListedSoFar, SetText, At
    <3>2. at'[b] = "return" /\ reg' = WithValue(DriverKey(b), "Description", "DK ASIO")
      BY <1>2, <2>4, <2>8 DEF SetText, SetValue, Change, Goes, Shapes
    <3>3. ListedDriver(b)'
      BY <2>4, <3>1, <3>2, ValueRead DEF ListedDriver
    <3>4. QED
      BY <2>6, <3>2, <3>3 DEF EntrySoFar, ListedSoFar, AfterClass, AfterAsio
  <2>9. QED
    BY <2>7, <2>8
<1>3. QED
  BY <1>1, <1>2

\* The beginning of a run and its end.
LEMMA RunSoFar ==
    ASSUME RegistrationTypeOK, Shapes, NEW b \in Builds, SoFar(b), Begin(b) \/ Return(b) \/ Kill(b)
    PROVE  SoFar(b)'
<1>1. CASE Begin(b)
  <2>1. PICK o \in {"register", "unregister"}, d \in Dirs :
          /\ op' = [op EXCEPT ![b] = o] /\ dir' = [dir EXCEPT ![b] = d]
          /\ sound' = [sound EXCEPT ![b] = o = "register" => SoundEntry(b, d)]
    BY <1>1 DEF Begin
  <2>2. at'[b] = "findClass" /\ reg' = reg
    BY <1>1 DEF Begin, Goes, Shapes
  <2>3. op'[b] = o /\ dir'[b] = d
    BY <2>1 DEF RegistrationTypeOK
  <2>4. sound'[b] = (o = "register" => SoundEntry(b, d))
    BY <2>1, Zenon DEF RegistrationTypeOK
  <2>5. SoundEntry(b, d)' <=> SoundEntry(b, d)
    BY <2>2, SameRegistry
  <2>6. op'[b] = "register" /\ sound'[b] => EntrySoFar(b)' /\ ListedSoFar(b)'
    <3>1. op'[b] = "register" /\ sound'[b] => SoundEntry(b, d)'
      BY <2>3, <2>4, <2>5
    <3>2. QED
      BY <2>2, <2>3, <3>1 DEF EntrySoFar, ListedSoFar, AfterClass, AfterAsio
  <2>7. RemovedSoFar(b)'
    BY <2>2 DEF RemovedSoFar, AfterClass, Deleting
  <2>8. QED
    BY <2>6, <2>7 DEF SoFar
<1>2. CASE Return(b) \/ Kill(b)
  <2>1. op'[b] = "none"
    BY <1>2 DEF Return, Kill, RegistrationTypeOK
  <2>2. QED
    BY <2>1 DEF SoFar
<1>3. QED
  BY <1>1, <1>2

\* A list is only changed where it is made, shortened or, with its process,
\* forgotten.
LEMMA ListedStaysBelow ==
    ASSUME Shapes, ListedBelow, NEW b \in Builds, Process(b)
    PROVE  ListedBelow'
<1> DEFINE Below(c) ==
      /\ at[c] = "dropClass" => \A k \in todo[c] : IsPrefix(ClassKey(c), k)
      /\ at[c] = "dropDriver" => \A k \in todo[c] : IsPrefix(DriverKey(c), k)
<1>1. ASSUME NEW c \in Builds, c # b PROVE Below(c)'
  <2>1. at'[c] = at[c] /\ todo'[c] = todo[c]
    BY <1>1, OthersWait
  <2>2. QED
    BY <2>1 DEF ListedBelow
<1>2. Below(b)'
  <2>1. CASE ListClass(b) \/ ListDriver(b)
    <3>1. \/ at'[b] = "dropClass" /\ todo'[b] \subseteq Under(ClassKey(b))
          \/ at'[b] = "dropDriver" /\ todo'[b] \subseteq Under(DriverKey(b))
      BY <2>1 DEF ListClass, ListDriver, ListKeys, Goes, Shapes, AllSubKeys
    <3>2. QED
      BY <3>1 DEF Under
  <2>2. CASE DropClass(b) \/ DropDriver(b)
    <3>1. \/ at'[b] = at[b] /\ todo'[b] \subseteq todo[b]
          \/ at'[b] \notin {"dropClass", "dropDriver"}
      BY <2>2 DEF DropClass, DropDriver, DeleteListed, ListEnds, Goes, Shapes
    <3>2. QED
      BY <3>1 DEF ListedBelow
  <2>3. CASE ~(ListClass(b) \/ ListDriver(b) \/ DropClass(b) \/ DropDriver(b))
    <3>1. at'[b] \notin {"dropClass", "dropDriver"}
      BY <2>3 DEF Process, Class, NewEntry, Listing, Begin, FindClass, ReadPath, MakeClass, Describe,
                  MakeServer, SetPath, SetModel, FindAsio, MakeAsio, FindDriver, MakeDriver,
                  SetClsid, SetText, Return, Kill, Find, CreateKey, SetValue, Goes, Shapes
    <3>2. QED
      BY <3>1
  <2>4. QED
    BY <2>1, <2>2, <2>3
<1>3. QED
  BY <1>1, <1>2 DEF ListedBelow

\* A step of either process keeps all of it.
LEMMA ProcessKeepsDInv ==
    ASSUME RegistrationTypeOK, IInv, DInv, NEW b \in Builds, Process(b)
    PROVE  DInv'
<1>1. KeysFit /\ Rooted /\ ListedBelow /\ Shapes /\ SoFar(b) /\ \A c \in Builds : SoFar(c)
  BY DEF DInv, IInv
<1>2. RegistryStep(b) /\ Touched(b)
  BY ProcessOnRegistry, ProcessStep
<1>3. KeysFit' /\ Rooted' /\ ListedBelow'
  BY <1>1, <1>2, KeysStayFit, StaysRooted, ListedStaysBelow
<1>4. SoFar(b)'
  BY <1>1, RunSoFar, FindSoFar, ReadSoFar, ListSoFar, DropSoFar, MakeSoFar, EntryValueSoFar,
     DriverValueSoFar DEF Process, Class, NewEntry, Listing
<1>5. ASSUME NEW c \in Builds, c # b PROVE SoFar(c)'
  <2>1. /\ at'[c] = at[c] /\ op'[c] = op[c] /\ dir'[c] = dir[c] /\ todo'[c] = todo[c]
        /\ sound'[c] = sound[c]
    BY <1>1, <1>5, OthersWait, OthersRun
  <2>2. QED
    BY <1>1, <1>2, <1>3, <1>5, <2>1, SoFarStays
<1>6. QED
  BY <1>3, <1>4, <1>5 DEF DInv

-----------------------------------------------------------------------------
(* The beginning, and the two promises. *)

\* What is above a path is no longer and has the same names.
LEMMA AboveRoot ==
    ASSUME NEW k \in Roots
    PROVE  k \in Seq(Names) /\ Len(k) \in 0 .. 3 /\ \A c \in Builds : ~Own(c, k)
<1>1. PICK b \in Builds : \E r \in {ClassesRoot(b), SoftwareRoot(b)} : \E n \in 1 .. Len(r) :
        k = SubSeq(r, 1, n)
  BY DEF Roots
<1>2. PICK r \in {ClassesRoot(b), SoftwareRoot(b)} : \E n \in 1 .. Len(r) : k = SubSeq(r, 1, n)
  BY <1>1
<1>3. PICK n \in 1 .. Len(r) : k = SubSeq(r, 1, n)
  BY <1>2
<1>4. r \in Seq(Names) /\ Len(r) = 2 + Deeper(b) /\ Deeper(b) \in {0, 1}
  BY RootPaths
<1>5. Len(r) \in 0 .. 3 /\ n \in 0 .. 3
  BY <1>4
<1>6. k \in Seq(Names) /\ Len(k) = n /\ \A i \in 1 .. n : k[i] = r[i]
  BY <1>3, <1>4, <1>5
<1>7. IsPrefix(k, r)
  BY <1>4, <1>6, PrefixPoints
<1>8. ASSUME NEW c \in Builds, Own(c, k) PROVE FALSE
  <2>1. Own(c, r)
    BY <1>4, <1>6, <1>7, <1>8, KeyPaths, PrefixTransitive DEF Own
  <2>2. QED
    BY <2>1, AboveNotOwn
<1>9. QED
  BY <1>5, <1>6, <1>8

\* The keys of others.
LEMMA ForeignKeys ==
    ASSUME NEW b \in Builds, NEW k \in Foreign(b)
    PROVE  k \in Seq(Names) /\ Len(k) \in 0 .. 5 /\ \A c \in Builds : ~Own(c, k)
<1>1. {"{OTHER}", "Other Driver"} \subseteq Names
  BY DEF Names
<1>2. Deeper(b) \in {0, 1} /\ \A c \in Builds : Deeper(c) \in {0, 1}
  BY RootPaths
<1>3. CASE k = Append(ClassesRoot(b), "{OTHER}")
  <2>1. /\ ClassesRoot(b) \in Seq(Names) /\ Len(ClassesRoot(b)) = 2 + Deeper(b)
        /\ ClassesRoot(b)[1] = "HKCR" /\ (b = "wow64" <=> ClassesRoot(b)[2] = "Wow6432Node")
    BY RootPaths
  <2>2. /\ k \in Seq(Names) /\ Len(k) = 3 + Deeper(b) /\ k[3 + Deeper(b)] = "{OTHER}"
        /\ \A i \in 1 .. 2 + Deeper(b) : k[i] = ClassesRoot(b)[i]
    <3>1. /\ k \in Seq(Names) /\ Len(k) = Len(ClassesRoot(b)) + 1
          /\ k[Len(ClassesRoot(b)) + 1] = "{OTHER}"
          /\ \A i \in 1 .. Len(ClassesRoot(b)) : k[i] = ClassesRoot(b)[i]
      BY <1>1, <1>3, <2>1, PathExtended
    <3>2. 2 + Deeper(b) + 1 = 3 + Deeper(b)
      BY <1>2
    <3>3. QED
      BY <1>2, <2>1, <3>1, <3>2
  <2>3. k[1] = "HKCR" /\ (b = "wow64" <=> k[2] = "Wow6432Node")
    <3>1. 1 \in 1 .. 2 + Deeper(b) /\ 2 \in 1 .. 2 + Deeper(b)
      BY <1>2
    <3>2. QED
      BY <2>1, <2>2, <3>1
  <2>4. ASSUME NEW c \in Builds PROVE ~Own(c, k)
    <3>1. ~IsPrefix(DriverKey(c), k)
      BY <2>2, <2>3, BelowDriver
    <3>2. ASSUME IsPrefix(ClassKey(c), k) PROVE FALSE
      <4>1. b = c
        BY <2>2, <2>3, <3>2, BelowClass DEF Builds
      <4>2. ClassKey(b)[3 + Deeper(b)] = "{188135E1}"
        <5>1. ClassKey(b)[Len(ClassesRoot(b)) + 1] = "{188135E1}"
          BY KeyEnds
        <5>2. Len(ClassesRoot(b)) + 1 = 3 + Deeper(b)
          BY <1>2, <2>1
        <5>3. QED
          BY <5>1, <5>2
      <4>3. 3 + Deeper(b) \in 1 .. Len(ClassKey(b)) /\ ClassKey(b) \in Seq(Names)
        <5>1. Len(ClassKey(b)) = 3 + Deeper(b)
          BY KeyNames
        <5>2. QED
          BY <1>2, <5>1, KeyPaths, SMTT(30)
      <4>4. ClassKey(b)[3 + Deeper(b)] = k[3 + Deeper(b)]
        BY <2>2, <3>2, <4>1, <4>3, PrefixPoints
      <4>5. QED
        BY <2>2, <4>2, <4>4
    <3>3. QED
      BY <3>1, <3>2 DEF Own
  <2>5. Len(k) \in 0 .. 5
    <3>1. Len(k) = 3 + Deeper(b)
      BY <2>2
    <3>2. Deeper(b) \in {0, 1}
      BY <1>2
    <3>3. QED
      BY <3>1, <3>2
  <2>6. QED
    BY <2>2, <2>4, <2>5
<1>4. CASE k = Append(AsioKey(b), "Other Driver")
  <2>1. /\ AsioKey(b) \in Seq(Names) /\ Len(AsioKey(b)) = 3 + Deeper(b)
        /\ AsioKey(b)[1] = "HKLM" /\ (b = "wow64" <=> AsioKey(b)[3] = "Wow6432Node")
    BY KeyNames, KeyPaths
  <2>2. /\ k \in Seq(Names) /\ Len(k) = 4 + Deeper(b) /\ k[4 + Deeper(b)] = "Other Driver"
        /\ \A i \in 1 .. 3 + Deeper(b) : k[i] = AsioKey(b)[i]
    <3>1. /\ k \in Seq(Names) /\ Len(k) = Len(AsioKey(b)) + 1
          /\ k[Len(AsioKey(b)) + 1] = "Other Driver"
          /\ \A i \in 1 .. Len(AsioKey(b)) : k[i] = AsioKey(b)[i]
      BY <1>1, <1>4, <2>1, PathExtended
    <3>2. 3 + Deeper(b) + 1 = 4 + Deeper(b)
      BY <1>2
    <3>3. QED
      BY <1>2, <2>1, <3>1, <3>2
  <2>3. k[1] = "HKLM" /\ (b = "wow64" <=> k[3] = "Wow6432Node")
    <3>1. 1 \in 1 .. 3 + Deeper(b) /\ 3 \in 1 .. 3 + Deeper(b)
      BY <1>2
    <3>2. QED
      BY <2>1, <2>2, <3>1
  <2>4. ASSUME NEW c \in Builds PROVE ~Own(c, k)
    <3>1. ~IsPrefix(ClassKey(c), k)
      BY <2>2, <2>3, BelowClass
    <3>2. ASSUME IsPrefix(DriverKey(c), k) PROVE FALSE
      <4>1. b = c
        BY <2>2, <2>3, <3>2, BelowDriver DEF Builds
      <4>2. DriverKey(b)[4 + Deeper(b)] = "DK ASIO Driver"
        <5>1. DriverKey(b)[Len(AsioKey(b)) + 1] = "DK ASIO Driver"
          BY KeyEnds
        <5>2. Len(AsioKey(b)) + 1 = 4 + Deeper(b)
          BY <1>2, <2>1
        <5>3. QED
          BY <5>1, <5>2
      <4>3. 4 + Deeper(b) \in 1 .. Len(DriverKey(b)) /\ DriverKey(b) \in Seq(Names)
        <5>1. Len(DriverKey(b)) = 4 + Deeper(b)
          BY KeyNames
        <5>2. QED
          BY <1>2, <5>1, KeyPaths, SMTT(30)
      <4>4. DriverKey(b)[4 + Deeper(b)] = k[4 + Deeper(b)]
        BY <2>2, <3>2, <4>1, <4>3, PrefixPoints
      <4>5. QED
        BY <2>2, <4>2, <4>4
    <3>3. QED
      BY <3>1, <3>2 DEF Own
  <2>5. Len(k) \in 0 .. 5
    <3>1. Len(k) = 4 + Deeper(b)
      BY <2>2
    <3>2. Deeper(b) \in {0, 1}
      BY <1>2
    <3>3. QED
      BY <3>1, <3>2
  <2>6. QED
    BY <2>2, <2>4, <2>5
<1>5. QED
  BY <1>3, <1>4 DEF Foreign

\* The keys of an installed driver.
LEMMA InstalledKeys ==
    ASSUME NEW b \in Builds, NEW d, NEW k \in DOMAIN Installed(b, d)
    PROVE  /\ k \in Seq(Names) /\ Len(k) \in 0 .. MaxDepth
           /\ \A c \in Builds : Own(c, k) => c = b
<1> DEFINE class == ClassKey(b)
<1>0. {"Implemented Categories", "{ASIO}"} \subseteq Names
  BY DEF Names
<1>1. /\ class \in Seq(Names) /\ ServerKey(b) \in Seq(Names) /\ DriverKey(b) \in Seq(Names)
      /\ Len(class) = 3 + Deeper(b) /\ Len(ServerKey(b)) = 4 + Deeper(b)
      /\ Len(DriverKey(b)) = 4 + Deeper(b) /\ Deeper(b) \in {0, 1}
  <2>1. /\ Deeper(b) \in {0, 1} /\ Len(ClassKey(b)) = 3 + Deeper(b)
        /\ Len(ServerKey(b)) = 4 + Deeper(b) /\ Len(DriverKey(b)) = 4 + Deeper(b)
    BY KeyNames
  <2>2. QED
    BY <2>1, KeyPaths
<1>2. /\ Category(b) \in Seq(Names) /\ Len(Category(b)) = Len(class) + 1
      /\ IsPrefix(class, Category(b))
  BY <1>0, <1>1, PathExtended, PrefixKept DEF Category
<1>3. LET sub == Append(Category(b), "{ASIO}")
      IN  sub \in Seq(Names) /\ Len(sub) = Len(Category(b)) + 1 /\ IsPrefix(class, sub)
  <2> DEFINE sub == Append(Category(b), "{ASIO}")
  <2>1. sub \in Seq(Names) /\ Len(sub) = Len(Category(b)) + 1 /\ IsPrefix(Category(b), sub)
    BY <1>0, <1>2, PathExtended, PrefixKept
  <2>2. IsPrefix(class, sub)
    BY <1>1, <1>2, <2>1, PrefixTransitive
  <2>3. QED
    BY <2>1, <2>2
<1>4. k \in {class, ServerKey(b), DriverKey(b), Category(b), Append(Category(b), "{ASIO}")}
  BY DEF Installed, Added
<1>5. k \in Seq(Names) /\ Len(k) \in 0 .. 6
  <2>1. CASE k \in {class, ServerKey(b), DriverKey(b)}
    <3>1. /\ Deeper(b) \in {0, 1} /\ Len(class) = 3 + Deeper(b)
          /\ Len(ServerKey(b)) = 4 + Deeper(b) /\ Len(DriverKey(b)) = 4 + Deeper(b)
      BY <1>1
    <3>2. Len(class) \in 0 .. 6 /\ Len(ServerKey(b)) \in 0 .. 6 /\ Len(DriverKey(b)) \in 0 .. 6
      BY <3>1
    <3>3. QED
      BY <1>1, <2>1, <3>2
  <2>2. CASE k \in {Category(b), Append(Category(b), "{ASIO}")}
    <3>1. Deeper(b) \in {0, 1} /\ Len(class) = 3 + Deeper(b)
      BY <1>1
    <3>2. Len(Category(b)) = Len(class) + 1 /\ Len(Append(Category(b), "{ASIO}")) = Len(Category(b)) + 1
      BY <1>2, <1>3
    <3>3. Len(Category(b)) \in 0 .. 6 /\ Len(Append(Category(b), "{ASIO}")) \in 0 .. 6
      BY <3>1, <3>2
    <3>4. QED
      BY <1>2, <1>3, <2>2, <3>3
  <2>3. QED
    BY <1>4, <2>1, <2>2
<1>6. Own(b, k)
  <2>1. Own(b, class) /\ Own(b, ServerKey(b)) /\ Own(b, DriverKey(b))
    BY <1>0, OwnKeys
  <2>2. QED
    BY <1>2, <1>3, <1>4, <2>1 DEF Own
<1>7. QED
  BY <1>0, <1>5, <1>6, OneOwner DEF MaxDepth

\* The registry in the beginning.
LEMMA RegistryBegins ==
    ASSUME RegistryInit
    PROVE  KeysFit /\ Rooted
<1>1. PICK asio \in {{}, Builds}, mine \in {Nothing} \cup {Installed("native", d) : d \in Dirs} :
        /\ mine # Nothing => asio = Builds
        /\ DOMAIN reg = Roots \cup {AsioKey(b) : b \in asio}
                       \cup {k \in UNION {Foreign(b) : b \in Builds} :
                               \A b \in Builds \ asio : Parent(k) # AsioKey(b)}
                       \cup DOMAIN mine
  BY DEF RegistryInit
<1>2. \A k \in DOMAIN mine :
        /\ k \in Seq(Names) /\ Len(k) \in 0 .. MaxDepth
        /\ \A c \in Builds : Own(c, k) => c = "native"
  BY InstalledKeys DEF Nothing, Builds
<1>3. DOMAIN mine # {} =>
        asio = Builds /\ {ClassKey("native"), DriverKey("native")} \subseteq DOMAIN mine
  <2>1. CASE mine = Nothing
    BY <2>1 DEF Nothing
  <2>2. CASE mine # Nothing
    <3>1. PICK d \in Dirs : mine = Installed("native", d)
      BY <2>2
    <3>2. QED
      BY <1>1, <2>2, <3>1 DEF Installed
  <2>3. QED
    BY <2>1, <2>2
<1>4. ASSUME NEW b \in Builds
      PROVE  /\ AsioKey(b) \in Seq(Names) /\ Len(AsioKey(b)) \in 0 .. 5
             /\ \A c \in Builds : ~Own(c, AsioKey(b))
  <2>1. Len(AsioKey(b)) = 3 + Deeper(b) /\ Deeper(b) \in {0, 1}
    BY KeyNames
  <2>2. Len(AsioKey(b)) \in 0 .. 5
    BY <2>1
  <2>3. QED
    BY <2>2, KeyPaths, AboveNotOwn
<1>5. \A k \in DOMAIN reg \ DOMAIN mine :
        k \in Seq(Names) /\ Len(k) \in 0 .. 5 /\ \A c \in Builds : ~Own(c, k)
  <2>1. \A k \in Roots : k \in Seq(Names) /\ Len(k) \in 0 .. 5 /\ \A c \in Builds : ~Own(c, k)
    BY AboveRoot
  <2>2. QED
    BY <1>1, <1>4, <2>1, ForeignKeys
<1>6. KeysFit
  <2>1. 0 .. 5 \subseteq 0 .. MaxDepth
    BY DEF MaxDepth
  <2>2. QED
    BY <1>2, <1>5, <2>1 DEF KeysFit
<1>7. ASSUME NEW c \in Builds
      PROVE  /\ {ClassesRoot(c), SoftwareRoot(c)} \subseteq DOMAIN reg
             /\ Under(ClassKey(c)) # {} => ClassKey(c) \in DOMAIN reg
             /\ Under(DriverKey(c)) # {} => {DriverKey(c), AsioKey(c)} \subseteq DOMAIN reg
  <2>1. {ClassesRoot(c), SoftwareRoot(c)} \subseteq Roots
    <3>1. ASSUME NEW r \in {ClassesRoot(c), SoftwareRoot(c)} PROVE r \in Roots
      <4>1. r \in Seq(Names) /\ Len(r) = 2 + Deeper(c) /\ Deeper(c) \in {0, 1}
        BY RootPaths
      <4>2. Len(r) \in 1 .. Len(r) /\ SubSeq(r, 1, Len(r)) = r
        BY <4>1, SubSeqFull
      <4>3. r \in {SubSeq(r, 1, n) : n \in 1 .. Len(r)}
        BY <4>2
      <4>4. r \in {ClassesRoot(b) : b \in Builds} \cup {SoftwareRoot(b) : b \in Builds}
        OBVIOUS
      <4>5. QED
        BY <4>3, <4>4 DEF Roots
    <3>2. QED
      BY <3>1
  <2>2. ASSUME NEW k \in DOMAIN reg, Own(c, k)
        PROVE  {ClassKey(c), DriverKey(c), AsioKey(c)} \subseteq DOMAIN reg
    <3>1. k \in DOMAIN mine
      BY <1>5, <2>2
    <3>2. c = "native" /\ asio = Builds /\ {ClassKey(c), DriverKey(c)} \subseteq DOMAIN mine
      BY <1>2, <1>3, <2>2, <3>1
    <3>3. QED
      BY <1>1, <3>2
  <2>3. QED
    BY <1>1, <2>1, <2>2 DEF Under, Own
<1>8. QED
  BY <1>6, <1>7 DEF Rooted

\* What holds of the registry and of the two processes in every state.
THEOREM RunInvariance == RegistrationSpec => []DInv
<1>1. RegistrationInit => DInv
  <2> SUFFICES ASSUME RegistrationInit PROVE DInv
    OBVIOUS
  <2>1. KeysFit /\ Rooted
    BY RegistryBegins DEF RegistrationInit
  <2>2. \A b \in Builds : at[b] = "idle" /\ op[b] = "none"
    BY DEF RegistrationInit, ProcessesInit
  <2>3. QED
    BY <2>1, <2>2 DEF DInv, ListedBelow, SoFar
<1>2. RegistrationTypeOK /\ IInv /\ DInv /\ [RegistrationNext]_registrationVars => DInv'
  <2>1. ASSUME RegistrationTypeOK, IInv, DInv, RegistrationNext PROVE DInv'
    BY <2>1, ProcessKeepsDInv DEF RegistrationNext
  <2>2. ASSUME DInv, UNCHANGED registrationVars PROVE DInv'
    BY <2>2, ZenonT(40) DEF registrationVars, procVars, DInv, KeysFit, Rooted, ListedBelow, SoFar,
                EntrySoFar, ListedSoFar, RemovedSoFar, Entered, Loadable, ListedDriver,
                SoundEntry, Has, Value, Under
  <2>3. QED
    BY <2>1, <2>2
<1>3. QED
  BY <1>1, <1>2, Invariance, TypeCorrect, PTL DEF RegistrationSpec

\* A registration of which no call failed, and which found no entry, one of
\* another directory or a complete one, leaves a complete entry: whatever was
\* left behind by earlier runs and whatever the other build's process does.
THEOREM RegistrationCompletes == RegistrationSpec => []RegisterCompletes
<1>1. DInv => RegisterCompletes
  BY DEF DInv, SoFar, ListedSoFar, Entered, AfterClass, RegisterCompletes, At, Registering, Complete
<1>2. QED
  BY <1>1, RunInvariance, PTL

\* An unregistration of which no call failed leaves nothing of the driver,
\* from whatever state of the registry it began.
THEOREM NothingIsLeft == RegistrationSpec => []UnregisterRemovesAll
<1>1. DInv => UnregisterRemovesAll
  BY DEF DInv, SoFar, RemovedSoFar, AfterClass, UnregisterRemovesAll, At, Owned
<1>2. QED
  BY <1>1, RunInvariance, PTL
=============================================================================
