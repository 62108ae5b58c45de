---------------------------- MODULE Registration -----------------------------
(***************************************************************************)
(* regsvr32 on the driver: RegisterAsioDriver and UnregisterAsioDriver,    *)
(* one registry call at a time.  A call may fail, the process may be       *)
(* killed between two calls, and the native and the 32-bit build may be    *)
(* registered at the same time.  No caller looks at what the helpers       *)
(* return.                                                                 *)
(*                                                                         *)
(* A key of the registry is the sequence of the names on its path; reg     *)
(* maps every key there is to its values.  The directory the DLL is loaded *)
(* from stands for its path.                                               *)
(***************************************************************************)
EXTENDS Naturals, SequencesExt

CONSTANTS
    Dirs,      \* directories the DLL can be registered from
    MaxRuns,   \* runs of regsvr32, of both builds together
    MaxFaults, \* registry calls that fail
    MaxKills   \* runs that are killed

ASSUME BoundAssumption == MaxRuns \in Nat /\ MaxFaults \in Nat /\ MaxKills \in Nat

\* A process is a 32-bit one on a 64-bit Windows, or it is not.
Builds == {"native", "wow64"}

VARIABLES
    reg,     \* the registry
    op,      \* op[b]: "none", "register", "unregister"
    at,      \* at[b]: the next registry call of b's process
    dir,     \* dir[b]: szModuleName of b's process
    todo,    \* todo[b]: what findAllSubKeys has listed and is still to be deleted
    sound,   \* sound[b]: no call has failed, and an entry that was found was sound
    runs, faults, kills   \* how many are left

procVars == <<op, at, dir, todo, sound>>
registrationVars == <<reg, procVars, runs, faults, kills>>

-----------------------------------------------------------------------------
(* The keys. *)

ClassesRoot(b) == IF b = "wow64" THEN <<"HKCR", "Wow6432Node", "CLSID">> ELSE <<"HKCR", "CLSID">>
SoftwareRoot(b) == IF b = "wow64" THEN <<"HKLM", "SOFTWARE", "Wow6432Node">> ELSE <<"HKLM", "SOFTWARE">>

ClassKey(b) == Append(ClassesRoot(b), "{188135E1}")
ServerKey(b) == Append(ClassKey(b), "InprocServer32")
AsioKey(b) == Append(SoftwareRoot(b), "ASIO")
DriverKey(b) == Append(AsioKey(b), "DK ASIO Driver")

\* What other programs have put there: a class and an ASIO driver of their
\* own, and keys below the class of this driver.
Foreign(b) == {Append(ClassesRoot(b), "{OTHER}"), Append(AsioKey(b), "Other Driver")}
Category(b) == Append(ClassKey(b), "Implemented Categories")
Added(b) == {Category(b), Append(Category(b), "{ASIO}")}

NoDir == "none"

Under(key) == {k \in DOMAIN reg : IsPrefix(key, k)}
Parent(key) == SubSeq(key, 1, Len(key) - 1)
IsLeaf(key) == \A k \in DOMAIN reg : ~IsStrictPrefix(key, k)

Owned(b) == Under(ClassKey(b)) \cup Under(DriverKey(b))

-----------------------------------------------------------------------------
(* The registry. *)

NoValues == [name \in {} |-> ""]
Value(key, name) == reg[key][name]
Has(key, name) == key \in DOMAIN reg /\ name \in DOMAIN reg[key]

WithKey(key) ==
    [k \in DOMAIN reg \cup {key} |-> IF k \in DOMAIN reg THEN reg[k] ELSE NoValues]
WithoutKey(key) == [k \in DOMAIN reg \ {key} |-> reg[k]]
WithValue(key, name, data) ==
    [reg EXCEPT ![key] = [n \in DOMAIN @ \cup {name} |-> IF n = name THEN data ELSE @[n]]]

\* What COM needs to load the driver from d, and what a host lists.
Loadable(b, d) ==
    /\ Has(ServerKey(b), "") /\ Value(ServerKey(b), "") = d
    /\ Has(ServerKey(b), "ThreadingModel")
ListedDriver(b) == Has(DriverKey(b), "CLSID") /\ Has(DriverKey(b), "Description")
Complete(b, d) == Loadable(b, d) /\ Has(ClassKey(b), "") /\ ListedDriver(b)

\* An entry that the test on line 145 judges rightly: its path can be read,
\* and it is right only if the rest is there as well.
SoundEntry(b, d) ==
    ClassKey(b) \in DOMAIN reg =>
        /\ Has(ServerKey(b), "")
        /\ Value(ServerKey(b), "") = d => Loadable(b, d) /\ Has(ClassKey(b), "")

-----------------------------------------------------------------------------

Installed(b, d) ==
    [k \in {ClassKey(b), ServerKey(b), DriverKey(b)} \cup Added(b) |->
        CASE k = ClassKey(b) -> [n \in {""} |-> "DK ASIO"]
          [] k = ServerKey(b) -> [n \in {"", "ThreadingModel"} |-> IF n = "" THEN d ELSE "Apartment"]
          [] k = DriverKey(b) -> [n \in {"CLSID", "Description"} |-> IF n = "CLSID" THEN "{188135E1}" ELSE "DK ASIO"]
          [] OTHER -> NoValues]

Nothing == [k \in {} |-> NoValues]

\* The keys that are always there; a machine without any ASIO driver has no
\* key of that name.
Roots == UNION {{SubSeq(r, 1, n) : n \in 1 .. Len(r)} :
                    r \in {ClassesRoot(b) : b \in Builds} \cup {SoftwareRoot(b) : b \in Builds}}

RegistrationTypeOK ==
    /\ op \in [Builds -> {"none", "register", "unregister"}]
    /\ dir \in [Builds -> Dirs \cup {NoDir}]
    /\ \A b \in Builds : todo[b] # {} => at[b] \in {"dropClass", "dropDriver"}
    /\ sound \in [Builds -> BOOLEAN]
    /\ runs \in 0 .. MaxRuns /\ faults \in 0 .. MaxFaults /\ kills \in 0 .. MaxKills

\* No ASIO driver at all; that of another program; this one as well, in its
\* native build, from some directory.
RegistryInit ==
    \E asio \in {{}, Builds} : \E mine \in {Nothing} \cup {Installed("native", d) : d \in Dirs} :
        /\ mine # Nothing => asio = Builds
        /\ LET others == {k \in UNION {Foreign(b) : b \in Builds} :
                            \A b \in Builds \ asio : Parent(k) # AsioKey(b)}
           IN  reg = [k \in Roots \cup {AsioKey(b) : b \in asio} \cup others \cup DOMAIN mine |->
                         IF k \in DOMAIN mine THEN mine[k] ELSE NoValues]

\* No process runs regsvr32.
ProcessesInit ==
    /\ op = [b \in Builds |-> "none"]
    /\ at = [b \in Builds |-> "idle"]
    /\ dir = [b \in Builds |-> NoDir]
    /\ todo = [b \in Builds |-> {}]
    /\ sound = [b \in Builds |-> TRUE]
    /\ runs = MaxRuns /\ faults = MaxFaults /\ kills = MaxKills

RegistrationInit == RegistryInit /\ ProcessesInit

-----------------------------------------------------------------------------
(* Registry calls.  One that fails changes nothing. *)

At(b, label) == at[b] = label
Goes(b, label) == at' = [at EXCEPT ![b] = label]
Registering(b) == op[b] = "register"

Fails(b) ==
    /\ faults > 0
    /\ faults' = faults - 1
    /\ sound' = [sound EXCEPT ![b] = FALSE]

Works == UNCHANGED <<faults, sound>>

\* findRegPath; a key that cannot be opened is taken for one that is missing.
Find(b, key, found, missing) ==
    /\ \/ Works /\ Goes(b, IF key \in DOMAIN reg THEN found ELSE missing)
       \/ Fails(b) /\ Goes(b, missing)
    /\ UNCHANGED <<reg, op, dir, todo, runs, kills>>

\* A call that changes the registry, if it is possible.
Change(b, possible, after) ==
    \/ Works /\ reg' = IF possible THEN after ELSE reg
    \/ Fails(b) /\ UNCHANGED reg

\* createRegPath; the values of a key that is there are kept.
CreateKey(b, key, next) ==
    /\ Change(b, Parent(key) \in DOMAIN reg, WithKey(key))
    /\ Goes(b, next)
    /\ UNCHANGED <<op, dir, todo, runs, kills>>

\* createRegStringValue
SetValue(b, key, name, data, next) ==
    /\ Change(b, key \in DOMAIN reg, WithValue(key, name, data))
    /\ Goes(b, next)
    /\ UNCHANGED <<op, dir, todo, runs, kills>>

\* A mutation of AllSubKeys: the path above the key is given.
AllSubKeysAbove(key) == Under(Parent(key))

\* findAllSubKeys, whose list ends with the key itself.
AllSubKeys(key) == Under(key)

\* The first half of deleteRegPath: a key that cannot be opened is left out
\* of the list, with all that is below it.
ListKeys(b, key, next) ==
    /\ \/ Works /\ todo' = [todo EXCEPT ![b] = AllSubKeys(key)]
       \/ /\ Fails(b)
          /\ \E shut \in AllSubKeys(key) \cup {Parent(key)} :
               todo' = [todo EXCEPT ![b] = {k \in AllSubKeys(key) : ~IsPrefix(shut, k)}]
    /\ Goes(b, next)
    /\ UNCHANGED <<reg, op, dir, runs, kills>>

\* A mutation of NextListed: a key comes before the keys below it.
TopListed(keys) == CHOOSE k \in keys : \A other \in keys : ~IsStrictPrefix(other, k)

\* The keys below a key come before it in the list.  Which of two others
\* comes first makes no difference.
NextListed(keys) == CHOOSE k \in keys : \A other \in keys : ~IsStrictPrefix(k, other)

\* One round of the loop in deleteRegPath.  RegDeleteKey refuses a key that
\* has keys below it.
DeleteListed(b) ==
    /\ \E key \in todo[b] :
         /\ key = NextListed(todo[b])
         /\ Change(b, IsLeaf(key), WithoutKey(key))
         /\ todo' = [todo EXCEPT ![b] = @ \ {key}]
    /\ UNCHANGED <<op, at, dir, runs, kills>>

ListEnds(b, next) ==
    /\ todo[b] = {}
    /\ Goes(b, next)
    /\ UNCHANGED <<reg, op, dir, todo, sound, runs, faults, kills>>

-----------------------------------------------------------------------------
(* RegisterAsioDriver and UnregisterAsioDriver. *)

\* regsvr32 has loaded the DLL from d and calls one of the two.  Where the
\* file has another name the function ends before its first registry call.
Begin(b) ==
    /\ At(b, "idle")
    /\ runs > 0
    /\ runs' = runs - 1
    /\ Goes(b, "findClass")
    /\ \E o \in {"register", "unregister"}, d \in Dirs :
         /\ op' = [op EXCEPT ![b] = o]
         /\ dir' = [dir EXCEPT ![b] = d]
         /\ sound' = [sound EXCEPT ![b] = o = "register" => SoundEntry(b, d)]
    /\ UNCHANGED <<reg, todo, faults, kills>>

\* A mutation of FindClass: newregentry stays FALSE when the class is missing.
FindClassOnly(b) ==
    /\ At(b, "findClass")
    /\ IF Registering(b) THEN Find(b, ClassKey(b), "readPath", "findAsio")
                         ELSE Find(b, ClassKey(b), "listClass", "findAsio")

FindClass(b) ==
    /\ At(b, "findClass")
    /\ IF Registering(b) THEN Find(b, ClassKey(b), "readPath", "makeClass")
                         ELSE Find(b, ClassKey(b), "listClass", "findAsio")

\* getRegString and strcmp.  A path that cannot be read leaves szDLLPath as it
\* was, uninitialised: it may compare either way.
ReadPath(b) ==
    /\ At(b, "readPath")
    /\ \/ /\ Has(ServerKey(b), "")
          /\ Works
          /\ Goes(b, IF Value(ServerKey(b), "") = dir[b] THEN "findAsio" ELSE "listClass")
       \/ /\ (~Has(ServerKey(b), "") /\ Works) \/ Fails(b)
          /\ \E next \in {"findAsio", "listClass"} : Goes(b, next)
    /\ UNCHANGED <<reg, op, dir, todo, runs, kills>>

ListClass(b) == At(b, "listClass") /\ ListKeys(b, ClassKey(b), "dropClass")

DropClass(b) ==
    /\ At(b, "dropClass")
    /\ DeleteListed(b) \/ ListEnds(b, IF Registering(b) THEN "makeClass" ELSE "findAsio")

\* The new entry, newregentry being TRUE.
MakeClass(b) == At(b, "makeClass") /\ CreateKey(b, ClassKey(b), "describe")
Describe(b) == At(b, "describe") /\ SetValue(b, ClassKey(b), "", "DK ASIO", "makeServer")
MakeServer(b) == At(b, "makeServer") /\ CreateKey(b, ServerKey(b), "setPath")
SetPath(b) == At(b, "setPath") /\ SetValue(b, ServerKey(b), "", dir[b], "setModel")
SetModel(b) == At(b, "setModel") /\ SetValue(b, ServerKey(b), "ThreadingModel", "Apartment", "findAsio")

\* The list of ASIO drivers.
FindAsio(b) ==
    /\ At(b, "findAsio")
    /\ Find(b, AsioKey(b), "findDriver", IF Registering(b) THEN "makeAsio" ELSE "return")

MakeAsio(b) == At(b, "makeAsio") /\ CreateKey(b, AsioKey(b), "makeDriver")

FindDriver(b) ==
    /\ At(b, "findDriver")
    /\ Find(b, DriverKey(b), "listDriver", IF Registering(b) THEN "makeDriver" ELSE "return")

ListDriver(b) == At(b, "listDriver") /\ ListKeys(b, DriverKey(b), "dropDriver")

DropDriver(b) ==
    /\ At(b, "dropDriver")
    /\ DeleteListed(b) \/ ListEnds(b, IF Registering(b) THEN "makeDriver" ELSE "return")

MakeDriver(b) == At(b, "makeDriver") /\ CreateKey(b, DriverKey(b), "setClsid")
SetClsid(b) == At(b, "setClsid") /\ SetValue(b, DriverKey(b), "CLSID", "{188135E1}", "setText")
SetText(b) == At(b, "setText") /\ SetValue(b, DriverKey(b), "Description", "DK ASIO", "return")

\* Both functions return 0, and DllRegisterServer S_OK, whatever has failed.
Return(b) ==
    /\ At(b, "return")
    /\ Goes(b, "idle")
    /\ op' = [op EXCEPT ![b] = "none"]
    /\ sound' = [sound EXCEPT ![b] = TRUE]
    /\ dir' = [dir EXCEPT ![b] = NoDir]
    /\ UNCHANGED <<reg, todo, runs, faults, kills>>

\* The process is killed.
Kill(b) ==
    /\ ~At(b, "idle")
    /\ kills > 0
    /\ kills' = kills - 1
    /\ Goes(b, "idle")
    /\ op' = [op EXCEPT ![b] = "none"]
    /\ todo' = [todo EXCEPT ![b] = {}]
    /\ sound' = [sound EXCEPT ![b] = TRUE]
    /\ dir' = [dir EXCEPT ![b] = NoDir]
    /\ UNCHANGED <<reg, runs, faults>>

Class(b) == FindClass(b) \/ ReadPath(b) \/ ListClass(b) \/ DropClass(b)
NewEntry(b) == MakeClass(b) \/ Describe(b) \/ MakeServer(b) \/ SetPath(b) \/ SetModel(b)
Listing(b) ==
    \/ FindAsio(b) \/ MakeAsio(b) \/ FindDriver(b) \/ ListDriver(b) \/ DropDriver(b)
    \/ MakeDriver(b) \/ SetClsid(b) \/ SetText(b)

Process(b) == Begin(b) \/ Class(b) \/ NewEntry(b) \/ Listing(b) \/ Return(b) \/ Kill(b)

RegistrationNext == \E b \in Builds : Process(b)

RegistrationSpec == RegistrationInit /\ [][RegistrationNext]_registrationVars

-----------------------------------------------------------------------------

\* Neither function changes a key that is not the driver's own, its values or
\* what is below it, nor a key of the other build, whatever fails, whenever
\* it is killed and whatever the other build's process does; the one key it
\* may add is the list of ASIO drivers.
OthersUntouched ==
    [][\A k \in DOMAIN reg \cup DOMAIN reg' :
         \/ k \in DOMAIN reg /\ k \in DOMAIN reg' /\ reg'[k] = reg[k]
         \/ \E b \in Builds :
              /\ <<op[b], at[b], todo[b]>>' # <<op[b], at[b], todo[b]>>
              /\ \/ IsPrefix(ClassKey(b), k) \/ IsPrefix(DriverKey(b), k)
                 \/ k = AsioKey(b) /\ k \notin DOMAIN reg]_registrationVars

\* A registration of which no call failed and which found no entry, an entry
\* of another directory or a complete one leaves a complete entry: whatever
\* was left by runs that failed or were killed, and whatever others have put
\* below the driver's keys.
RegisterCompletes ==
    \A b \in Builds :
        At(b, "return") /\ Registering(b) /\ sound[b] => Complete(b, dir[b])

\* An unregistration of which no call failed leaves nothing of the driver,
\* from whatever state of the registry it began.
UnregisterRemovesAll ==
    \A b \in Builds :
        At(b, "return") /\ op[b] = "unregister" /\ sound[b] => Owned(b) = {}
=============================================================================
