-------------------------------- MODULE MCDll ---------------------------------
(***************************************************************************)
(* What hosts and regsvr32 call in dk_asio_user.dll apart from the audio   *)
(* path, on small instances: the COM server, the registration and the      *)
(* calls for buffers, clock and position.  They share no state: a          *)
(* behaviour exercises one of them.                                        *)
(***************************************************************************)
EXTENDS ComServer, Registration, DriverCalls

\* Up to two infos, of which the last is an output, if need be one the driver
\* does not have.
ShortLists ==
    {infos \in BoundedSeq([dir : {"in", "out"}, channel : Channels \cup {BadChannel}], 2) :
        infos # << >> => Last(infos).dir = "out"}

VARIABLE part   \* what is exercised

\* Rates are interchangeable, and so are directories: it does not matter which
\* the driver begins with.
FirstRate == CHOOSE r \in Rates : TRUE
FirstDir == CHOOSE d \in Dirs : TRUE

\* Where there are ASIO drivers this one is among them; a run may remove it.
DllInit ==
    /\ part \in {"com", "registration", "driver"}
    /\ Init /\ ProcessesInit /\ CallsInit
    /\ IF part = "registration"
         THEN RegistryInit /\ (AsioKey("native") \in DOMAIN reg => Loadable("native", FirstDir))
         ELSE reg = Nothing
    /\ rate = FirstRate
    /\ part # "driver" => info.rate = FirstRate /\ info.flags = {}

ComStep == part = "com" /\ Next /\ UNCHANGED <<part, registrationVars, driverVars>>

\* Bound: a registry call fails or a run is killed, not both.
RegistrationStep ==
    /\ part = "registration"
    /\ RegistrationNext
    /\ faults' + kills' > 0
    /\ UNCHANGED <<part, vars, driverVars>>

DriverStep == part = "driver" /\ CallsNext /\ UNCHANGED <<part, vars, registrationVars>>

DllNext == ComStep \/ RegistrationStep \/ DriverStep

DllSpec == DllInit /\ [][DllNext]_<<part, vars, registrationVars, driverVars>>
=============================================================================
