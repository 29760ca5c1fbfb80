------------------------------ MODULE LogidDevice ------------------------------
(***************************************************************************)
(* A logid device (src/logid/Device.cpp): its profiles, and what brings    *)
(* the hardware to the settings of the active one. Profiles are changed by *)
(* the D-Bus thread and by tasks (a button's ChangeProfile); the worker    *)
(* threads also wake the device up, put it to sleep and take its battery   *)
(* reports, already while the constructor configures the features.         *)
(*                                                                         *)
(* A feature's configure() and its D-Bus setters hold the lock of its      *)
(* settings during the transfer, so each is one step. reconfigure() is one *)
(* step per feature, in the order of the map, and a transfer may fail. The  *)
(* battery's values are left out; the lock they are set under is not.      *)
(*                                                                         *)
(* _getConfig gives devices of one name the same profiles, and each device *)
(* guards them with its own lock only. A second one, the twin, is modelled *)
(* by what it does to the profiles.                                        *)
(***************************************************************************)
EXTENDS Naturals, Sequences

CONSTANTS Bus,          \* the D-Bus thread
          Workers,      \* worker threads
          Features,     \* the features in the order of _features
          Battery,      \* DeviceBattery, one of Features
          Status,       \* DeviceStatus, one of Features
          Profiles,     \* profile names
          Default,      \* the default profile
          Initial,      \* its settings in the configuration file
          Values,       \* what a setting can be
          Unset,        \* no setting; in the hardware: the default
          Device, Twin, \* the device and another one of its name
          None,         \* no thread, no operation
          MaxOps        \* bound: operations started

ASSUME ThreadAssumption  == Workers # {} /\ Bus \notin Workers /\ None \notin Workers \cup {Bus}
ASSUME ProfileAssumption == Default \in Profiles /\ Unset \notin Values
ASSUME BoundAssumption   == MaxOps \in Nat

Threads  == Workers \cup {Bus}
Positions == 1 .. Len(Features)
Settings == {Features[i] : i \in Positions} \ {Battery, Status}
Config   == [Settings -> Values \cup {Unset}]
NoConfig == [f \in Settings |-> Unset]

ASSUME InitialAssumption == Initial \in Config
ASSUME FeatureAssumption == Len(Features) \in Nat \ {0}
ASSUME NameAssumption    == Device # Twin /\ \A i \in Positions : Features[i] \notin {Device, Twin}

VARIABLES phase,       \* "constructing", "ready", "failed" or "crashed"
          listening,   \* features whose event handler is registered
          profiles,    \* _config.profiles: the profiles that exist
          active,      \* _profile and _profile_name
          ref,         \* the profile whose settings a feature refers to
          hw,          \* the settings in the hardware
          awake,       \* _awake
          canReset,    \* _reset_mechanism is there
          profileLock, \* the thread that holds _profile_mutex, or None
          stateLock,   \* the thread that holds _state_lock, or None
          op,          \* the operation of a thread
          arg,         \* its profile
          pc,          \* "idle", "enter", "switch", "reset", "configure" or "battery"
          pos,         \* the feature it has come to
          twin,        \* _profile_name of the twin
          dangling,    \* whose reference into the profiles has been erased: the
                       \* features that use it, Device and Twin for _profile
          fresh,       \* history: no transfer failed since the thread's reset
          behind,      \* history: a transfer failed and nothing repaired it yet
          ops          \* number of operations started

device  == <<profiles, active, ref, hw, awake, canReset>>
locks   == <<profileLock, stateLock>>
threads == <<op, arg, pc, pos>>
history == <<fresh, behind>>
shared  == <<twin, dangling>>
vars    == <<phase, listening, device, locks, threads, shared, history, ops>>

Operations == {"init", "wakeup", "sleep", "setBattery", "setProfile", "clearProfile", "removeProfile"}

TypeOK ==
    /\ phase \in {"constructing", "ready", "failed", "crashed"}
    /\ listening \subseteq {Features[i] : i \in Positions}
    /\ DOMAIN profiles \subseteq Profiles
    /\ \A p \in DOMAIN profiles : profiles[p] \in Config
    /\ active \in Profiles
    /\ ref \in [Settings -> Profiles]
    /\ hw \in Config
    /\ awake \in BOOLEAN /\ canReset \in BOOLEAN
    /\ profileLock \in Threads \cup {None} /\ stateLock \in Threads \cup {None}
    /\ op \in [Threads -> Operations \cup {None}]
    /\ arg \in [Threads -> Profiles]
    /\ pc \in [Threads -> {"idle", "enter", "switch", "reset", "configure", "battery"}]
    /\ pos \in [Threads -> 1 .. Len(Features) + 1]
    /\ \A t \in Threads : pc[t] = "reset" => pos[t] = 1
    /\ twin \in Profiles /\ dangling \subseteq Settings \cup {Device, Twin}
    /\ fresh \in [Threads -> BOOLEAN] /\ behind \in BOOLEAN
    /\ ops \in 0 .. MaxOps

\* A worker constructs the device: the features refer to the default profile.
Init ==
    /\ phase = "constructing" /\ listening = {}
    /\ profiles = [p \in {Default} |-> Initial]
    /\ active = Default /\ ref = [f \in Settings |-> Default]
    /\ hw = NoConfig /\ awake = TRUE /\ canReset \in BOOLEAN
    /\ profileLock = None /\ stateLock = None
    /\ LET w == CHOOSE t \in Workers : TRUE
       IN  /\ op = [t \in Threads |-> IF t = w THEN "init" ELSE None]
           /\ pc = [t \in Threads |-> IF t = w THEN "reset" ELSE "idle"]
    /\ arg = [t \in Threads |-> Default] /\ pos = [t \in Threads |-> 1]
    /\ twin = Default /\ dangling = {}
    /\ fresh = [t \in Threads |-> FALSE] /\ behind = FALSE
    /\ ops = 0

Living == phase \in {"constructing", "ready"}

-----------------------------------------------------------------------------
(* Starting and ending an operation                                         *)

\* A D-Bus call, a task, or an event that reaches a feature which listens.
MayStart(t, o) ==
    \/ o \in {"setProfile", "clearProfile", "removeProfile"} /\ t = Bus /\ phase = "ready"
    \/ o \in {"setProfile", "sleep"} /\ t \in Workers /\ phase = "ready"
    \/ o = "wakeup" /\ t \in Workers /\ (phase = "ready" \/ Status \in listening)
    \/ o = "setBattery" /\ t \in Workers /\ Battery \in listening

Start(t, o, p) ==
    /\ Living /\ pc[t] = "idle" /\ ops < MaxOps
    /\ MayStart(t, o)
    /\ o \notin {"setProfile", "clearProfile", "removeProfile"} => p = Default
    /\ op' = [op EXCEPT ![t] = o]
    /\ arg' = [arg EXCEPT ![t] = p]
    /\ pc' = [pc EXCEPT ![t] = "enter"]
    /\ ops' = ops + 1
    /\ UNCHANGED <<phase, listening, device, locks, pos, shared, history>>

\* Mutant: an exception leaves the locks taken.
ReleaseUnlessThrown(t) ==
    /\ profileLock' = IF profileLock = t /\ pc[t] # "reset" THEN None ELSE profileLock
    /\ stateLock' = IF stateLock = t /\ pc[t] # "reset" THEN None ELSE stateLock

\* The guards of the locks go out of scope, also when an exception is thrown.
Release(t) ==
    /\ profileLock' = IF profileLock = t THEN None ELSE profileLock
    /\ stateLock' = IF stateLock = t THEN None ELSE stateLock

End(t) ==
    /\ op' = [op EXCEPT ![t] = None] /\ arg' = [arg EXCEPT ![t] = Default]
    /\ pc' = [pc EXCEPT ![t] = "idle"] /\ pos' = [pos EXCEPT ![t] = 1]

Goto(t, l) == pc' = [pc EXCEPT ![t] = l] /\ UNCHANGED <<op, arg>>

At(t, o) == Living /\ pc[t] = "enter" /\ op[t] = o

-----------------------------------------------------------------------------
(* Awake, asleep, battery: under _state_lock                                *)

Sleep(t) ==
    /\ At(t, "sleep") /\ stateLock = None
    /\ awake' = FALSE
    /\ End(t)
    /\ UNCHANGED <<phase, listening, profiles, active, ref, hw, canReset, locks, shared, history, ops>>

\* The task of a battery broadcast. notifyBattery() on a device whose
\* interface is not made yet dereferences a null pointer.
SetBattery(t) ==
    /\ At(t, "setBattery") /\ stateLock = None
    /\ phase' = IF phase = "constructing" THEN "crashed" ELSE phase
    /\ End(t)
    /\ UNCHANGED <<listening, device, locks, shared, history, ops>>

\* wakeup() holds _state_lock while it reconfigures.
Wakeup(t) ==
    /\ At(t, "wakeup") /\ stateLock = None
    /\ stateLock' = t
    /\ Goto(t, "reset")
    /\ UNCHANGED <<phase, listening, device, profileLock, pos, shared, history, ops>>

-----------------------------------------------------------------------------
(* Profiles: under _profile_mutex                                           *)

ProfileLockFree == profileLock = None

\* The profile p, made if there is none.
WithProfile(p) ==
    IF p \in DOMAIN profiles THEN profiles
    ELSE [q \in DOMAIN profiles \cup {p} |-> IF q = p THEN NoConfig ELSE profiles[q]]

SetProfile(t) ==
    /\ At(t, "setProfile") /\ ProfileLockFree
    /\ profileLock' = t
    /\ profiles' = WithProfile(arg[t])
    /\ active' = arg[t]
    /\ dangling' = dangling \ {Device}
    /\ Goto(t, "switch")
    /\ UNCHANGED <<phase, listening, ref, hw, awake, canReset, stateLock, pos, twin, history, ops>>

\* The active profile is emptied and set again; another one is emptied, or
\* unknown, which throws. An active profile that was erased is written to.
ClearProfile(t) ==
    /\ At(t, "clearProfile") /\ ProfileLockFree
    /\ IF arg[t] \in DOMAIN profiles
       THEN profiles' = [profiles EXCEPT ![arg[t]] = NoConfig]
       ELSE UNCHANGED profiles
    /\ IF arg[t] = active
       THEN profileLock' = t /\ Goto(t, "switch") /\ UNCHANGED pos
       ELSE End(t) /\ UNCHANGED profileLock
    /\ phase' = IF arg[t] = active /\ Device \in dangling THEN "crashed" ELSE phase
    /\ UNCHANGED <<listening, active, ref, hw, awake, canReset, stateLock, shared, history, ops>>

\* The active and the default profile cannot be removed.
Removable(p) == p # active /\ p # Default

RemoveProfile(t) ==
    /\ At(t, "removeProfile") /\ ProfileLockFree
    /\ profiles' = IF Removable(arg[t])
                   THEN [p \in DOMAIN profiles \ {arg[t]} |-> profiles[p]]
                   ELSE profiles
    /\ dangling' = IF Removable(arg[t]) /\ arg[t] = twin THEN dangling \cup {Twin} ELSE dangling
    /\ End(t)
    /\ UNCHANGED <<phase, listening, active, ref, hw, awake, canReset, locks, twin, history, ops>>

\* Features take the reference of _profile, whatever that is worth.
Retarget(fs) ==
    /\ ref' = [f \in Settings |-> IF f \in fs THEN active ELSE ref[f]]
    /\ dangling' = IF Device \in dangling THEN dangling \cup (fs \cap Settings) ELSE dangling \ fs

\* Mutant: the profile is changed and nothing is reconfigured.
SwitchOnly(t) ==
    /\ Living /\ pc[t] = "switch"
    /\ Retarget(Settings)
    /\ Release(t)
    /\ End(t)
    /\ UNCHANGED <<phase, listening, profiles, active, hw, awake, canReset, twin, history, ops>>

\* Mutant: the last feature keeps the settings of the profile before.
SwitchAllButLast(t) ==
    /\ Living /\ pc[t] = "switch"
    /\ Retarget(IF pos[t] < Len(Features) THEN {Features[pos[t]]} ELSE {})
    /\ IF pos[t] < Len(Features)
       THEN pos' = [pos EXCEPT ![t] = @ + 1] /\ UNCHANGED <<op, arg, pc>>
       ELSE pos' = [pos EXCEPT ![t] = 1] /\ Goto(t, "reset")
    /\ UNCHANGED <<phase, listening, profiles, active, hw, awake, canReset, locks, twin, history, ops>>

\* Every feature takes the settings of the profile.
Switch(t) ==
    /\ Living /\ pc[t] = "switch"
    /\ Retarget({Features[pos[t]]})
    /\ IF pos[t] < Len(Features)
       THEN pos' = [pos EXCEPT ![t] = @ + 1] /\ UNCHANGED <<op, arg, pc>>
       ELSE pos' = [pos EXCEPT ![t] = 1] /\ Goto(t, "reset")
    /\ UNCHANGED <<phase, listening, profiles, active, hw, awake, canReset, locks, twin, history, ops>>

-----------------------------------------------------------------------------
(* reconfigure: reset, then every feature's configure                       *)

\* Without a reset mechanism nothing happens.
Reset(t) ==
    /\ Living /\ pc[t] = "reset"
    /\ hw' = IF canReset THEN NoConfig ELSE hw
    /\ fresh' = [fresh EXCEPT ![t] = TRUE]
    /\ Goto(t, "configure")
    /\ UNCHANGED <<phase, listening, profiles, active, ref, awake, canReset, locks, pos, behind, shared, ops>>

\* The constructor also lets the feature listen.
Advance(t) ==
    /\ pos' = [pos EXCEPT ![t] = @ + 1]
    /\ listening' = IF op[t] = "init" THEN listening \cup {Features[pos[t]]} ELSE listening

Configuring(t) == Living /\ pc[t] = "configure" /\ pos[t] <= Len(Features)

\* What is used through a reference that dangles is anything.
Deref(f) == phase' = IF f \in dangling THEN "crashed" ELSE phase

\* A setting that is not set is left as it is.
Configure(t) ==
    /\ Configuring(t) /\ Features[pos[t]] # Battery
    /\ LET f == Features[pos[t]]
       IN  /\ hw' = IF f \in Settings \ dangling /\ profiles[ref[f]][f] # Unset
                    THEN [hw EXCEPT ![f] = profiles[ref[f]][f]] ELSE hw
           /\ Deref(f)
    /\ Advance(t)
    /\ UNCHANGED <<profiles, active, ref, awake, canReset, locks, op, arg, pc, shared, history, ops>>

\* The battery is read; an error of the transfer is caught.
ConfigureBattery(t) ==
    /\ Configuring(t) /\ Features[pos[t]] = Battery
    /\ \/ Advance(t) /\ UNCHANGED <<op, arg, pc>>
       \/ Goto(t, "battery") /\ UNCHANGED <<pos, listening>>
    /\ UNCHANGED <<phase, device, locks, shared, history, ops>>

\* setBattery(..., notify = false) takes _state_lock, whoever holds it.
ReadBattery(t) ==
    /\ Living /\ pc[t] = "battery" /\ stateLock = None
    /\ Advance(t)
    /\ Goto(t, "configure")
    /\ UNCHANGED <<phase, device, locks, shared, history, ops>>

Fail(t) ==
    /\ behind' = TRUE
    /\ fresh' = [u \in Threads |-> FALSE]

\* A transfer of reset() or configure() fails and the exception leaves the
\* operation; the constructor's ends the device.
TransferFails(t) ==
    /\ Living
    /\ \/ pc[t] = "reset"
       \/ Configuring(t) /\ Features[pos[t]] \in Settings
    /\ Fail(t)
    /\ Release(t)
    /\ phase' = IF op[t] = "init" THEN "failed" ELSE phase
    /\ End(t)
    /\ UNCHANGED <<listening, device, shared, ops>>

\* The operation is done; Device::make exports the device.
Finish(t) ==
    /\ Living /\ pc[t] = "configure" /\ pos[t] = Len(Features) + 1
    /\ phase' = IF op[t] = "init" THEN "ready" ELSE phase
    /\ awake' = IF op[t] = "wakeup" THEN TRUE ELSE awake
    /\ behind' = (behind /\ ~fresh[t])
    /\ fresh' = [fresh EXCEPT ![t] = FALSE]
    /\ Release(t)
    /\ End(t)
    /\ UNCHANGED <<listening, profiles, active, ref, hw, canReset, shared, ops>>

\* A setter of a feature's D-Bus interface: the profile is changed, then the
\* hardware, unless the setting is only cleared there or the transfer fails.
SetFeature(f, v) ==
    /\ phase = "ready" /\ pc[Bus] = "idle" /\ ops < MaxOps
    /\ Deref(f)
    /\ profiles' = IF f \in dangling THEN profiles ELSE [profiles EXCEPT ![ref[f]][f] = v]
    /\ \/ hw' = [hw EXCEPT ![f] = v] /\ UNCHANGED history
       \/ v = Unset /\ UNCHANGED <<hw, history>>
       \/ v # Unset /\ UNCHANGED hw /\ Fail(Bus)
    /\ ops' = ops + 1
    /\ UNCHANGED <<listening, active, ref, awake, canReset, locks, threads, shared>>

-----------------------------------------------------------------------------
(* The twin, under its own _profile_mutex. It has its own hardware.         *)

TwinMay(p) == Living /\ ops < MaxOps /\ ops' = ops + 1 /\ p \in Profiles

\* By the bus or by a task of a button.
TwinSetsProfile(p) ==
    /\ TwinMay(p)
    /\ profiles' = WithProfile(p)
    /\ twin' = p
    /\ dangling' = dangling \ {Twin}
    /\ UNCHANGED <<phase, listening, active, ref, hw, awake, canReset, locks, threads, history>>

\* The twin knows nothing of the profile that is active here.
TwinRemovesProfile(p) ==
    /\ TwinMay(p) /\ pc[Bus] = "idle"
    /\ p \in DOMAIN profiles \ {twin, Default}
    /\ profiles' = [q \in DOMAIN profiles \ {p} |-> profiles[q]]
    /\ dangling' = dangling \cup {f \in Settings : ref[f] = p}
                            \cup (IF active = p THEN {Device} ELSE {})
    /\ UNCHANGED <<phase, listening, active, ref, hw, awake, canReset, locks, threads, twin, history>>

\* A setter of one of its features: what uses the profile here is behind.
TwinSetsFeature(f, v) ==
    /\ TwinMay(twin) /\ pc[Bus] = "idle"
    /\ profiles' = IF Twin \in dangling THEN profiles ELSE [profiles EXCEPT ![twin][f] = v]
    /\ phase' = IF Twin \in dangling THEN "crashed" ELSE phase
    /\ IF ref[f] = twin THEN Fail(Bus) ELSE UNCHANGED history
    /\ UNCHANGED <<listening, active, ref, hw, awake, canReset, locks, threads, shared>>

-----------------------------------------------------------------------------

Step(t) ==
    \/ Sleep(t) \/ SetBattery(t) \/ Wakeup(t)
    \/ SetProfile(t) \/ ClearProfile(t) \/ RemoveProfile(t) \/ Switch(t)
    \/ Reset(t) \/ Configure(t) \/ ConfigureBattery(t) \/ ReadBattery(t)
    \/ TransferFails(t) \/ Finish(t)

Next ==
    \/ \E t \in Threads, o \in Operations, p \in Profiles : Start(t, o, p)
    \/ \E t \in Threads : Step(t)
    \/ \E f \in Settings, v \in Values \cup {Unset} : SetFeature(f, v) \/ TwinSetsFeature(f, v)
    \/ \E p \in Profiles : TwinSetsProfile(p) \/ TwinRemovesProfile(p)

Spec == Init /\ [][Next]_vars

\* A thread that can run runs: transfers end, and a free lock is taken.
Fairness == \A t \in Threads : WF_vars(Step(t))
FairSpec == Spec /\ Fairness

-----------------------------------------------------------------------------
Quiet == Living /\ \A t \in Threads : pc[t] = "idle"

(***************************************************************************)
(* When nothing runs and no transfer has failed since the last complete    *)
(* reconfiguration, the hardware has every setting of the active profile,  *)
(* in whatever order profile changes, setters and wakeups were interleaved *)
(* (setProfile and wakeup hold different locks while they reconfigure);    *)
(* unless a device of the same name changed or erased that profile.        *)
(***************************************************************************)
HardwareFollowsProfile ==
    Quiet /\ ~behind /\ Device \notin dangling =>
        \A f \in Settings : profiles[active][f] # Unset => hw[f] = profiles[active][f]

(***************************************************************************)
(* While no thread changes the profile all features use the active one,    *)
(* which exists: two changes at a time never leave a mixture, and          *)
(* removeProfile never erases the settings under a feature (_config is a   *)
(* reference into the profile), unless it is called on a device of the     *)
(* same name with another active profile.                                  *)
(***************************************************************************)
OneProfile == profileLock = None => \A f \in Settings : ref[f] = active
Existing   ==
    /\ Device \notin dangling => active \in DOMAIN profiles
    /\ \A f \in Settings \ dangling : ref[f] \in DOMAIN profiles
    /\ Twin \notin dangling => twin \in DOMAIN profiles
FeaturesShareProfile == OneProfile /\ Existing

\* wakeup() waits for the lock that it holds itself.
SelfLocked(t) == pc[t] = "battery" /\ stateLock = t

(***************************************************************************)
(* Nothing but a wakeup that waits for its own _state_lock keeps an        *)
(* operation from its end: exceptions release the locks. No more than      *)
(* MaxOps operations begin, so all of them end if nobody works at last.    *)
(***************************************************************************)
NobodyWorks   == (\A t \in Threads : pc[t] = "idle") \/ ~Living \/ \E u \in Threads : SelfLocked(u)
OperationsEnd == []<>NobodyWorks

(***************************************************************************)
(* DeviceStatus and the receiver wake the device up to reconfigure it:     *)
(* every wakeup ends, with the device awake or with a failed transfer.     *)
(***************************************************************************)
WakeupEnds == \A t \in Threads : op[t] = "wakeup" ~> op[t] # "wakeup" \/ ~Living
=============================================================================
