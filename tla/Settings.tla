------------------------------- MODULE Settings -------------------------------
(***************************************************************************)
(* The settings of a device (logid/features: DPI, SmartShift and the mode  *)
(* of HiresScroll) and the actions of buttons that change them: each of    *)
(* the latter is a task that reads the device and writes what it has       *)
(* computed, without a lock, while the bus sets the same values and        *)
(* another worker configures the device for a profile or a wakeup.         *)
(***************************************************************************)
EXTENDS Integers, Sequences, FiniteSets, FiniteSetsExt

CONSTANTS Workers, bus,
          Bits,         \* of the mode of the wheel: "hires", "invert", "target"
          DpiSensors,   \* 1 .. n: the one with index 0 is the first
          NoSensor,     \* n + 1: one that a call may name all the same
          DpiLists,     \* [DpiSensors -> [values, step]]; step 0 is no range
          Word,         \* numbers are of 16 bits: 2^16
          Hosts,        \* hostCount
          Given,        \* profiles: [wheel, on, threshold, dpi]
          DpiValues, SmartThresholds, Increments, Ways, \* what bus and actions may
                        \* ask for
          MaxOps        \* bound: operations in a behaviour

ASSUME SettingsAssumption ==
    /\ bus \notin Workers
    /\ DpiSensors \subseteq Nat \ {0} /\ {Word, Hosts} \subseteq Nat \ {0}
    /\ NoSensor \in Nat \ {0} /\ NoSensor \notin DpiSensors
    /\ DpiValues \subseteq 0 .. Word - 1 /\ SmartThresholds \subseteq Nat
    /\ Increments \subseteq Int
    /\ Ways \subseteq {"next", "prev"} \cup Nat

\* A sensor reports some values, or the bounds of a range that are a number of
\* steps apart, which getClosestDPI relies on.
ASSUME DpiListsAssumption ==
    \A s \in DpiSensors :
        LET list == DpiLists[s]
        IN  /\ list.values \subseteq Nat /\ list.values # {} /\ list.step \in Nat
            /\ list.step # 0 => \E lo, hi \in list.values :
                   list.values = {lo, hi} /\ lo <= hi /\ (hi - lo) % list.step = 0

\* What a profile may say.
IsConfiguration(c) ==
    /\ c = [wheel |-> c.wheel, on |-> c.on, threshold |-> c.threshold, dpi |-> c.dpi]
    /\ c.wheel \in [DOMAIN c.wheel -> BOOLEAN] /\ DOMAIN c.wheel \subseteq Bits
    /\ c.on \subseteq BOOLEAN
    /\ c.threshold = {} \/ \E v \in c.threshold : v \in Nat /\ c.threshold = {v}
    /\ c.dpi \in [kind : {"absent", "one", "list"}, values : Seq(Int)]
    /\ c.dpi.kind = "one" => Len(c.dpi.values) = 1

ASSUME GivenAssumption == \A c \in Given : IsConfiguration(c)

VARIABLES wheel, smart, threshold, dpi, host, \* the device
          conf,     \* the configuration of the active profile
          op,       \* what each worker, and the bus, is about to write
          unset,    \* features setProfile has still to configure
          ops,      \* operations so far
          strayed   \* history, for each feature: settings that something else
                    \* than a configuration has changed, or that failed

settingVars == <<wheel, smart, threshold, dpi, host, conf, op, unset, ops, strayed>>

Features == {"wheel", "smart", "dpi"}
Of(feature) == CASE feature = "wheel" -> Bits [] feature = "smart" -> {"smart", "threshold"}
                 [] OTHER -> DpiSensors
Procs    == Workers \cup {bus}
Idle     == [what |-> "idle"]

SettingTypeOK ==
    /\ wheel \subseteq Bits /\ smart \in BOOLEAN /\ threshold \in Nat
    /\ dpi \in [DpiSensors -> 0 .. Word - 1] /\ host \in 0 .. Hosts - 1
    /\ unset \subseteq Features
    /\ \A f \in Features : strayed[f] \subseteq Of(f)

\* What the device supports, and getClosestDPI.
Steps(list)     == (Max(list.values) - Min(list.values)) \div list.step
Supported(list) == IF list.step = 0 THEN list.values
                   ELSE {Min(list.values) + n * list.step : n \in 0 .. Steps(list)}
Distance(a, b)  == IF a > b THEN a - b ELSE b - a

getClosestDPI(list, value) ==
    LET min == Min(list.values)
        max == Max(list.values)
    IN  IF list.step = 0
        THEN IF value \in list.values THEN value
             ELSE CHOOSE v \in list.values :
                      \A u \in list.values : Distance(value, v) <= Distance(value, u)
        ELSE IF value > max THEN max
        ELSE IF value < min THEN min
        ELSE IF (value - min) % list.step = 0 THEN value
        ELSE min + ((2 * (value - min) + list.step) \div (2 * list.step)) * list.step

\* ChangeHost: "next", "prev", or a number that counts from one.
nextHost(way) == (CASE way = "next" -> host + 1
                    [] way = "prev" -> host - 1
                    [] OTHER        -> way - 1) % Hosts

\* The configuration: "wheel" gives some bits a value, "on" and "threshold"
\* are optional (a set), "dpi" is absent, one value, or a list of values in
\* which 0 leaves a sensor alone. Where a list has more values than there are
\* sensors nothing of it is told: to ask for the values of the next one fails.
Mask(c)      == DOMAIN c.wheel
Mode(c)      == {b \in Mask(c) : c.wheel[b]}
Values(c)    == IF c.dpi.kind = "absent" THEN << >> ELSE c.dpi.values
Wanted(c, s) == IF s <= Len(Values(c)) THEN Values(c)[s] ELSE 0
Told(c)      == {s \in DpiSensors : Wanted(c, s) # 0}
Fits(c)      == \A n \in 1 .. Len(Values(c)) : n \in DpiSensors

\* The constructor has clipped the threshold and configured the device.
Clipped(v) == IF v = 0 THEN 1 ELSE v

SettingInit ==
    /\ \E c \in Given : /\ Fits(c)
                        /\ conf = [c EXCEPT !.threshold = {Clipped(v) : v \in c.threshold}]
    /\ wheel = Mode(conf) /\ smart = (TRUE \in conf.on)
    /\ threshold = Max(conf.threshold \cup {1})
    /\ dpi = [s \in DpiSensors |-> getClosestDPI(DpiLists[s], Wanted(conf, s) % Word)]
    /\ host = 0
    /\ op = [p \in Procs |-> Idle] /\ unset = {} /\ ops = 0
    /\ strayed = [f \in Features |-> {}]

Begins(p, what) == /\ op[p] = Idle /\ ops < MaxOps
                  /\ op' = [op EXCEPT ![p] = what] /\ ops' = ops + 1
Ends(p)        == op' = [op EXCEPT ![p] = Idle] /\ UNCHANGED ops
Strays(f, set) == strayed' = [strayed EXCEPT ![f] = @ \cup set]
Settles(f, set) == strayed' = [strayed EXCEPT ![f] = @ \ set]
DeviceSettings == <<wheel, smart, threshold, dpi, host>>

(***************************************************************************)
(* The tasks of the actions.                                               *)
(***************************************************************************)

toggleHiresScroll(p) ==
    /\ Begins(p, [what |-> "toggle wheel",
                 mode |-> IF "hires" \in wheel THEN wheel \ {"hires"} ELSE wheel \cup {"hires"}])
    /\ UNCHANGED <<DeviceSettings, conf, unset, strayed>>

toggleSmartShift(p) ==
    /\ Begins(p, [what |-> "toggle smart", active |-> ~smart])
    /\ UNCHANGED <<DeviceSettings, conf, unset, strayed>>

\* The sum is cut to a word: a step down from a low speed is a high one.
changeDPI(p, s, inc) ==
    /\ Begins(p, [what |-> "change dpi", sensor |-> s, dpi |-> (dpi[s] + inc) % Word])
    /\ UNCHANGED <<DeviceSettings, conf, unset, strayed>>

changeHost(p, way) ==
    /\ Begins(p, [what |-> "change host", host |-> nextHost(way)])
    /\ UNCHANGED <<DeviceSettings, conf, unset, strayed>>

\* A sensor that is to have 0 is left alone. An int of the file is cut to a word.
SetSensor(s, value) ==
    dpi' = IF value = 0 THEN dpi
           ELSE [dpi EXCEPT ![s] = getClosestDPI(DpiLists[s], value % Word)]

\* A toggle may write bits that changed since it read them.
taskWrites(p) ==
    /\ Ends(p) /\ UNCHANGED <<threshold, conf, unset>>
    /\ \/ /\ op[p].what = "toggle wheel" /\ wheel' = op[p].mode
          /\ Strays("wheel", {"hires"} \cup {b \in Bits : (b \in wheel) # (b \in wheel')})
          /\ UNCHANGED <<smart, dpi, host>>
       \/ /\ op[p].what = "toggle smart" /\ smart' = op[p].active
          /\ Strays("smart", {"smart"}) /\ UNCHANGED <<wheel, dpi, host>>
       \/ /\ op[p].what = "change dpi" /\ SetSensor(op[p].sensor, op[p].dpi)
          /\ Strays("dpi", {op[p].sensor}) /\ UNCHANGED <<wheel, smart, host>>
       \/ /\ op[p].what = "change host" /\ host' = op[p].host
          /\ UNCHANGED <<wheel, smart, dpi, strayed>>

(***************************************************************************)
(* Configuration: the features have a lock each, shared by configure and   *)
(* exclusive for the bus. The wheel reads its mode first.                  *)
(***************************************************************************)

Free(feature) == \A p \in Procs : op[p].what # feature

\* Mutant: the bits that the mask names are not cleared first.
WriteWheelOr(read) == wheel' = read \cup Mode(conf)
WriteWheel(read) == wheel' = (read \ Mask(conf)) \cup Mode(conf)

\* One worker configures all features, one after the other.
Configuring == unset # {} \/ \E p \in Workers : op[p].what \in Features

switchSettings(p, choice) ==
    /\ Begins(p, Idle) /\ ~Configuring /\ \A f \in Features : Free(f)
    /\ conf' = choice /\ unset' = Features
    /\ UNCHANGED <<DeviceSettings, strayed>>

\* A device that was off has lost its settings.
resets(p) ==
    /\ Begins(p, Idle) /\ ~Configuring /\ unset' = Features
    /\ wheel' = {} /\ smart' = FALSE /\ threshold' = 1
    /\ dpi' = [s \in DpiSensors |-> Min(DpiLists[s].values)]
    /\ UNCHANGED <<host, conf, strayed>>

\* "left" is what the operation has still to tell the device.
Telling(feature, left) == [what |-> feature, mode |-> wheel, left |-> left]

configureBegins(p, feature) ==
    /\ feature \in unset /\ op[p] = Idle /\ Free(feature)
    /\ \A q \in Workers : op[q].what \notin Features
    /\ op' = [op EXCEPT ![p] = Telling(feature, IF feature = "dpi" THEN Told(conf) ELSE Of(feature))]
    /\ unset' = unset \ {feature}
    /\ UNCHANGED <<DeviceSettings, conf, ops, strayed>>

configureWrites(p) ==
    /\ op[p].what \in Features /\ UNCHANGED <<conf, unset, host>>
    /\ \/ /\ op[p].what = "wheel" /\ WriteWheel(op[p].mode) /\ Ends(p)
          /\ Settles("wheel", Mask(conf)) /\ UNCHANGED <<smart, threshold, dpi>>
       \/ \* A threshold of 0 is no change; to clear it is to set the default, 1.
          /\ op[p].what = "smart" /\ Ends(p)
          /\ smart' = IF "smart" \notin op[p].left \/ conf.on = {} THEN smart
                      ELSE TRUE \in conf.on
          /\ threshold' = IF "threshold" \notin op[p].left THEN threshold
                          ELSE IF p = bus THEN Max(conf.threshold \cup {1})
                          ELSE IF conf.threshold \subseteq {0} THEN threshold
                          ELSE Max(conf.threshold)
          /\ Settles("smart", op[p].left) /\ UNCHANGED <<wheel, dpi>>
       \/ \* One sensor after the other.
          /\ op[p].what = "dpi" /\ UNCHANGED <<wheel, smart, threshold>>
          /\ p \in Workers => Fits(conf)
          /\ IF op[p].left = {} THEN Ends(p) /\ UNCHANGED <<dpi, strayed>>
             ELSE LET s == Min(op[p].left)
                  IN  /\ SetSensor(s, Wanted(conf, s)) /\ Settles("dpi", {s})
                      /\ op' = [op EXCEPT ![p].left = @ \ {s}] /\ UNCHANGED ops

(***************************************************************************)
(* The bus. The new value is in the configuration before the device has    *)
(* it, and stays there when the transfer fails.                            *)
(***************************************************************************)

setWheel(b, value) ==
    /\ Free("wheel") /\ Begins(bus, Telling("wheel", {b}))
    /\ conf' = [conf EXCEPT !.wheel = [c \in Mask(conf) \cup {b} |->
                                          IF c = b THEN value ELSE conf.wheel[c]]]
    /\ UNCHANGED <<DeviceSettings, unset, strayed>>

\* To clear the mode is to forget it: the device keeps what it has.
setActive(active, clear) ==
    /\ Free("smart") /\ Begins(bus, IF clear THEN Idle ELSE Telling("smart", {"smart"}))
    /\ conf' = [conf EXCEPT !.on = IF clear THEN {} ELSE {active}]
    /\ UNCHANGED <<DeviceSettings, unset, strayed>>

setAutoDisengage(value, clear) ==
    /\ Free("smart") /\ Begins(bus, Telling("smart", {"threshold"}))
    /\ conf' = [conf EXCEPT !.threshold = IF clear THEN {} ELSE {Clipped(value)}]
    /\ UNCHANGED <<DeviceSettings, unset, strayed>>

\* One value becomes a list in which the first sensor has the value meant for
\* the other.
Listed(value, s) ==
    LET old  == Values(conf)
        base == IF conf.dpi.kind = "one" THEN <<value>> ELSE old
        size == IF Len(base) > s THEN Len(base) ELSE s
    IN  [n \in 1 .. size |-> IF n = s THEN value
                             ELSE IF n <= Len(base) THEN base[n] ELSE 0]

\* Also a sensor that is not there is listed, before the call fails.
setDPI(value, s) ==
    /\ Free("dpi") /\ Begins(bus, Telling("dpi", {s} \cap DpiSensors))
    /\ conf' = [conf EXCEPT !.dpi =
                   IF conf.dpi.kind = "one" /\ s = 1 THEN [kind |-> "one", values |-> <<value>>]
                   ELSE [kind |-> "list", values |-> Listed(value, s)]]
    /\ Strays("dpi", ({s} \cup IF conf.dpi.kind = "one" THEN {1} ELSE {}) \cap DpiSensors)
    /\ UNCHANGED <<DeviceSettings, unset>>

\* A transfer that fails ends the operation, and a configuration of all.
fails(p) ==
    /\ op[p] # Idle /\ Ends(p) /\ UNCHANGED <<DeviceSettings, conf>>
    /\ IF op[p].what \notin Features THEN UNCHANGED <<strayed, unset>>
       ELSE IF p = bus THEN Strays(op[p].what, op[p].left) /\ UNCHANGED unset
       ELSE /\ strayed' = [f \in Features |-> strayed[f] \cup
                              IF f = op[p].what THEN op[p].left
                              ELSE IF f \in unset THEN Of(f) ELSE {}]
            /\ unset' = {}

SettingNext ==
    \/ \E p \in Workers :
           \/ toggleHiresScroll(p) \/ toggleSmartShift(p)
           \/ \E s \in DpiSensors, inc \in Increments : changeDPI(p, s, inc)
           \/ \E way \in Ways : changeHost(p, way)
           \/ \E choice \in Given : switchSettings(p, choice)
           \/ resets(p) \/ taskWrites(p)
           \/ \E f \in Features : configureBegins(p, f)
    \/ \E p \in Procs : configureWrites(p) \/ fails(p)
    \/ \E value \in BOOLEAN : \/ \E b \in Bits : setWheel(b, value)
                              \/ \E clear \in BOOLEAN : setActive(value, clear)
    \/ \E value \in SmartThresholds, clear \in BOOLEAN : setAutoDisengage(value, clear)
    \/ \E value \in DpiValues, s \in DpiSensors \cup {NoSensor} : setDPI(value, s)

SettingSpec == SettingInit /\ [][SettingNext]_settingVars

(***************************************************************************)
(* Properties.                                                             *)
(***************************************************************************)

WheelInForce == \A b \in Mask(conf) \ strayed["wheel"] : (b \in wheel) <=> conf.wheel[b]
SmartInForce == /\ "smart" \notin strayed["smart"] /\ conf.on # {} => smart \in conf.on
                /\ "threshold" \notin strayed["smart"] /\ Max(conf.threshold \cup {0}) # 0
                       => threshold \in conf.threshold
OneWord(v)   == v \in 0 .. Word - 1
DpiInForce   == \A s \in Told(conf) \ strayed["dpi"] :
    OneWord(Wanted(conf, s)) => dpi[s] = getClosestDPI(DpiLists[s], Wanted(conf, s))

\* When nothing is on its way, the device has what its profile says, except
\* for what a transfer failed to tell it, what an action of a button changed
\* on purpose, a bit that such an action wrote back from an old reading, the
\* first sensor, whose value SetDPI on another one overwrites, and a DPI of the
\* file that is no number of 16 bits, of which the device gets the lower half.
SettingsInForce ==
    unset = {} /\ (\A p \in Procs : op[p] = Idle)
        => WheelInForce /\ SmartInForce /\ DpiInForce

IsNearest(s, v) == \A u \in Supported(DpiLists[s]) :
    Distance(v, getClosestDPI(DpiLists[s], v)) <= Distance(v, u)

\* Whatever is asked for, and however an action adds to it, a sensor is only
\* told a value that it supports, and the nearest there is; a change of the
\* host names one there is.
ChoicesAreSupported ==
    /\ host \in 0 .. Hosts - 1
    /\ \A s \in DpiSensors : dpi[s] \in Supported(DpiLists[s])
    /\ \A s \in Told(conf) : IsNearest(s, Wanted(conf, s) % Word)
    /\ \A p \in Procs : op[p].what = "change dpi" => IsNearest(op[p].sensor, op[p].dpi)

\* Both: a device has what was asked for, and nothing it does not support.
SettingsAgree == SettingsInForce /\ ChoicesAreSupported
=============================================================================
