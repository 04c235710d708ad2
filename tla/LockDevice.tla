------------------------------ MODULE LockDevice ------------------------------
(***************************************************************************)
(* The ESP32 lock: boot, serial console, network and clock preparation,    *)
(* the signed unlock request and the relay pulse (main.cpp, with the parts *)
(* of config.cpp, transport.cpp, relay.cpp and watchdog.cpp it drives).    *)
(*                                                                         *)
(* One task runs everything, so "pc" is where that task is; around it, at  *)
(* any moment, Wi-Fi comes and goes, the SNTP client sets the clock, the   *)
(* service answers and the chip may be reset.  Waits (Wi-Fi 12 s, SNTP and *)
(* HTTP 15 s) end in success or failure and the watchdog is fed from one   *)
(* to the next, so a step of an errand takes less than the watchdog's      *)
(* limit or the chip is reset.                                             *)
(***************************************************************************)
EXTENDS Integers

CONSTANTS
    Nonce,      \* request nonces; a device never draws one twice
    Module,     \* the input level that energises the fitted relay module
    Wrap,       \* millis() counts modulo this (2^32 in the code)
    Refresh,    \* kAuthenticatedTimeRefreshMs
    Pulse,      \* relayPulseMs
    Gap,        \* least time between reconnection attempts (5000 ms)
    Watchdog,   \* kWatchdogTimeoutMs
    Never,      \* authenticatedTimeReady is false
    NoRequest

ASSUME ClockAssumption ==
    /\ Wrap \in Nat /\ Refresh \in 1 .. Wrap - 1
    /\ Pulse \in 1 .. Wrap - 1 /\ Gap \in 1 .. Wrap - 1
    /\ Watchdog \in Nat
    /\ Never \notin Int

ASSUME ModuleAssumption == Module \in {"HIGH", "LOW"}

ASSUME RequestAssumption == NoRequest \notin Nonce

Level == {"HIGH", "LOW"}

Opposite(level) == IF level = "HIGH" THEN "LOW" ELSE "HIGH"

\* DeviceConfig: "identity" is set when every field valid() looks at is good,
\* "active" is relayActiveHigh.
Config == [identity : {"missing", "set"}, active : Level]

Blank == [identity |-> "missing", active |-> "HIGH"]

\* DeviceConfig::valid
Valid(c) == c.identity = "set"

Job == {"none", "setup", "unlock", "health", "reconnect"}

Starting == {"reset", "boot", "load"}
Working == {"wifi", "ntp", "time", "camera", "frames", "sign", "send", "post", "pulse", "get"}

Millis == 0 .. Wrap - 1

VARIABLES
    pc, job,    \* where the task is, and on what errand
    unfed,      \* time since the watchdog was fed
    cfg,        \* config_, in RAM
    nvs,        \* the "sahl" preferences in flash
    intended,   \* history: the relay level an operator last saved
    pin,        \* level of the relay pin; FLOAT while in reset
    active,     \* Relay::activeHigh_
    camera,     \* cameraReady
    wifi,
    clock,      \* who set the system clock
    sntp,       \* the SNTP client started by configTime
    ms,         \* millis()
    authAt,     \* authenticatedTimeAt, or Never
    age,        \* history: true time since the last authenticated time
    lastTry,    \* lastReconnectAttempt
    since,      \* start of the running pulse
    request,    \* nonce of the request in hand
    reply,      \* what has become of each nonce
    opened      \* history: pulses given for each nonce

console == <<cfg, nvs, intended>>
relay == <<pin, active, since, opened>>
time == <<clock, sntp, ms, authAt, age>>
network == <<wifi, lastTry>>
messages == <<request, reply>>
task == <<pc, job, unfed>>
vars == <<task, console, relay, camera, time, network, messages>>

Elapsed(from) == (ms - from) % Wrap

\* The relay drives the level it takes for "off" ...
Off == pin' = Opposite(active) /\ UNCHANGED <<active, since, opened>>

\* ... and the module is energised when that is its own active level.
Energised == pin = Module

\* Every step of the task feeds the watchdog.
Continue(to) == pc' = to /\ unfed' = 0 /\ UNCHANGED job
Done == pc' = "idle" /\ job' = "none" /\ unfed' = 0
Start(what) == pc' = "wifi" /\ job' = what /\ unfed' = 0

Init ==
    /\ pc = "reset" /\ job = "none" /\ unfed = 0
    /\ cfg = Blank /\ nvs = Blank /\ intended = "HIGH"
    /\ pin = "FLOAT" /\ active = "HIGH" /\ since = 0
    /\ camera = "down" /\ wifi = "down" /\ lastTry = 0
    /\ clock = "unset" /\ sntp = "stopped"
    /\ ms = 0 /\ authAt = Never /\ age = Never
    /\ request = NoRequest
    /\ reply = [n \in Nonce |-> "unused"]
    /\ opened = [n \in Nonce |-> 0]

-----------------------------------------------------------------------------
(* Start-up.                                                               *)

\* setup: the relay is begun with the default pin and level.
PowerOn ==
    /\ pc = "reset"
    /\ Continue("boot")
    /\ pin' = "LOW" /\ active' = "HIGH"
    /\ UNCHANGED <<since, opened, console, camera, time, network, messages>>

\* initializeWatchdog; without it loop() does nothing, for ever.
InitWatchdog ==
    /\ pc = "boot"
    /\ Continue("load") \/ Continue("blocked")
    /\ Off
    /\ UNCHANGED <<console, camera, time, network, messages>>

\* configStore.load, which may find no readable preferences; then the relay
\* and the camera, if the configuration is valid.
Load ==
    /\ pc = "load"
    /\ cfg' \in {nvs, Blank}
    /\ \/ /\ Valid(cfg')
          /\ active' = cfg'.active /\ pin' = Opposite(cfg'.active)
          /\ camera' \in {"up", "down"}
          /\ Start("setup")
          /\ UNCHANGED <<since, opened>>
       \/ /\ ~ Valid(cfg')
          /\ Off
          /\ Done
          /\ UNCHANGED camera
    /\ UNCHANGED <<nvs, intended, time, network, messages>>

-----------------------------------------------------------------------------
(* prepareNetwork, shared by every errand.                                 *)

\* Transport::ensureWifi
EnsureWifi ==
    /\ pc = "wifi"
    /\ \/ wifi' = "up" /\ Continue("ntp")
       \/ wifi = "down" /\ UNCHANGED wifi /\ Done
    /\ UNCHANGED <<console, relay, camera, time, lastTry, messages>>

\* waitForRoughNtp; loop() goes on to the challenge even if it failed.
RoughTime ==
    /\ pc = "ntp"
    /\ \/ /\ clock # "unset"
          /\ Continue("time")
          /\ UNCHANGED <<clock, sntp>>
       \/ /\ clock = "unset"
          /\ sntp' = "running"
          /\ \/ clock' = "sntp" /\ Continue("time")
             \/ /\ UNCHANGED clock
                /\ IF job = "reconnect" THEN Continue("time") ELSE Done
    /\ UNCHANGED <<console, relay, camera, ms, authAt, age, network, messages>>

\* Variant of AuthFresh: its age is forgotten.
AuthReady == authAt # Never /\ clock # "unset"

\* authenticatedTimeIsFresh
AuthFresh == authAt # Never /\ clock # "unset" /\ Elapsed(authAt) < Refresh

\* What follows a successful prepareNetwork.
AfterNetwork ==
    \/ job = "unlock" /\ Continue("camera")
    \/ job = "health" /\ Continue("get")
    \/ job \in {"setup", "reconnect"} /\ Done

\* establishAuthenticatedTime: nothing if fresh, else a challenge to
\* /api/device_time, whose failure forgets the earlier one.
AuthTime ==
    /\ pc = "time"
    /\ \/ /\ AuthFresh
          /\ AfterNetwork
          /\ UNCHANGED <<clock, authAt, age>>
       \/ /\ ~ AuthFresh
          /\ clock' = "challenge" /\ authAt' = ms /\ age' = 0
          /\ AfterNetwork
       \/ /\ ~ AuthFresh
          /\ authAt' = Never
          /\ Done
          /\ UNCHANGED <<clock, age>>
    /\ UNCHANGED <<console, relay, camera, sntp, ms, network, messages>>

-----------------------------------------------------------------------------
(* performUnlock after prepareNetwork.                                     *)

OpenCamera ==
    /\ pc = "camera"
    /\ \/ camera' = "up" /\ Continue("frames")
       \/ camera = "down" /\ UNCHANGED camera /\ Done
    /\ UNCHANGED <<console, relay, time, network, messages>>

\* The fresh-frame prefilter, the capture and its encryption.
Capture ==
    /\ pc = "frames"
    /\ Continue("sign") \/ Done
    /\ Off
    /\ UNCHANGED <<console, camera, time, network, messages>>

\* The timestamp is read and the headers are signed under a new nonce.
Sign ==
    /\ pc = "sign"
    /\ \/ /\ clock # "unset"
          /\ \E n \in Nonce :
                /\ reply[n] = "unused"
                /\ request' = n
                /\ reply' = [reply EXCEPT ![n] = "signed"]
          /\ Continue("send")
       \/ Done /\ UNCHANGED messages
    /\ Off
    /\ UNCHANGED <<console, camera, time, network>>

\* postUnlock: Wi-Fi is looked at once more, then exactly one POST.
Send ==
    /\ pc = "send"
    /\ \/ /\ wifi' = "up"
          /\ reply' = [reply EXCEPT ![request] = "sent"]
          /\ Continue("post")
          /\ UNCHANGED request
       \/ /\ request' = NoRequest
          /\ Done
          /\ UNCHANGED <<wifi, reply>>
    /\ Off
    /\ UNCHANGED <<console, camera, time, lastTry>>

\* Variant of Accept: the status in the answer is not compared with UNLOCK.
AcceptAnyStatus ==
    /\ pc = "post"
    /\ reply[request] \in {"UNLOCK", "other"}
    /\ Continue("pulse")
    /\ pin' = active /\ since' = ms
    /\ opened' = [opened EXCEPT ![request] = @ + 1]
    /\ UNCHANGED <<active, console, camera, time, network, messages>>

\* The exact answer arrives: status 200, version 2, UNLOCK.
Accept ==
    /\ pc = "post"
    /\ reply[request] = "UNLOCK"
    /\ Continue("pulse")
    /\ pin' = active /\ since' = ms
    /\ opened' = [opened EXCEPT ![request] = @ + 1]
    /\ UNCHANGED <<active, console, camera, time, network, messages>>

\* Any other outcome: no HTTP status within the timeout (the service may have
\* acted), not 200, not parsed, another version or another status.
Reject ==
    /\ pc = "post"
    /\ Done
    /\ Off
    /\ request' = NoRequest
    /\ UNCHANGED <<console, camera, time, network, reply>>

\* Variant of EndPulse: compares counter values, not their difference.
EndPulseAtDeadline ==
    /\ pc = "pulse"
    /\ ms >= since + Pulse
    /\ Done
    /\ pin' = Opposite(active) /\ since' = 0
    /\ request' = NoRequest
    /\ UNCHANGED <<active, opened, console, camera, time, network, reply>>

\* pulseRelay's loop is over.
EndPulse ==
    /\ pc = "pulse"
    /\ Elapsed(since) >= Pulse
    /\ Done
    /\ pin' = Opposite(active) /\ since' = 0
    /\ request' = NoRequest
    /\ UNCHANGED <<active, opened, console, camera, time, network, reply>>

\* performHealth's GET, whatever its outcome.
Get ==
    /\ pc = "get"
    /\ Done
    /\ Off
    /\ UNCHANGED <<console, camera, time, network, messages>>

-----------------------------------------------------------------------------
(* loop(): console commands and reconnection.  With an invalid             *)
(* configuration UNLOCK and HEALTH are refused and only Off is done.       *)

Command(what) ==
    /\ pc = "idle"
    /\ Valid(cfg)
    /\ Start(what)
    /\ Off
    /\ UNCHANGED <<console, camera, time, network, messages>>

\* PROVISION SET: fields are staged in RAM, where UNLOCK already uses them.
\* The operator gives the relay level of the module that is fitted.
Set ==
    /\ pc = "idle"
    /\ cfg' \in {[cfg EXCEPT !.identity = "set"], [cfg EXCEPT !.identity = "missing"],
                 [cfg EXCEPT !.active = Module]}
    /\ UNCHANGED <<task, nvs, intended, relay, camera, time, network, messages>>

\* Preferences accept keys of at most 15 characters: "relay_active_high" is
\* never stored, so that load() falls back on its default.
Stored(c) == [c EXCEPT !.active = "HIGH"]

\* PROVISION SAVE: the puts are made one by one and may fail.
Save ==
    /\ pc = "idle"
    /\ Valid(cfg)
    /\ \/ nvs' = Stored(cfg) /\ intended' = cfg.active
       \/ UNCHANGED <<nvs, intended>>
    /\ UNCHANGED <<task, cfg, relay, camera, time, network, messages>>

\* PROVISION CLEAR: the RAM copy is blanked even if the erase fails.
Clear ==
    /\ pc = "idle"
    /\ cfg' = Blank
    /\ \/ nvs' = Blank /\ intended' = "HIGH"
       \/ UNCHANGED <<nvs, intended>>
    /\ UNCHANGED <<task, relay, camera, time, network, messages>>

Reconnect ==
    /\ pc = "idle"
    /\ Valid(cfg)
    /\ wifi = "down"
    /\ Elapsed(lastTry) >= Gap
    /\ lastTry' = ms
    /\ Start("reconnect")
    /\ Off
    /\ UNCHANGED <<console, camera, time, wifi, messages>>

-----------------------------------------------------------------------------
(* Around the task.                                                        *)

\* PROVISION REBOOT, the task watchdog, a brownout or a power cut.  RAM is
\* lost; the clock survives some of these; the pin floats and the driver's
\* pull resistor holds the module off.
Reset ==
    /\ pc # "reset"
    /\ pc' = "reset" /\ job' = "none" /\ unfed' = 0
    /\ cfg' = Blank
    /\ pin' = "FLOAT" /\ active' = "HIGH" /\ since' = 0
    /\ camera' = "down" /\ wifi' = "down" /\ lastTry' = 0
    /\ clock' \in {clock, "unset"} /\ sntp' = "stopped"
    /\ ms' = 0 /\ authAt' = Never /\ age' = Never
    /\ request' = NoRequest
    /\ UNCHANGED <<nvs, intended, reply, opened>>

\* The service (ReplayGuard and the face route behind it) answers a request
\* it received, whether or not the device still waits.
ServerAnswers(n) ==
    /\ reply[n] = "sent"
    /\ \E answer \in {"UNLOCK", "other"} : reply' = [reply EXCEPT ![n] = answer]
    /\ UNCHANGED <<task, console, relay, camera, time, network, request>>

WifiChange ==
    /\ pc \notin Starting
    /\ wifi' \in {"up", "down"} \ {wifi}
    /\ UNCHANGED <<task, console, relay, camera, time, lastTry, messages>>

\* Once started, the SNTP client keeps setting the clock, to any time.
SntpUpdate ==
    /\ sntp = "running"
    /\ clock' \in {"sntp", "unset"}
    /\ UNCHANGED <<task, console, relay, camera, sntp, ms, authAt, age, network, messages>>

\* A step that may keep the task from feeding the watchdog.
Blocking == pc \in Working \ {"pulse"}

\* Variant of Tick: the counter does not wrap.
TickUnwrapped ==
    /\ pc # "reset"
    /\ pc = "pulse" => Elapsed(since) < Pulse
    /\ Blocking => unfed < Watchdog
    /\ unfed' = IF Blocking THEN unfed + 1 ELSE unfed
    /\ ms' = ms + 1
    /\ age' = IF age = Never \/ age = Wrap THEN age ELSE age + 1
    /\ UNCHANGED <<pc, job, console, relay, camera, clock, sntp, authAt, network, messages>>

\* Time passes; pulseRelay looks at the counter every 10 ms and feeds the
\* watchdog, and so does loop().
Tick ==
    /\ pc # "reset"
    /\ pc = "pulse" => Elapsed(since) < Pulse
    /\ Blocking => unfed < Watchdog
    /\ unfed' = IF Blocking THEN unfed + 1 ELSE unfed
    /\ ms' = (ms + 1) % Wrap
    /\ age' = IF age = Never \/ age = Wrap THEN age ELSE age + 1
    /\ UNCHANGED <<pc, job, console, relay, camera, clock, sntp, authAt, network, messages>>

Task ==
    \/ PowerOn \/ InitWatchdog \/ Load
    \/ EnsureWifi \/ RoughTime \/ AuthTime
    \/ OpenCamera \/ Capture \/ Sign \/ Send \/ Accept \/ Reject \/ EndPulse \/ Get

Console == Command("unlock") \/ Command("health") \/ Set \/ Save \/ Clear

Around ==
    \/ Reset
    \/ \E n \in Nonce : ServerAnswers(n)
    \/ WifiChange
    \/ SntpUpdate
    \/ Tick

Next == Task \/ Console \/ Reconnect \/ Around

Spec == Init /\ [][Next]_vars

\* The task runs whenever it can, and time passes.
Fairness == WF_vars(Task) /\ WF_vars(Tick)

FairSpec == Spec /\ Fairness

-----------------------------------------------------------------------------
\* Every variable keeps its type.
TypeOK ==
    /\ pc \in {"idle", "blocked"} \cup Starting \cup Working
    /\ job \in Job /\ unfed \in 0 .. Watchdog
    /\ cfg \in Config /\ nvs \in Config /\ intended \in Level
    /\ pin \in Level \cup {"FLOAT"} /\ active \in Level
    /\ camera \in {"up", "down"} /\ wifi \in {"up", "down"}
    /\ clock \in {"unset", "sntp", "challenge"} /\ sntp \in {"stopped", "running"}
    /\ ms \in Millis /\ lastTry \in Millis /\ since \in Millis
    /\ authAt \in Millis \cup {Never}
    /\ age \in 0 .. Wrap \cup {Never}
    /\ request \in Nonce \cup {NoRequest}
    /\ reply \in [Nonce -> {"unused", "signed", "sent", "UNLOCK", "other"}]
    /\ opened \in [Nonce -> Nat]

\* The module is energised only inside pulseRelay: every failure, reset and
\* restart at any point leaves it off.
OnlyWhilePulsing == Energised => pc = "pulse"

\* Each signed request opens the door at most once, and only if the service
\* answered UNLOCK to that very request.
PulseApproved ==
    \A n \in Nonce : opened[n] > 0 => opened[n] = 1 /\ reply[n] = "UNLOCK"

\* The promise about the door.  It is open while the module is energised, for
\* the request in hand.
Promise == INSTANCE Door WITH
    Nonce <- Nonce,
    Shut <- "shut",
    approved <- {n \in Nonce : reply[n] = "UNLOCK"},
    used <- {n \in Nonce : opened[n] # 0},
    open <- IF Energised THEN request ELSE "shut"

\* The relay is driven as the promise says: energised for one approved request,
\* at most once for each, and off before the device takes up another.
ImplementsDoor == Promise!Spec

\* A challenge recent enough for a signature, allowing for the camera's work.
Recent == age # Never /\ age < Refresh + 3 * Watchdog

\* A request is signed only after a challenge of this boot that was answered, by
\* the end of the camera's work, at most three steps more than Refresh ago, or
\* else a whole turn of the counter ago; and with the time which that challenge
\* set, unless this boot has started the SNTP client.
SignedAfterChallenge ==
    [][pc = "sign" /\ pc' = "send" =>
          /\ Recent \/ age = Wrap
          /\ clock = "challenge" \/ sntp = "running"]_vars

\* "SNTP supplies only a rough clock ... The device-specific HMAC challenge below
\* establishes the clock used by signed actuator requests", which the firmware
\* "refreshes hourly": at the very least, a request whose time is not the
\* challenge's is signed within the hour of one.
SignedOnTrustedTime ==
    [][pc = "sign" /\ pc' = "send" => clock = "challenge" \/ Recent]_vars

\* "TLS, HTTP, and NTP waits are finite": every errand, and so every pulse,
\* comes to an end.
ErrandsEnd == pc \in Working ~> pc \notin Working

\* "RELAY_ACTIVE_HIGH=0 supports an active-low module": a boot that finds a
\* saved configuration for the fitted module begins with the module off.
SavedLevelHolds ==
    [][pc = "load" /\ Valid(cfg') /\ intended = Module => pin' # Module]_vars
=============================================================================
