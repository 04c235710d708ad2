-------------------------- MODULE LockDeviceProofs ---------------------------
(***************************************************************************)
(* Proofs about LockDevice, for any set of nonces and any time constants.  *)
(***************************************************************************)
EXTENDS LockDevice, TLAPS

\* Arithmetic of the wrapped counter.
LEMMA ModRange ==
    ASSUME NEW a \in Int
    PROVE  a % Wrap \in Millis
  BY ClockAssumption DEF Millis

LEMMA ModSmall ==
    ASSUME NEW a \in Millis
    PROVE  a % Wrap = a
  BY ClockAssumption DEF Millis

LEMMA ModNegative ==
    ASSUME NEW a \in 1 .. Wrap - 1
    PROVE  (0 - a) % Wrap = Wrap - a
  <1> DEFINE w == Wrap
  <1>1. w \in Nat /\ w > 1 /\ 0 - a < 0 /\ 0 - a > 0 - w /\ a \in Int
    BY ClockAssumption
  <1> HIDE DEF w
  <1>2. (0 - a) % w = (0 - a) + w
    BY <1>1
  <1> USE DEF w
  <1>3. QED
    BY <1>1, <1>2

\* Differences of counter readings, and how one tick changes them.
LEMMA Difference ==
    ASSUME NEW m \in Millis, NEW a \in Millis
    PROVE  (m - a) % Wrap = IF m >= a THEN m - a ELSE m - a + Wrap
  <1>1. Wrap \in Nat /\ m \in Int /\ a \in Int /\ 0 <= m /\ m < Wrap /\ 0 <= a /\ a < Wrap
    BY ClockAssumption DEF Millis
  <1>2. CASE m >= a
    <2>1. m - a \in Millis
      BY <1>1, <1>2 DEF Millis
    <2>2. QED
      BY <1>2, <2>1, ModSmall
  <1>3. CASE m < a
    <2>1. a - m \in 1 .. Wrap - 1 /\ m - a = 0 - (a - m)
      BY <1>1, <1>3
    <2>2. (m - a) % Wrap = Wrap - (a - m)
      BY <2>1, ModNegative
    <2>3. QED
      BY <1>1, <1>3, <2>2
  <1>4. QED
    BY <1>1, <1>2, <1>3

LEMMA NextMillis ==
    ASSUME NEW m \in Millis
    PROVE  (m + 1) % Wrap = IF m = Wrap - 1 THEN 0 ELSE m + 1
  <1>1. Wrap \in Nat /\ Wrap > 1 /\ m \in Int /\ 0 <= m /\ m < Wrap
    BY ClockAssumption DEF Millis
  <1>2. CASE m = Wrap - 1
    <2>1. m + 1 = Wrap
      BY <1>1, <1>2
    <2>2. Wrap % Wrap = 0
      BY <1>1
    <2>3. QED
      BY <1>2, <2>1, <2>2
  <1>3. CASE m # Wrap - 1
    <2>1. m + 1 \in Millis
      BY <1>1, <1>3 DEF Millis
    <2>2. QED
      BY <1>3, <2>1, ModSmall
  <1>4. QED
    BY <1>2, <1>3

LEMMA DifferenceTicks ==
    ASSUME NEW m \in Millis, NEW a \in Millis, (m - a) % Wrap < Wrap - 1
    PROVE  (((m + 1) % Wrap) - a) % Wrap = ((m - a) % Wrap) + 1
  <1>1. Wrap \in Nat /\ m \in Int /\ a \in Int /\ 0 <= m /\ m < Wrap /\ 0 <= a /\ a < Wrap
    BY ClockAssumption DEF Millis
  <1>2. (m + 1) % Wrap \in Millis /\ (m + 1) % Wrap = IF m = Wrap - 1 THEN 0 ELSE m + 1
    BY <1>1, NextMillis, ModRange
  <1>3. (((m + 1) % Wrap) - a) % Wrap =
          IF (m + 1) % Wrap >= a THEN ((m + 1) % Wrap) - a ELSE ((m + 1) % Wrap) - a + Wrap
    BY <1>2, Difference
  <1>4. (m - a) % Wrap = IF m >= a THEN m - a ELSE m - a + Wrap
    BY Difference
  <1> DEFINE x == (m + 1) % Wrap
             y == (m - a) % Wrap
             z == (x - a) % Wrap
  <1>5. /\ x = (IF m = Wrap - 1 THEN 0 ELSE m + 1)
        /\ z = (IF x >= a THEN x - a ELSE x - a + Wrap)
        /\ y = (IF m >= a THEN m - a ELSE m - a + Wrap)
        /\ y < Wrap - 1
    BY <1>2, <1>3, <1>4
  <1> HIDE DEF x, y, z
  <1>6. z = y + 1
    BY <1>1, <1>5
  <1>7. QED
    BY <1>6 DEF x, y, z

\* A pulse is one more for the request in hand.
LEMMA AcceptCounts ==
    ASSUME TypeOK, Accept
    PROVE  opened' \in [Nonce -> Nat]
  <1>1. opened \in [Nonce -> Nat]
    BY DEF TypeOK
  <1>2. \A n \in Nonce : opened[n] + 1 \in Nat
    BY <1>1
  <1>3. opened' = [opened EXCEPT ![request] = opened[request] + 1]
    BY DEF Accept
  <1>4. QED
    BY <1>1, <1>2, <1>3

\* Every variable keeps its type.
THEOREM TypeCorrect == Spec => []TypeOK
  <1>1. Init => TypeOK
    BY ClockAssumption, ModuleAssumption
    DEF Init, TypeOK, Blank, Config, Level, Job, Starting, Millis
  <1>2. TypeOK /\ [Next]_vars => TypeOK'
    <2> SUFFICES ASSUME TypeOK, [Next]_vars PROVE TypeOK'
      OBVIOUS
    <2> USE ClockAssumption, ModuleAssumption DEF TypeOK, task, console, relay, time, network, messages
    <2>1. CASE PowerOn
      BY <2>1 DEF PowerOn, Continue, Level, Starting
    <2>2. CASE InitWatchdog
      BY <2>2 DEF InitWatchdog, Continue, Off, Opposite, Level, Starting
    <2>3. CASE Load
      BY <2>3 DEF Load, Off, Opposite, Level, Start, Done, Blank, Config, Job, Working, Starting
    <2>4. CASE EnsureWifi
      BY <2>4 DEF EnsureWifi, Continue, Done, Job, Working
    <2>5. CASE RoughTime
      BY <2>5 DEF RoughTime, Continue, Done, Job, Working
    <2>6. CASE AuthTime
      BY <2>6 DEF AuthTime, AfterNetwork, Continue, Done, Job, Working
    <2>7. CASE OpenCamera
      BY <2>7 DEF OpenCamera, Continue, Done, Job, Working
    <2>8. CASE Capture
      BY <2>8 DEF Capture, Continue, Done, Off, Opposite, Level, Job, Working
    <2>9. CASE Sign
      BY <2>9 DEF Sign, Continue, Done, Off, Opposite, Level, Job, Working
    <2>10. CASE Send
      BY <2>10 DEF Send, Continue, Done, Off, Opposite, Level, Job, Working
    <2>11. CASE Accept
      <3>1. opened' \in [Nonce -> Nat]
        BY <2>11, AcceptCounts
      <3>2. QED
        BY <2>11, <3>1 DEF Accept, Continue, Working
    <2>12. CASE Reject
      BY <2>12 DEF Reject, Done, Off, Opposite, Level, Job
    <2>13. CASE EndPulse
      BY <2>13 DEF EndPulse, Done, Opposite, Level, Job, Millis
    <2>14. CASE Get
      BY <2>14 DEF Get, Done, Off, Opposite, Level, Job
    <2>15. CASE Command("unlock") \/ Command("health")
      BY <2>15 DEF Command, Start, Off, Opposite, Level, Job, Working
    <2>16. CASE Set
      BY <2>16 DEF Set, Config, Level
    <2>17. CASE Save
      BY <2>17 DEF Save, Stored, Config, Level
    <2>18. CASE Clear
      BY <2>18 DEF Clear, Blank, Config, Level
    <2>19. CASE Reconnect
      BY <2>19 DEF Reconnect, Start, Off, Opposite, Level, Job, Working
    <2>20. CASE Reset
      BY <2>20 DEF Reset, Blank, Config, Level, Job, Starting, Millis
    <2>21. ASSUME NEW n \in Nonce, ServerAnswers(n) PROVE TypeOK'
      BY <2>21 DEF ServerAnswers
    <2>22. CASE WifiChange
      BY <2>22 DEF WifiChange
    <2>23. CASE SntpUpdate
      BY <2>23 DEF SntpUpdate
    <2>24. CASE Tick
      <3>1. ms' \in Millis
        BY <2>24, ModRange DEF Tick, Millis
      <3>2. unfed' \in 0 .. Watchdog
        BY <2>24 DEF Tick, Blocking
      <3>3. age' \in 0 .. Wrap \cup {Never}
        BY <2>24 DEF Tick
      <3>4. QED
        BY <2>24, <3>1, <3>2, <3>3 DEF Tick
    <2>25. CASE UNCHANGED vars
      BY <2>25 DEF vars
    <2>26. QED
      BY <2>1, <2>2, <2>3, <2>4, <2>5, <2>6, <2>7, <2>8, <2>9, <2>10, <2>11, <2>12, <2>13, <2>14, <2>15, <2>16, <2>17, <2>18, <2>19, <2>20, <2>21, <2>22, <2>23, <2>24, <2>25
      DEF Next, Task, Console, Around
  <1>3. QED
    BY <1>1, <1>2, PTL DEF Spec

-----------------------------------------------------------------------------
(* One pulse for one answer.                                               *)

\* A request on its way has opened nothing yet, and the request in hand is
\* as far as the task is.
RequestInv ==
    /\ \A n \in Nonce : opened[n] = 0 \/ (opened[n] = 1 /\ reply[n] = "UNLOCK")
    /\ pc \in {"send", "post"} => request \in Nonce /\ opened[request] = 0
    /\ pc = "pulse" => request \in Nonce
    /\ pc = "send" => reply[request] = "signed"
    /\ pc = "post" => reply[request] \in {"sent", "UNLOCK", "other"}

\* The task never loses track of the request in hand.
LEMMA RequestTracked == Spec => []RequestInv
  <1>1. Init => RequestInv
    BY DEF Init, RequestInv
  <1>2. TypeOK /\ RequestInv /\ [Next]_vars => RequestInv'
    <2> SUFFICES ASSUME TypeOK, RequestInv, [Next]_vars PROVE RequestInv'
      OBVIOUS
    <2> USE DEF RequestInv, messages, task, relay
    <2>0. opened \in [Nonce -> Nat] /\ reply \in [Nonce -> {"unused", "signed", "sent", "UNLOCK", "other"}]
      BY DEF TypeOK
    <2>1. CASE PowerOn \/ InitWatchdog \/ Load
      BY <2>1 DEF PowerOn, InitWatchdog, Load, Continue, Done, Start, Off
    <2>2. CASE EnsureWifi \/ RoughTime \/ AuthTime \/ OpenCamera
      BY <2>2 DEF EnsureWifi, RoughTime, AuthTime, AfterNetwork, OpenCamera, Continue, Done
    <2>3. CASE Capture \/ Get \/ EndPulse \/ Reject
      BY <2>3 DEF Capture, Get, EndPulse, Reject, Continue, Done, Off
    <2>4. CASE Sign
      BY <2>0, <2>4 DEF Sign, Continue, Done, Off
    <2>5. CASE Send
      BY <2>0, <2>5 DEF Send, Continue, Done, Off
    <2>6. CASE Accept
      BY <2>0, <2>6 DEF Accept, Continue
    <2>7. CASE Command("unlock") \/ Command("health") \/ Reconnect
      BY <2>7 DEF Command, Reconnect, Start, Off
    <2>8. CASE Set \/ Save \/ Clear
      BY <2>8 DEF Set, Save, Clear
    <2>9. CASE Reset
      BY <2>9 DEF Reset
    <2>10. ASSUME NEW n \in Nonce, ServerAnswers(n) PROVE RequestInv'
      BY <2>0, <2>10 DEF ServerAnswers
    <2>11. CASE WifiChange \/ SntpUpdate \/ Tick
      BY <2>11 DEF WifiChange, SntpUpdate, Tick
    <2>12. CASE UNCHANGED vars
      BY <2>12 DEF vars
    <2>13. QED
      BY <2>1, <2>2, <2>3, <2>4, <2>5, <2>6, <2>7, <2>8, <2>9, <2>10, <2>11, <2>12
      DEF Next, Task, Console, Around
  <1>3. QED
    BY <1>1, <1>2, TypeCorrect, PTL DEF Spec

\* Each signed request opens the door at most once, and only if the service
\* answered UNLOCK to it.
THEOREM ApprovedPulses == Spec => []PulseApproved
  <1>1. RequestInv => PulseApproved
    BY DEF RequestInv, PulseApproved
  <1>2. QED
    BY <1>1, RequestTracked, PTL

-----------------------------------------------------------------------------
(* The relay is off outside a pulse, for a module of the default level.    *)

\* Nothing but the operator's choice changes the relay level.
LevelInv ==
    /\ active = "HIGH" /\ cfg.active = "HIGH" /\ nvs.active = "HIGH"
    /\ pin = "HIGH" => pc = "pulse"

\* With an active-high module the relay's level stays what it is by default.
LEMMA LevelKept == Module = "HIGH" /\ Spec => []LevelInv
  <1> SUFFICES ASSUME Module = "HIGH" PROVE Spec => []LevelInv
    OBVIOUS
  <1>1. Init => LevelInv
    BY DEF Init, LevelInv, Blank
  <1>2. TypeOK /\ LevelInv /\ [Next]_vars => LevelInv'
    <2> SUFFICES ASSUME TypeOK, LevelInv, [Next]_vars PROVE LevelInv'
      OBVIOUS
    <2> USE DEF LevelInv, console, relay, task
    <2>1. CASE PowerOn \/ InitWatchdog
      BY <2>1 DEF PowerOn, InitWatchdog, Continue, Off, Opposite
    <2>2. CASE Load
      BY <2>2 DEF Load, Blank, Start, Done, Off, Opposite
    <2>3. CASE EnsureWifi \/ RoughTime \/ AuthTime \/ OpenCamera
      BY <2>3 DEF EnsureWifi, RoughTime, AuthTime, AfterNetwork, OpenCamera, Continue, Done
    <2>4. CASE Capture \/ Sign \/ Send \/ Get \/ Reject
      BY <2>4 DEF Capture, Sign, Send, Get, Reject, Continue, Done, Off, Opposite
    <2>5. CASE Accept \/ EndPulse
      BY <2>5 DEF Accept, EndPulse, Continue, Done, Opposite
    <2>6. CASE Command("unlock") \/ Command("health") \/ Reconnect
      BY <2>6 DEF Command, Reconnect, Start, Off, Opposite
    <2>7. CASE Set
      BY <2>7 DEF Set, TypeOK, Config
    <2>8. CASE Save
      BY <2>8 DEF Save, Stored, TypeOK, Config
    <2>9. CASE Clear \/ Reset
      BY <2>9 DEF Clear, Reset, Blank
    <2>10. ASSUME NEW n \in Nonce, ServerAnswers(n) PROVE LevelInv'
      BY <2>10 DEF ServerAnswers
    <2>11. CASE WifiChange \/ SntpUpdate \/ Tick
      BY <2>11 DEF WifiChange, SntpUpdate, Tick
    <2>12. CASE UNCHANGED vars
      BY <2>12 DEF vars
    <2>13. QED
      BY <2>1, <2>2, <2>3, <2>4, <2>5, <2>6, <2>7, <2>8, <2>9, <2>10, <2>11, <2>12
      DEF Next, Task, Console, Around
  <1>3. QED
    BY <1>1, <1>2, TypeCorrect, PTL DEF Spec

\* An active-high module is energised only inside pulseRelay, whatever fails
\* or is reset.  (For an active-low one SavedLevelHolds says what happens.)
THEOREM OffOutsidePulse == Module = "HIGH" /\ Spec => []OnlyWhilePulsing
  <1> SUFFICES ASSUME Module = "HIGH" PROVE Spec => []OnlyWhilePulsing
    OBVIOUS
  <1>1. LevelInv => OnlyWhilePulsing
    BY DEF LevelInv, OnlyWhilePulsing, Energised
  <1>2. Module = "HIGH"
    OBVIOUS
  <1>3. QED
    BY <1>1, <1>2, LevelKept, PTL

-----------------------------------------------------------------------------
(* The firmware implements the promise about the door.                     *)

\* The mapped variables of Door.
Approved == {n \in Nonce : reply[n] = "UNLOCK"}
Used == {n \in Nonce : opened[n] # 0}

\* A step that leaves the answers, the pulses given and the level of the pin
\* alone, while the pulse's request stays in hand, does not concern the door.
LEMMA DoorUntouched ==
    ASSUME Module = "HIGH", UNCHANGED <<reply, opened, pin>>,
           pin = "HIGH" => request' = request
    PROVE  UNCHANGED Promise!vars
  BY DEF Promise!vars, Energised

\* A step that changes only the pin, to another level than "HIGH", closes the
\* door or does not concern it.
LEMMA DoorClosed ==
    ASSUME Module = "HIGH", UNCHANGED <<reply, opened>>, pin' # "HIGH"
    PROVE  [Promise!Next]_(Promise!vars)
  BY DEF Promise!vars, Promise!Next, Promise!Close, Energised

\* The relay is driven for one approved request at a time and once for each:
\* LockDevice with an active-high module implements Door.
THEOREM DoorImplemented == Module = "HIGH" /\ Spec => ImplementsDoor
  <1> SUFFICES ASSUME Module = "HIGH" PROVE Spec => ImplementsDoor
    OBVIOUS
  <1>1. Init => Promise!Init
    BY DEF Init, Promise!Init, Energised
  <1>2. TypeOK /\ RequestInv /\ LevelInv /\ [Next]_vars => [Promise!Next]_(Promise!vars)
    <2> SUFFICES ASSUME TypeOK, RequestInv, LevelInv, [Next]_vars
                 PROVE  [Promise!Next]_(Promise!vars)
      OBVIOUS
    <2> USE DEF messages, task, relay, LevelInv
    <2>0. opened \in [Nonce -> Nat] /\ reply \in [Nonce -> {"unused", "signed", "sent", "UNLOCK", "other"}]
      BY DEF TypeOK
    <2>1. CASE PowerOn \/ InitWatchdog \/ Load
      BY <2>1, DoorClosed DEF PowerOn, InitWatchdog, Load, Start, Done, Off, Opposite, Blank, console
    <2>2. CASE EnsureWifi \/ RoughTime \/ AuthTime \/ OpenCamera
      BY <2>2, DoorUntouched DEF EnsureWifi, RoughTime, AuthTime, AfterNetwork, OpenCamera
    <2>3. CASE Capture \/ Get \/ EndPulse \/ Reject \/ Reset
      BY <2>3, DoorClosed DEF Capture, Get, EndPulse, Reject, Reset, Off, Opposite
    <2>4. CASE Sign
      <3>1. pin # "HIGH" /\ pin' # "HIGH" /\ UNCHANGED opened
        BY <2>4 DEF Sign, Off, Opposite
      <3>2. \A n \in Nonce : reply'[n] = "UNLOCK" <=> reply[n] = "UNLOCK"
        BY <2>0, <2>4 DEF Sign
      <3>3. QED
        BY <3>1, <3>2 DEF Promise!vars, Energised
    <2>5. CASE Send
      <3>1. pin # "HIGH" /\ pin' # "HIGH" /\ UNCHANGED opened
        BY <2>5 DEF Send, Off, Opposite
      <3>2. \A n \in Nonce : reply'[n] = "UNLOCK" <=> reply[n] = "UNLOCK"
        BY <2>0, <2>5 DEF Send, RequestInv
      <3>3. QED
        BY <3>1, <3>2 DEF Promise!vars, Energised
    <2>6. CASE Accept
      <3>0. PICK n \in Nonce : n = request
        BY <2>6 DEF Accept, RequestInv
      <3>1. opened[n] = 0 /\ reply[n] = "UNLOCK" /\ pin # "HIGH"
        BY <2>6, <3>0 DEF Accept, RequestInv
      <3>2. pin' = "HIGH" /\ request' = n /\ reply' = reply /\ opened' = [opened EXCEPT ![n] = @ + 1]
        BY <2>6, <3>0 DEF Accept
      <3>3. \A m \in Nonce : opened'[m] # 0 <=> opened[m] # 0 \/ m = n
        BY <2>0, <3>1, <3>2
      <3>4. Used' = Used \cup {n}
        BY <3>1, <3>3 DEF Used
      <3>5. Promise!Open(n)
        BY <3>1, <3>2, <3>4 DEF Promise!Open, Energised, Used
      <3>6. QED
        BY <3>1, <3>5 DEF Promise!Next
    <2>7. CASE Command("unlock") \/ Command("health") \/ Reconnect
      BY <2>7, DoorClosed DEF Command, Reconnect, Off, Opposite
    <2>8. CASE Set \/ Save \/ Clear
      BY <2>8, DoorUntouched DEF Set, Save, Clear
    <2>9. ASSUME NEW n \in Nonce, ServerAnswers(n) PROVE [Promise!Next]_(Promise!vars)
      <3>1. UNCHANGED <<pin, opened, request>>
        BY <2>9 DEF ServerAnswers
      <3>2. CASE reply' = [reply EXCEPT ![n] = "other"]
        <4>1. \A m \in Nonce : reply'[m] = "UNLOCK" <=> reply[m] = "UNLOCK"
          BY <2>0, <2>9, <3>2 DEF ServerAnswers
        <4>2. QED
          BY <3>1, <4>1 DEF Promise!vars, Energised
      <3>3. CASE reply' = [reply EXCEPT ![n] = "UNLOCK"]
        <4>1. \A m \in Nonce : reply'[m] = "UNLOCK" <=> reply[m] = "UNLOCK" \/ m = n
          BY <2>0, <3>3
        <4>2. Approved' = Approved \cup {n}
          BY <4>1 DEF Approved
        <4>3. Promise!Approve(n)
          BY <2>9, <3>1, <4>2 DEF Promise!Approve, Energised, Approved, ServerAnswers
        <4>4. QED
          BY <4>3 DEF Promise!Next
      <3>4. QED
        BY <2>9, <3>2, <3>3 DEF ServerAnswers
    <2>10. CASE WifiChange \/ SntpUpdate \/ Tick
      BY <2>10, DoorUntouched DEF WifiChange, SntpUpdate, Tick
    <2>11. CASE UNCHANGED vars
      BY <2>11, DoorUntouched DEF vars
    <2>12. QED
      BY <2>1, <2>2, <2>3, <2>4, <2>5, <2>6, <2>7, <2>8, <2>9, <2>10, <2>11
      DEF Next, Task, Console, Around
  <1>3. Module = "HIGH"
    OBVIOUS
  <1>4. QED
    BY <1>1, <1>2, <1>3, TypeCorrect, RequestTracked, LevelKept, PTL
    DEF Spec, ImplementsDoor, Promise!Spec

-----------------------------------------------------------------------------
(* The age and the source of the time when a request is signed.            *)

\* The counter shows the true age until it has made a whole turn.
AgeInv == authAt # Never => age # Never /\ (age = Wrap \/ age = Elapsed(authAt))

\* A bound on the age, unless the counter had turned before.
Within(bound) == age # Never /\ (age = Wrap \/ age < Refresh + bound)

\* Each step of the unlock adds at most Watchdog to the age.
StepInv ==
    /\ pc = "camera" => Within(unfed)
    /\ pc = "frames" => Within(Watchdog + unfed)
    /\ pc = "sign" => Within(2 * Watchdog + unfed)

\* The clock is the last challenge's unless SNTP may have set it since.
SourceInv == age # Never => clock = "challenge" \/ sntp = "running"

ClockInv == AgeInv /\ StepInv /\ SourceInv

\* One tick keeps the relation between the counter and the true age.
LEMMA TickKeepsClockInv ==
    ASSUME TypeOK, ClockInv, Tick
    PROVE  ClockInv'
  <1>1. /\ ms \in Millis /\ authAt \in Millis \cup {Never} /\ age \in 0 .. Wrap \cup {Never}
        /\ unfed \in 0 .. Watchdog
        /\ Wrap \in Nat /\ Wrap > 1 /\ Refresh \in Nat /\ Watchdog \in Nat /\ Never \notin Int
    BY ClockAssumption DEF TypeOK
  <1>2. /\ pc' = pc /\ authAt' = authAt /\ ms' = (ms + 1) % Wrap
        /\ age' = IF age = Never \/ age = Wrap THEN age ELSE age + 1
        /\ pc \in {"camera", "frames", "sign"} => unfed' = unfed + 1
    BY DEF Tick, Blocking, Working
  <1>3. AgeInv'
    <2> SUFFICES ASSUME authAt # Never
                 PROVE  age' # Never /\ (age' = Wrap \/ age' = (ms' - authAt) % Wrap)
      BY <1>2 DEF AgeInv, Elapsed
    <2>1. age # Never /\ (age = Wrap \/ age = (ms - authAt) % Wrap) /\ authAt \in Millis
      BY <1>1 DEF ClockInv, AgeInv, Elapsed
    <2>2. CASE age = Wrap
      BY <1>1, <1>2, <2>2
    <2>3. CASE age # Wrap /\ age < Wrap - 1
      <3>1. (((ms + 1) % Wrap) - authAt) % Wrap = ((ms - authAt) % Wrap) + 1
        BY <1>1, <2>1, <2>3, DifferenceTicks
      <3>2. age' = age + 1 /\ age \in Int
        BY <1>1, <1>2, <2>1, <2>3
      <3>3. QED
        BY <1>1, <1>2, <2>1, <2>3, <3>1, <3>2
    <2>4. CASE age = Wrap - 1
      BY <1>1, <1>2, <2>1, <2>4
    <2>5. QED
      BY <1>1, <2>1, <2>2, <2>3, <2>4
  <1>4. StepInv'
    BY <1>1, <1>2 DEF ClockInv, StepInv, Within
  <1>5. SourceInv'
    BY DEF ClockInv, SourceInv, Tick
  <1>6. QED
    BY <1>3, <1>4, <1>5 DEF ClockInv

\* The prepared network leaves a fresh authenticated time.
LEMMA AuthTimeKeepsClockInv ==
    ASSUME TypeOK, ClockInv, AuthTime
    PROVE  ClockInv'
  <1>1. /\ ms \in Millis /\ age \in 0 .. Wrap \cup {Never}
        /\ Wrap \in Nat /\ Refresh \in 1 .. Wrap - 1 /\ Never \notin Int
    BY ClockAssumption DEF TypeOK
  <1>2. (ms - ms) % Wrap = 0
    <2>1. (ms - ms) % Wrap = IF ms >= ms THEN ms - ms ELSE ms - ms + Wrap
      BY <1>1, Difference
    <2>2. ms \in Int /\ ms - ms = 0
      BY <1>1 DEF Millis
    <2>3. QED
      BY <2>1, <2>2
  <1>3. ms' = ms /\ sntp' = sntp /\ pc' \notin {"frames", "sign"}
    BY DEF AuthTime, AfterNetwork, Continue, Done, time
  <1>4. CASE AuthFresh /\ AfterNetwork /\ UNCHANGED <<clock, authAt, age>>
    <2>1. AgeInv'
      BY <1>3, <1>4 DEF ClockInv, AgeInv, Elapsed
    <2>2. pc' = "camera" => unfed' = 0
      BY <1>4 DEF AfterNetwork, Continue, Done
    <2>3. age # Never /\ (age = Wrap \/ age < Refresh)
      BY <1>4 DEF AuthFresh, ClockInv, AgeInv
    <2>4. QED
      BY <1>1, <1>3, <1>4, <2>1, <2>2, <2>3 DEF ClockInv, StepInv, SourceInv, Within
  <1>5. CASE clock' = "challenge" /\ authAt' = ms /\ age' = 0 /\ AfterNetwork
    <2>1. AgeInv'
      BY <1>1, <1>2, <1>3, <1>5 DEF AgeInv, Elapsed
    <2>2. pc' = "camera" => unfed' = 0
      BY <1>5 DEF AfterNetwork, Continue, Done
    <2>3. QED
      BY <1>1, <1>3, <1>5, <2>1, <2>2 DEF ClockInv, StepInv, SourceInv, Within
  <1>6. CASE authAt' = Never /\ Done /\ UNCHANGED <<clock, age>>
    BY <1>3, <1>6 DEF Done, ClockInv, AgeInv, StepInv, SourceInv
  <1>7. QED
    BY <1>4, <1>5, <1>6 DEF AuthTime

\* A request is signed only after a challenge of this boot, at most Refresh and
\* three steps old unless the counter has made a whole turn, and with the time
\* that challenge set unless this boot runs the SNTP client.
THEOREM SignedWhenFresh == Spec => SignedAfterChallenge
  <1>1. Init => ClockInv
    BY DEF Init, ClockInv, AgeInv, StepInv, SourceInv
  <1>2. TypeOK /\ ClockInv /\ [Next]_vars => ClockInv'
    <2> SUFFICES ASSUME TypeOK, ClockInv, [Next]_vars PROVE ClockInv'
      OBVIOUS
    <2>0. /\ age \in 0 .. Wrap \cup {Never} /\ unfed \in 0 .. Watchdog
          /\ Refresh \in Nat /\ Watchdog \in Nat /\ Never \notin Int /\ Wrap \in Nat
      BY ClockAssumption DEF TypeOK
    <2> USE DEF ClockInv, AgeInv, StepInv, SourceInv, Elapsed, time, task
    <2>1. CASE PowerOn \/ InitWatchdog \/ Load
      BY <2>1 DEF PowerOn, InitWatchdog, Load, Continue, Done, Start
    <2>2. CASE EnsureWifi \/ RoughTime
      BY <2>2 DEF EnsureWifi, RoughTime, Continue, Done
    <2>3. CASE AuthTime
      BY <2>3, AuthTimeKeepsClockInv
    <2>4. CASE OpenCamera
      BY <2>0, <2>4 DEF OpenCamera, Continue, Done, Within
    <2>5. CASE Capture
      BY <2>0, <2>5 DEF Capture, Continue, Done, Within
    <2>6. CASE Sign \/ Send \/ Accept \/ Reject \/ EndPulse \/ Get
      BY <2>6 DEF Sign, Send, Accept, Reject, EndPulse, Get, Continue, Done
    <2>7. CASE Command("unlock") \/ Command("health") \/ Reconnect
      BY <2>7 DEF Command, Reconnect, Start
    <2>8. CASE Set \/ Save \/ Clear
      BY <2>8 DEF Set, Save, Clear, Within
    <2>9. CASE Reset
      BY <2>9 DEF Reset
    <2>10. ASSUME NEW n \in Nonce, ServerAnswers(n) PROVE ClockInv'
      BY <2>10 DEF ServerAnswers, Within
    <2>11. CASE WifiChange \/ SntpUpdate
      BY <2>11 DEF WifiChange, SntpUpdate, Within
    <2>12. CASE Tick
      BY <2>12, TickKeepsClockInv
    <2>13. CASE UNCHANGED vars
      BY <2>13 DEF vars, Within
    <2>14. QED
      BY <2>1, <2>2, <2>3, <2>4, <2>5, <2>6, <2>7, <2>8, <2>9, <2>10, <2>11, <2>12, <2>13
      DEF Next, Task, Console, Around
  <1>3. TypeOK /\ ClockInv /\ [Next]_vars =>
          [pc = "sign" /\ pc' = "send" =>
             /\ Recent \/ age = Wrap
             /\ clock = "challenge" \/ sntp = "running"]_vars
    <2> SUFFICES ASSUME TypeOK, ClockInv, pc = "sign"
                 PROVE  /\ Recent \/ age = Wrap
                        /\ clock = "challenge" \/ sntp = "running"
      OBVIOUS
    <2>1. /\ age \in 0 .. Wrap \cup {Never} /\ unfed \in 0 .. Watchdog
          /\ Refresh \in Nat /\ Watchdog \in Nat /\ Never \notin Int /\ Wrap \in Nat
      BY ClockAssumption DEF TypeOK
    <2>2. age # Never /\ (age = Wrap \/ age < Refresh + 2 * Watchdog + unfed)
      BY <2>1 DEF ClockInv, StepInv, Within
    <2>3. Recent \/ age = Wrap
      BY <2>1, <2>2 DEF Recent
    <2>4. QED
      BY <2>2, <2>3 DEF ClockInv, SourceInv
  <1>4. QED
    BY <1>1, <1>2, <1>3, TypeCorrect, PTL DEF Spec, SignedAfterChallenge
=============================================================================
