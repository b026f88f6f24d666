--------------------------- MODULE WallClockProofs ---------------------------
(***************************************************************************)
(* For any length of a second in ticks and of a minute in seconds, however *)
(* long the steps of update_clock take and whenever the clock is set: the  *)
(* string is that of the time that is, and as it is configured.            *)
(***************************************************************************)
EXTENDS WallClock, TLAPS

-----------------------------------------------------------------------------
(* Seconds and minutes                                                     *)

LEMMA DivMod ==
  ASSUME NEW a \in Nat, NEW n \in Nat \ {0}
  PROVE /\ a \div n \in Nat /\ a % n \in 0..(n - 1)
        /\ a = n * (a \div n) + (a % n)
OBVIOUS

LEMMA DivUnique ==
  ASSUME NEW a \in Nat, NEW n \in Nat \ {0}, NEW q \in Nat, n * q <= a, a < n * q + n
  PROVE a \div n = q
OBVIOUS

LEMMA DivMonotone ==
  ASSUME NEW a \in Nat, NEW b \in Nat, NEW n \in Nat \ {0}, a <= b
  PROVE a \div n <= b \div n
OBVIOUS

\* Up to the start of the next one it is the same minute.
LEMMA SameMinute ==
  ASSUME NEW a \in Nat, NEW b \in Nat, NEW n \in Nat \ {0},
         a <= b, b < a + (n - (a % n))
  PROVE a \div n = b \div n
<1> DEFINE q == a \div n
<1>1. q \in Nat /\ a % n \in 0..(n - 1) /\ a = n * q + (a % n)
  BY DivMod
<1>2. n * q \in Nat /\ n * q <= b /\ b < n * q + n
  BY <1>1
<1>. QED BY <1>1, <1>2, DivUnique

LEMMA SecondIsNat ==
  ASSUME NEW tick \in 0..MaxReal
  PROVE Second(tick) \in Nat /\ Second(tick) <= Second(MaxReal)
BY SourceAssumption, DivMod, DivMonotone DEF Second

LEMMA ExpiryType ==
  ASSUME NEW r \in Readings
  PROVE /\ Expiry(r) \in 1..LastExpiry(SecondsPerMinute)
        /\ r.now \in 0..MaxReal
<1>1. r.now \in 0..MaxReal
  BY DEF Readings
<1>2. Second(r.now) \in Nat /\ Second(r.now) <= Second(MaxReal)
  BY <1>1, SecondIsNat
<1>3. Second(MaxReal) \in Nat
  BY SourceAssumption, SecondIsNat
<1>4. Second(r.now) % SecondsPerMinute \in 0..(SecondsPerMinute - 1)
  BY <1>2, ClockAssumption, DivMod
<1>. QED BY <1>1, <1>2, <1>3, <1>4, ClockAssumption DEF Expiry, LastExpiry

-----------------------------------------------------------------------------
(* The inductive invariant                                                 *)

\* A timer that has not gone off has time left, whoever sets the clock.
TimerInv ==
  pc \in {"check", "show", "idle"} =>
    /\ source.expiry = Expiry(reading)
    /\ ~source.expired => Second(real) < source.expiry

\* Unless the timer was told so, the time is not before the one that was read.
BackwardsInv ==
  pc \in {"show", "idle"} =>
    (source.timerfd /\ ~source.canceled /\ ~source.initially_expired =>
       Second(reading.now) <= Second(real))

\* What was read is what is configured, but for changes not signalled yet.
ConfiguredInv ==
  pc # "finalized" =>
    /\ "settings" \notin notices =>
         /\ reading.seconds = (force_seconds \/ settings.seconds)
         /\ reading.format = settings.format
    /\ "localtime" \notin notices => timezone = localtime
    /\ reading.time_only = time_only /\ reading.zone = timezone

ShownInv == pc = "idle" => clock = reading

\* What is left of the second without a timerfd counts from before the expiry.
LateInv ==
  pc \in {"check", "show", "idle"} /\ ~source.timerfd =>
    IF Due THEN source.late + source.wakeup <= TicksPerSecond ELSE source.late = 0

IInv == TypeOK /\ TimerInv /\ BackwardsInv /\ ConfiguredInv /\ ShownInv /\ LateInv

LEMMA NoSourceType == NoSource \in Sources(SecondsPerMinute)
<1>1. LastExpiry(SecondsPerMinute) \in Nat
  BY SourceAssumption, ClockAssumption, SecondIsNat DEF LastExpiry
<1>. QED BY <1>1, SourceAssumption DEF NoSource, Sources

LEMMA ReadingType ==
  ASSUME real \in 0..MaxReal, settings \in [seconds : BOOLEAN, format : Formats],
         NEW onlyTime \in BOOLEAN, NEW force \in BOOLEAN, NEW zone \in Zones
  PROVE Reading(onlyTime, force, zone) \in Readings
<1>1. (force \/ settings.seconds) \in BOOLEAN
  OBVIOUS
<1>. QED BY <1>1 DEF Reading, Readings

LEMMA InitHolds == Init => IInv
<1> SUFFICES ASSUME Init PROVE IInv
  OBVIOUS
<1>1. reading \in Readings
  BY ReadingType DEF Init
<1>2. TypeOK
  <2>1. /\ real \in 0..MaxReal /\ sets \in 0..MaxSets
        /\ source \in Sources(SecondsPerMinute)
    BY NoSourceType, SourceAssumption DEF Init
  <2>2. reading \in Readings /\ clock \in Readings
    BY <1>1 DEF Init
  <2>. QED BY <2>1, <2>2 DEF Init, TypeOK
<1>3. ConfiguredInv
  BY DEF Init, ConfiguredInv, Reading
<1>. QED BY <1>2, <1>3 DEF Init, IInv, TimerInv, BackwardsInv, ShownInv, LateInv

-----------------------------------------------------------------------------
(* update_clock                                                            *)

\* Whatever makes the clock read the time starts it over.
LEMMA ReadTimeStep ==
  ASSUME IInv, pc = "idle", real' = real,
         settings' = settings, localtime' = localtime, clock' = clock,
         time_only' \in BOOLEAN, force_seconds' \in BOOLEAN, timezone' \in Zones,
         notices' \subseteq notices,
         "localtime" \notin notices' => timezone' = localtime,
         ReadTime(time_only', force_seconds', timezone')
  PROVE IInv'
<1>1. /\ reading' = Reading(time_only', force_seconds', timezone')
      /\ source' = NoSource /\ sets' = sets /\ pc' = "create"
  BY DEF ReadTime
<1>2. reading' \in Readings
  BY <1>1, ReadingType DEF IInv, TypeOK
<1>3. TypeOK'
  BY <1>1, <1>2, NoSourceType DEF IInv, TypeOK
<1>4. ConfiguredInv'
  BY <1>1 DEF ConfiguredInv, Reading
<1>. QED BY <1>1, <1>3, <1>4 DEF IInv, TimerInv, BackwardsInv, ShownInv, LateInv

LEMMA CreateStep ==
  ASSUME IInv, CreateSource
  PROVE IInv'
<1>1. PICK works \in BOOLEAN :
        source' = [timerfd |-> works, expiry |-> Expiry(reading),
                   wakeup |-> IF works THEN 0 ELSE TicksPerSecond,
                   late |-> 0,
                   expired |-> Second(real) >= Expiry(reading),
                   canceled |-> FALSE, initially_expired |-> FALSE]
  BY DEF CreateSource, Create
<1>2. /\ pc = "create" /\ pc' = "check"
      /\ UNCHANGED <<real, sets, settings, localtime, time_only, force_seconds,
                     timezone, notices, reading, clock>>
  BY DEF CreateSource, Create, confVars, propVars
<1>3. Expiry(reading) \in 0..LastExpiry(SecondsPerMinute)
  BY ExpiryType DEF IInv, TypeOK
<1>4. (Second(real) >= Expiry(reading)) \in BOOLEAN
  OBVIOUS
<1>5. source' \in Sources(SecondsPerMinute)
  BY <1>1, <1>3, <1>4, SourceAssumption DEF Sources
<1>6. TypeOK'
  BY <1>2, <1>5 DEF IInv, TypeOK
<1>7. TimerInv'
  <2>1. Second(real) \in Nat
    BY SecondIsNat DEF IInv, TypeOK
  <2>2. /\ source'.expiry = Expiry(reading)
        /\ ~source'.expired => ~(Second(real) >= Expiry(reading))
    BY <1>1
  <2>3. Expiry(reading') = Expiry(reading) /\ Second(real') = Second(real)
    BY <1>2
  <2>. QED BY <1>3, <2>1, <2>2, <2>3 DEF TimerInv
<1>8. LateInv'
  <2>1. source'.late = 0 /\ source'.wakeup \in 0..TicksPerSecond
    BY <1>1, SourceAssumption
  <2>. QED BY <2>1, SourceAssumption DEF LateInv
<1>. QED BY <1>2, <1>6, <1>7, <1>8 DEF IInv, BackwardsInv, ConfiguredInv, ShownInv

LEMMA CheckStep ==
  ASSUME IInv, CheckSource
  PROVE IInv'
<1>1. /\ source' = [source EXCEPT !.initially_expired =
                      source.timerfd /\ Second(real) < Second(reading.now)]
      /\ pc = "check" /\ pc' = "show"
      /\ UNCHANGED <<real, sets, settings, localtime, time_only, force_seconds,
                     timezone, notices, reading, clock>>
  BY DEF CheckSource, CheckBackwards, confVars, propVars
<1>2. source \in Sources(SecondsPerMinute)
  BY DEF IInv, TypeOK
<1>3. (source.timerfd /\ Second(real) < Second(reading.now)) \in BOOLEAN
  OBVIOUS
<1>4. source' \in Sources(SecondsPerMinute)
  BY <1>1, <1>2, <1>3 DEF Sources
<1>5. /\ source'.expiry = source.expiry /\ source'.expired = source.expired
      /\ source'.timerfd = source.timerfd /\ source'.canceled = source.canceled
      /\ source'.late = source.late /\ source'.wakeup = source.wakeup
      /\ source.timerfd /\ Second(real) < Second(reading.now) => source'.initially_expired
  BY <1>1, <1>2 DEF Sources
<1>6. TypeOK'
  BY <1>1, <1>4 DEF IInv, TypeOK
<1>7. TimerInv'
  BY <1>1, <1>5 DEF IInv, TimerInv
<1>8. BackwardsInv'
  <2>1. Second(real) \in Nat /\ Second(reading.now) \in Nat
    BY SecondIsNat, ExpiryType DEF IInv, TypeOK
  <2>2. Second(reading'.now) = Second(reading.now) /\ Second(real') = Second(real)
    BY <1>1
  <2>3. source.timerfd /\ ~source'.initially_expired => Second(reading.now) <= Second(real)
    BY <1>5, <2>1
  <2>. QED BY <1>5, <2>2, <2>3 DEF BackwardsInv
<1>9. LateInv'
  BY <1>1, <1>5 DEF IInv, LateInv, Due, Second
<1>. QED BY <1>1, <1>6, <1>7, <1>8, <1>9 DEF IInv, ConfiguredInv, ShownInv

LEMMA ShowStep ==
  ASSUME IInv, ShowTime
  PROVE IInv'
BY DEF ShowTime, sourceVars, confVars, propVars, IInv, TypeOK, TimerInv, BackwardsInv,
       ConfiguredInv, ShownInv, LateInv, Due

-----------------------------------------------------------------------------
(* What makes it update, and what changes around it                        *)

LEMMA HandlerStep ==
  ASSUME IInv,
         \/ Dispatch \/ OnSchemaChange \/ OnTzChanged \/ Finalize
         \/ \E onlyTime, force \in BOOLEAN : SetProperty(onlyTime, force)
  PROVE IInv'
<1>1. CASE Dispatch
  BY <1>1, ReadTimeStep DEF Dispatch, ReadTime, confVars, propVars, IInv, TypeOK, ConfiguredInv
<1>2. CASE OnSchemaChange
  BY <1>2, ReadTimeStep
     DEF OnSchemaChange, ReadTime, confVars, propVars, IInv, TypeOK, ConfiguredInv
<1>3. CASE OnTzChanged
  BY <1>3, ReadTimeStep DEF OnTzChanged, ReadTime, confVars, propVars, IInv, TypeOK
<1>4. CASE Finalize
  BY <1>4, NoSourceType DEF Finalize, confVars, propVars, IInv, TypeOK, TimerInv, BackwardsInv,
                            ConfiguredInv, ShownInv, LateInv
<1>5. ASSUME NEW onlyTime \in BOOLEAN, NEW force \in BOOLEAN, SetProperty(onlyTime, force)
      PROVE IInv'
  BY <1>5, ReadTimeStep DEF SetProperty, ReadTime, confVars, IInv, TypeOK, ConfiguredInv
<1>. QED BY <1>1, <1>2, <1>3, <1>4, <1>5

LEMMA ConfigurationStep ==
  ASSUME IInv,
         \/ \E new \in [seconds : BOOLEAN, format : Formats] : ChangeSettings(new)
         \/ \E zone \in Zones : ChangeLocaltime(zone)
  PROVE IInv'
BY DEF ChangeSettings, ChangeLocaltime, sourceVars, propVars, IInv, TypeOK, TimerInv,
       BackwardsInv, ConfiguredInv, ShownInv, LateInv, Due

\* Another wakeup puts the next one off, but not when the time has come.
LEMMA WakeUpStep ==
  ASSUME IInv, LoopWakesUp
  PROVE IInv'
<1>1. /\ source' = [source EXCEPT !.wakeup = TicksPerSecond] /\ ~Due
      /\ UNCHANGED <<real, sets, settings, localtime, time_only, force_seconds,
                     timezone, notices, pc, reading, clock>>
  BY DEF LoopWakesUp, Reschedule, confVars, propVars
<1>2. source \in Sources(SecondsPerMinute)
  BY DEF IInv, TypeOK
<1>3. /\ source' \in Sources(SecondsPerMinute)
      /\ source'.expiry = source.expiry /\ source'.expired = source.expired
      /\ source'.timerfd = source.timerfd /\ source'.canceled = source.canceled
      /\ source'.initially_expired = source.initially_expired
      /\ source'.late = source.late
  BY <1>1, <1>2, SourceAssumption DEF Sources
<1>4. TypeOK'
  BY <1>1, <1>3 DEF IInv, TypeOK
<1>5. TimerInv' /\ BackwardsInv'
  BY <1>1, <1>3 DEF IInv, TimerInv, BackwardsInv
<1>6. LateInv'
  BY <1>1, <1>3 DEF IInv, LateInv, Due, Second
<1>. QED BY <1>1, <1>4, <1>5, <1>6 DEF IInv, ConfiguredInv, ShownInv

\* A source that exists does not look like none: it expires after the epoch.
LEMMA TimeStep ==
  ASSUME IInv, Time
  PROVE IInv'
<1>1. UNCHANGED <<settings, localtime, propVars, timezone, notices, pc, reading, clock>>
  BY DEF Time, confVars
<1>2. source \in Sources(SecondsPerMinute)
  BY DEF IInv, TypeOK
<1>3. real' \in 0..MaxReal /\ sets' \in 0..MaxSets
  <2>1. real \in 0..MaxReal /\ sets \in 0..MaxSets
    BY DEF IInv, TypeOK
  <2>2. CASE Tick
    BY <2>1, <2>2, SourceAssumption DEF Tick
  <2>3. ASSUME NEW tick \in 0..MaxReal, SetClock(tick)
        PROVE real' \in 0..MaxReal /\ sets' \in 0..MaxSets
    BY <2>1, <2>3, SourceAssumption DEF SetClock
  <2>. QED BY <2>2, <2>3 DEF Time
<1>4. CASE source = NoSource
  <2>1. source' = NoSource
    BY <1>4 DEF Time, Tick, SetClock
  <2>2. pc \notin {"check", "show", "idle"}
    BY <1>4, ExpiryType DEF IInv, TypeOK, TimerInv, NoSource
  <2>. QED BY <1>1, <1>3, <2>1, <2>2, NoSourceType
           DEF propVars, IInv, TypeOK, TimerInv, BackwardsInv, ConfiguredInv, ShownInv, LateInv
<1>5. CASE source # NoSource
  <2>1. /\ source' \in Sources(SecondsPerMinute)
        /\ source'.expiry = source.expiry /\ source'.timerfd = source.timerfd
        /\ source'.initially_expired = source.initially_expired
        /\ ~source'.expired => ~source.expired /\ ~(Second(real') >= source.expiry)
        /\ \/ source'.canceled = source.canceled /\ real' = real + 1
           \/ source'.canceled = TRUE
    <3>1. CASE Tick
      <4> DEFINE wakeup == IF source.wakeup = 0 THEN 0 ELSE source.wakeup - 1
                 late == IF Sleeps /\ Due /\ source.late < TicksPerSecond
                         THEN source.late + 1 ELSE source.late
      <4>1. /\ real' = real + 1
            /\ source' = [source EXCEPT
                            !.expired = source.expired \/ Second(real') >= source.expiry,
                            !.wakeup = wakeup, !.late = late]
        BY <1>5, <3>1 DEF Tick
      <4>2. /\ wakeup \in 0..TicksPerSecond /\ late \in 0..TicksPerSecond
        BY <1>2, SourceAssumption DEF Sources
      <4>3. (source.expired \/ Second(real') >= source.expiry) \in BOOLEAN
        OBVIOUS
      <4> HIDE DEF wakeup, late
      <4>. QED BY <1>2, <4>1, <4>2, <4>3 DEF Sources
    <3>2. ASSUME NEW tick \in 0..MaxReal, SetClock(tick)
          PROVE /\ source' \in Sources(SecondsPerMinute)
                /\ source'.expiry = source.expiry /\ source'.timerfd = source.timerfd
                /\ source'.initially_expired = source.initially_expired
                /\ ~source'.expired => ~source.expired /\ ~(Second(real') >= source.expiry)
                /\ source'.canceled = TRUE
      <4> DEFINE late == IF Second(real') >= source.expiry THEN source.late ELSE 0
      <4>1. source' = [source EXCEPT
                         !.expired = source.expired \/ Second(real') >= source.expiry,
                         !.canceled = TRUE, !.late = late]
        BY <1>5, <3>2 DEF SetClock
      <4>2. (source.expired \/ Second(real') >= source.expiry) \in BOOLEAN
        OBVIOUS
      <4>3. late \in 0..TicksPerSecond
        BY <1>2, SourceAssumption DEF Sources
      <4> HIDE DEF late
      <4>. QED BY <1>2, <4>1, <4>2, <4>3 DEF Sources
    <3>. QED BY <3>1, <3>2 DEF Time
  <2>2. TypeOK'
    BY <1>1, <1>3, <2>1 DEF propVars, IInv, TypeOK
  <2>3. Second(real') \in Nat /\ Second(real) \in Nat /\ source.expiry \in Nat
    BY <1>2, <1>3, SecondIsNat DEF IInv, TypeOK, Sources
  <2>4. TimerInv'
    BY <1>1, <2>1, <2>3 DEF IInv, TimerInv
  <2>5. BackwardsInv'
    <3>1. real' = real + 1 => Second(real) <= Second(real')
      BY <1>3, SourceAssumption, DivMonotone DEF IInv, TypeOK, Second
    <3>2. Second(reading.now) \in Nat /\ reading' = reading /\ pc' = pc
      BY <1>1, ExpiryType, SecondIsNat DEF IInv, TypeOK
    <3>. QED BY <2>1, <2>3, <3>1, <3>2 DEF IInv, BackwardsInv
  <2>6. ConfiguredInv' /\ ShownInv'
    BY <1>1 DEF propVars, IInv, ConfiguredInv, ShownInv
  <2>7. LateInv'
    <3>1. ASSUME pc \in {"check", "show", "idle"}, ~source.timerfd
          PROVE IF Due' THEN source'.late + source'.wakeup <= TicksPerSecond ELSE source'.late = 0
      <4>1. /\ source.late \in 0..TicksPerSecond /\ source.wakeup \in 0..TicksPerSecond
            /\ Due => source.late + source.wakeup <= TicksPerSecond
            /\ ~Due => source.late = 0
        BY <1>2, <3>1 DEF IInv, LateInv, Sources
      <4>2. (Due <=> Second(real) >= source.expiry) /\ (Due' <=> Second(real') >= source.expiry)
        BY <2>1 DEF Due, Second
      <4>3. CASE Tick
        <5>1. /\ real' = real + 1
              /\ source'.wakeup = IF source.wakeup = 0 THEN 0 ELSE source.wakeup - 1
              /\ source'.late = IF Sleeps /\ Due /\ source.late < TicksPerSecond
                                THEN source.late + 1 ELSE source.late
          BY <1>2, <1>5, <4>3 DEF Tick, Sources
        <5>2. Due => Due'
          <6>1. Second(real) <= Second(real')
            BY <1>3, <5>1, SourceAssumption, DivMonotone DEF IInv, TypeOK, Second
          <6> HIDE DEF Due
          <6>. QED BY <2>3, <4>2, <6>1, Z3
        <5>3. source'.late + source'.wakeup <= TicksPerSecond /\ (~Due => source'.late = 0)
          BY <3>1, <4>1, <5>1, SourceAssumption DEF Sleeps
        <5>. QED BY <5>2, <5>3
      <4>4. ASSUME NEW tick \in 0..MaxReal, SetClock(tick)
            PROVE IF Due' THEN source'.late + source'.wakeup <= TicksPerSecond
                          ELSE source'.late = 0
        <5>1. /\ source'.wakeup = source.wakeup
              /\ source'.late = IF Second(real') >= source.expiry THEN source.late ELSE 0
          BY <1>2, <1>5, <4>4 DEF SetClock, Sources
        <5>. QED BY <4>1, <4>2, <5>1, SourceAssumption
      <4>. QED BY <4>3, <4>4 DEF Time
    <3>. QED BY <1>1, <2>1, <3>1 DEF LateInv
  <2>. QED BY <2>2, <2>4, <2>5, <2>6, <2>7 DEF IInv
<1>. QED BY <1>4, <1>5

-----------------------------------------------------------------------------
LEMMA Inductive == Spec => []IInv
<1>1. IInv /\ [Next]_vars => IInv'
  <2> SUFFICES ASSUME IInv, [Next]_vars PROVE IInv'
    OBVIOUS
  <2>1. CASE Next
    BY <2>1, CreateStep, CheckStep, ShowStep, HandlerStep, ConfigurationStep, WakeUpStep,
       TimeStep DEF Next, UpdateClock
  <2>2. CASE UNCHANGED vars
    BY <2>2 DEF vars, sourceVars, confVars, propVars, IInv, TypeOK, TimerInv, BackwardsInv,
                ConfiguredInv, ShownInv, LateInv, Due
  <2>. QED BY <2>1, <2>2
<1>. QED BY InitHolds, <1>1, PTL DEF Spec

\* The clock's variables have their types.
THEOREM TypeCorrect == Spec => []TypeOK
<1>1. IInv => TypeOK
  BY DEF IInv
<1>. QED BY <1>1, Inductive, PTL

-----------------------------------------------------------------------------
(* When nobody sets the clock                                              *)

\* As long as nobody sets the time it only goes on, and a timer goes off when
\* its second has come and for no other reason.
NeverSetInv ==
  sets = 0 =>
    /\ reading.now <= real
    /\ ~source.canceled /\ ~source.initially_expired
    /\ pc \in {"check", "show", "idle"} /\ source.expired => Second(real) >= source.expiry

LEMMA NeverSetInit == Init => NeverSetInv
<1> SUFFICES ASSUME Init PROVE NeverSetInv
  OBVIOUS
<1>1. reading.now = real /\ real \in Nat
  BY SourceAssumption DEF Init, Reading
<1>2. ~source.canceled /\ ~source.initially_expired /\ pc = "create"
  BY DEF Init, NoSource
<1>. QED BY <1>1, <1>2 DEF NeverSetInv

LEMMA NeverSetStep ==
  ASSUME IInv, NeverSetInv, [Next]_vars, sets' = 0
  PROVE NeverSetInv'
<1>0. /\ sets \in Nat /\ real \in Nat /\ reading.now \in Nat
      /\ source \in Sources(SecondsPerMinute)
  BY ExpiryType, SourceAssumption DEF IInv, TypeOK
<1>1. ASSUME NEW onlyTime, NEW force, NEW zone, ReadTime(onlyTime, force, zone)
      PROVE NeverSetInv'
  BY <1>0, <1>1 DEF ReadTime, Reading, NoSource, NeverSetInv
<1>2. CASE CreateSource
  <2>1. PICK works \in BOOLEAN :
          source' = [timerfd |-> works, expiry |-> Expiry(reading),
                     wakeup |-> IF works THEN 0 ELSE TicksPerSecond,
                     late |-> 0,
                     expired |-> Second(real) >= Expiry(reading),
                     canceled |-> FALSE, initially_expired |-> FALSE]
    BY <1>2 DEF CreateSource, Create
  <2>2. UNCHANGED <<real, sets, reading>>
    BY <1>2 DEF CreateSource, Create
  <2>3. /\ ~source'.canceled /\ ~source'.initially_expired
        /\ source'.expiry = Expiry(reading)
        /\ source'.expired => Second(real) >= Expiry(reading)
    BY <2>1
  <2>4. Second(real') = Second(real)
    BY <2>2
  <2>. QED BY <2>2, <2>3, <2>4 DEF NeverSetInv
<1>3. CASE CheckSource
  <2>1. /\ source' = [source EXCEPT !.initially_expired =
                        source.timerfd /\ Second(real) < Second(reading.now)]
        /\ pc = "check" /\ UNCHANGED <<real, sets, reading>>
    BY <1>3 DEF CheckSource, CheckBackwards
  <2>2. sets = 0 /\ reading.now <= real
    BY <2>1 DEF NeverSetInv
  <2>3. /\ Second(real) \in Nat /\ Second(reading.now) \in Nat
        /\ Second(reading.now) <= Second(real)
    BY <1>0, <2>2, SourceAssumption, DivMod, DivMonotone DEF Second
  <2>4. (source.timerfd /\ Second(real) < Second(reading.now)) = FALSE
    BY <2>3
  <2>5. /\ ~source'.initially_expired /\ source'.canceled = source.canceled
        /\ source'.expiry = source.expiry /\ source'.expired = source.expired
    BY <1>0, <2>1, <2>4 DEF Sources
  <2>6. Second(real') = Second(real)
    BY <2>1
  <2>. QED BY <2>1, <2>2, <2>5, <2>6 DEF NeverSetInv
<1>4. CASE ShowTime
  BY <1>4 DEF ShowTime, sourceVars, NeverSetInv
<1>5. CASE Dispatch \/ OnSchemaChange \/ OnTzChanged
  BY <1>1, <1>5 DEF Dispatch, OnSchemaChange, OnTzChanged
<1>6. ASSUME NEW onlyTime \in BOOLEAN, NEW force \in BOOLEAN, SetProperty(onlyTime, force)
      PROVE NeverSetInv'
  BY <1>1, <1>6 DEF SetProperty
<1>7. CASE Finalize
  BY <1>7 DEF Finalize, NoSource, NeverSetInv
<1>8. CASE \/ \E new \in [seconds : BOOLEAN, format : Formats] : ChangeSettings(new)
           \/ \E zone \in Zones : ChangeLocaltime(zone)
           \/ UNCHANGED vars
  BY <1>8 DEF ChangeSettings, ChangeLocaltime, vars, sourceVars, NeverSetInv
<1>10. CASE LoopWakesUp
  <2>1. /\ source' = [source EXCEPT !.wakeup = TicksPerSecond]
        /\ UNCHANGED <<real, sets, pc, reading>>
    BY <1>10 DEF LoopWakesUp, Reschedule
  <2>2. /\ source'.canceled = source.canceled /\ source'.expiry = source.expiry
        /\ source'.initially_expired = source.initially_expired
        /\ source'.expired = source.expired /\ Second(real') = Second(real)
    BY <1>0, <2>1 DEF Sources
  <2>. QED BY <2>1, <2>2 DEF NeverSetInv
<1>9. CASE Time
  <2>1. UNCHANGED <<pc, reading>>
    BY <1>9 DEF Time
  <2>2. \A tick \in 0..MaxReal : ~SetClock(tick)
    BY <1>0 DEF SetClock
  <2>3. Tick
    BY <1>9, <2>2 DEF Time
  <2>4. sets = 0 /\ real' = real + 1
    BY <2>3 DEF Tick
  <2>5. Second(real) <= Second(real') /\ Second(real) \in Nat /\ Second(real') \in Nat
    BY <1>0, <2>4, SourceAssumption, DivMod, DivMonotone DEF Second
  <2>6. CASE source = NoSource
    <3>1. source' = NoSource
      BY <2>3, <2>6 DEF Tick
    <3>. QED BY <1>0, <2>1, <2>4, <3>1 DEF NoSource, NeverSetInv
  <2>7. CASE source # NoSource
    <3>2. /\ source'.canceled = source.canceled /\ source'.expiry = source.expiry
          /\ source'.initially_expired = source.initially_expired
          /\ source'.expired => source.expired \/ Second(real') >= source.expiry
      BY <1>0, <2>3, <2>7 DEF Tick, Sources
    <3>3. source.expiry \in Nat
      BY <1>0 DEF Sources
    <3>. QED BY <1>0, <2>1, <2>4, <2>5, <3>2, <3>3 DEF NeverSetInv
  <2>. QED BY <2>6, <2>7
<1>. QED BY <1>2, <1>3, <1>4, <1>5, <1>6, <1>7, <1>8, <1>9, <1>10 DEF Next, UpdateClock

LEMMA NeverSet == Spec => []NeverSetInv
<1>1. IInv /\ NeverSetInv /\ IInv' /\ [Next]_vars => NeverSetInv'
  BY NeverSetStep DEF NeverSetInv
<1>. QED BY NeverSetInit, Inductive, <1>1, PTL DEF Spec

-----------------------------------------------------------------------------
(* What an idle clock shows                                                *)

\* From the second that was read up to the expiry it is the same time.
LEMMA CurrentUpToTheExpiry ==
  ASSUME IInv, pc = "idle", ~Due, Second(reading.now) <= Second(real)
  PROVE IsCurrent
<1>1. source \in Sources(SecondsPerMinute) /\ reading \in Readings
  BY DEF IInv, TypeOK
<1>2. Second(real) \in Nat /\ Second(reading.now) \in Nat /\ source.expiry \in Nat
  BY <1>1, ExpiryType, SecondIsNat DEF IInv, TypeOK, Sources
<1>3. clock = reading /\ source.expiry = Expiry(reading) /\ Second(real) < Expiry(reading)
  BY <1>2 DEF IInv, ShownInv, TimerInv, Due
<1>4. CASE reading.seconds
  BY <1>2, <1>3, <1>4 DEF IsCurrent, Same, Expiry
<1>5. CASE ~reading.seconds
  <2>1. Minute(Second(reading.now)) = Minute(Second(real))
    BY <1>2, <1>3, <1>5, SameMinute, ClockAssumption DEF Expiry, Minute
  <2>. QED BY <1>3, <1>5, <2>1 DEF IsCurrent, Same
<1>. QED BY <1>4, <1>5

LEMMA IdleIsCurrent == IInv /\ NeverSetInv => ShownTimeIsCurrent
<1> SUFFICES ASSUME IInv, NeverSetInv, pc = "idle", ~Ready PROVE
      \/ IsCurrent
      \/ /\ ~source.timerfd
         /\ IF Due THEN source.late + source.wakeup <= TicksPerSecond ELSE sets > 0
  BY DEF ShownTimeIsCurrent
<1>1. /\ source \in Sources(SecondsPerMinute) /\ reading.now \in Nat /\ real \in Nat
      /\ sets \in Nat /\ source.expiry \in Nat /\ Second(real) \in Nat
  BY ExpiryType, SecondIsNat, SourceAssumption DEF IInv, TypeOK, Sources
<1>2. CASE source.timerfd
  <2>1. ~source.expired /\ ~source.canceled /\ ~source.initially_expired
    BY <1>2 DEF Ready
  <2>2. ~Due /\ Second(reading.now) <= Second(real)
    BY <1>1, <1>2, <2>1 DEF IInv, TimerInv, BackwardsInv, Due
  <2>. QED BY <2>2, CurrentUpToTheExpiry
<1>3. CASE ~source.timerfd /\ Due
  BY <1>3 DEF IInv, LateInv
<1>4. CASE ~source.timerfd /\ ~Due /\ sets = 0
  <2>1. reading.now <= real
    BY <1>4 DEF NeverSetInv
  <2>2. Second(reading.now) <= Second(real)
    BY <1>1, <2>1, SourceAssumption, DivMonotone DEF Second
  <2>. QED BY <1>4, <2>2, CurrentUpToTheExpiry
<1>5. CASE ~source.timerfd /\ ~Due /\ sets # 0
  BY <1>1, <1>5
<1>. QED BY <1>2, <1>3, <1>4, <1>5

\* An idle clock with nothing to dispatch shows the second or the minute that
\* is, whenever it was set, or without a timerfd one that ended at most a second
\* ago unless the clock was set, and shows it as the settings, its properties
\* and the time zone say once their changes are signalled (update_clock).
THEOREM ClockShowsTheTime == Spec => []ShowsTheTime
<1>1. IInv /\ NeverSetInv => ShowsTheTime
  <2> SUFFICES ASSUME IInv, NeverSetInv PROVE ShowsTheTime
    OBVIOUS
  <2>1. ShownTimeIsCurrent
    BY IdleIsCurrent
  <2>2. ShownAsConfigured
    BY DEF IInv, ShownInv, ConfiguredInv, ShownAsConfigured
  <2>. QED BY <2>1, <2>2 DEF ShowsTheTime
<1>. QED BY <1>1, Inductive, NeverSet, PTL

-----------------------------------------------------------------------------
(* Wakeups                                                                 *)

LEMMA NextMinute ==
  ASSUME NEW a \in Nat, NEW b \in Nat, NEW n \in Nat \ {0}, b >= a + (n - (a % n))
  PROVE a \div n # b \div n
<1> DEFINE q == a \div n
<1>1. q \in Nat /\ a % n \in 0..(n - 1) /\ a = n * q + (a % n)
  BY DivMod
<1>2. n * q \in Nat /\ b >= n * q + n
  BY <1>1
<1>3. b % n \in 0..(n - 1) /\ b = n * (b \div n) + (b % n)
  BY DivMod
<1>4. ASSUME b \div n = q PROVE FALSE
  BY <1>2, <1>3, <1>4
<1>. QED BY <1>4

\* A clock on a timerfd wakes up only when there is another second or minute
\* to show, as long as nobody sets the time: it does not count the seconds of
\* a minute, and it never spins (g_datetime_source_check, update_clock).
THEOREM NoIdleWakeups == Spec => []WakesOnlyToShowAnotherTime
<1>2. IInv /\ NeverSetInv => WakesOnlyToShowAnotherTime
  <2> SUFFICES ASSUME IInv, NeverSetInv, pc = "idle", Ready, sets = 0, source.timerfd
               PROVE ~IsCurrent
    BY DEF WakesOnlyToShowAnotherTime
  <2>1. source.expired /\ clock = reading
    BY DEF Ready, NeverSetInv, IInv, ShownInv
  <2>2. Second(real) >= Expiry(reading)
    BY <2>1 DEF NeverSetInv, IInv, TimerInv
  <2>3. Second(real) \in Nat /\ Second(reading.now) \in Nat
    BY ExpiryType, SecondIsNat DEF IInv, TypeOK
  <2>4. CASE reading.seconds
    BY <2>1, <2>2, <2>3, <2>4 DEF IsCurrent, Same, Expiry
  <2>5. CASE ~reading.seconds
    <3>1. Minute(Second(reading.now)) # Minute(Second(real))
      BY <2>2, <2>3, <2>5, NextMinute, ClockAssumption DEF Expiry, Minute
    <3>. QED BY <2>1, <2>5, <3>1 DEF IsCurrent, Same
  <2>. QED BY <2>4, <2>5
<1>. QED BY Inductive, NeverSet, <1>2, PTL
=============================================================================
