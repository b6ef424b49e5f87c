------------------------- MODULE WifiManagerProofs -------------------------
(***************************************************************************)
(* Proofs about WifiManager: the driver, the dashboard and the clock are   *)
(* as free as in the model; the intervals, the period of the clock and the *)
(* number of requests and of access point failures are arbitrary.          *)
(***************************************************************************)
EXTENDS WifiManager, TLAPS

Times == 0 .. Period - 1

\* Unsigned subtraction, without the modulus.
Diff(a, b) == IF b <= a THEN a - b ELSE a - b + Period
LEMMA SinceIs ==
  ASSUME NEW a \in Times, NEW b \in Times
  PROVE  Since(a, b) = Diff(a, b)
  BY WifiAssumption DEF Since, Diff, Times

\* millis() one unit later.
LEMMA AdvanceIs ==
  ASSUME NEW a \in Times, NEW d \in {0, 1}
  PROVE  (a + d) % Period = IF a + d = Period THEN 0 ELSE a + d
  BY WifiAssumption DEF Times

\* The durations and the clock.
LEMMA Durations ==
  /\ Period \in Nat /\ FallbackAfter \in Nat /\ FallbackAfter >= 1
  /\ FallbackAfter + 4 < Period
  /\ DarkLimit = FallbackAfter + 9
  /\ 0 \in Times /\ 1 \in Times
  BY WifiAssumption DEF DarkLimit, PassTime, Times

-----------------------------------------------------------------------------
(* Type correctness. *)

\* The locals of a pass, by its step.
LEMMA PassFields ==
  ASSUME pass \in Passes
  PROVE  /\ pass.at \in {"copy", "delay", "look", "request", "retry", "fallback",
                         "grace"}
         /\ pass.at \notin {"copy", "delay"} => pass.credentials \in AllCredentials
         /\ pass.at \in {"look", "request"} => pass.requested \in BOOLEAN
         /\ pass.at \in {"request", "retry", "fallback", "grace"} => pass.now \in Times
         /\ pass.at = "request" => pass.connected \in BOOLEAN
  BY DEF Passes, Times

\* The records that the task builds.
LEMMA PassesBuilt ==
  ASSUME NEW c \in AllCredentials, NEW r \in BOOLEAN, NEW n \in Times,
         NEW k \in BOOLEAN
  PROVE  /\ [at |-> "copy"] \in Passes /\ [at |-> "delay"] \in Passes
         /\ [at |-> "look", credentials |-> c, requested |-> r] \in Passes
         /\ [at |-> "request", credentials |-> c, requested |-> r, now |-> n,
             connected |-> k] \in Passes
         /\ \A a \in {"retry", "fallback", "grace"} :
              [at |-> a, credentials |-> c, now |-> n] \in Passes
  BY DEF Passes, Times

\* The clock has moved by at most a unit.
LEMMA ClockType ==
  ASSUME clock \in Times, NEW d \in {0, 1}, Advance(d)
  PROVE  /\ clock' \in Times
         /\ clock' = IF clock + d = Period THEN 0 ELSE clock + d
<1>1. clock' = IF clock + d = Period THEN 0 ELSE clock + d
  BY AdvanceIs DEF Advance
<1> QED
  BY <1>1, Durations DEF Times

\* The history of the dark time.
LEMMA DarknessEffect ==
  ASSUME dark \in Nat, NEW d \in {0, 1}, Darkness(d)
  PROVE  /\ dark' \in Nat /\ dark' <= dark + d
         /\ link' = "up" \/ apActive' \/ apFailures' # apFailures => dark' = 0
  BY DEF Darkness

\* softAP(): opened, or one more failure; never closed.
LEMMA FallbackApEffect ==
  ASSUME apActive \in BOOLEAN, apFailures \in 0 .. MaxApFailures, StartFallbackAp
  PROVE  /\ apActive' \in BOOLEAN /\ apFailures' \in 0 .. MaxApFailures
         /\ apActive' \/ apFailures' # apFailures
<1>1. CASE ~apActive /\ apFailures < MaxApFailures
           /\ apFailures' = apFailures + 1 /\ UNCHANGED apActive
  <2>1. apFailures' \in 0 .. MaxApFailures /\ apFailures' # apFailures
    BY <1>1, WifiAssumption
  <2> QED
    BY <1>1, <2>1
<1>2. CASE apActive' = TRUE /\ UNCHANGED apFailures
  BY <1>2
<1> QED
  BY <1>1, <1>2 DEF StartFallbackAp

\* beginSta(), or nothing: what either does to the manager and the driver.
LEMMA StaEffect ==
  ASSUME WifiTypeOK, clock' \in Times, NEW c \in AllCredentials, NEW since \in Times,
         BeginSta(c, since) \/ LeaveSta(since)
  PROVE  /\ lastReconnect' \in Times /\ disconnectedSince' \in Times
         /\ reconnecting' \in BOOLEAN /\ apActive' \in BOOLEAN
         /\ apFailures' \in 0 .. MaxApFailures
         /\ link' \in {"down", "joining", "up"} /\ target' \in AllCredentials
         /\ disconnectedSince' = since \/ (since = 0 /\ disconnectedSince' = clock')
<1>0. /\ apActive \in BOOLEAN /\ apFailures \in 0 .. MaxApFailures
      /\ reconnecting \in BOOLEAN /\ lastReconnect \in Times
      /\ link \in {"down", "joining", "up"} /\ target \in AllCredentials
  BY Zenon DEF WifiTypeOK, Times
<1>1. CASE LeaveSta(since)
  BY <1>0, <1>1 DEF LeaveSta, driver
<1>2. CASE BeginSta(c, since) /\ c = NoCredentials
  <2>1. /\ lastReconnect' = clock' /\ target' = c /\ link' = "down"
        /\ reconnecting' = FALSE /\ StartFallbackAp /\ disconnectedSince' = since
    BY <1>2 DEF BeginSta
  <2>2. apActive' \in BOOLEAN /\ apFailures' \in 0 .. MaxApFailures
    BY <1>0, <2>1, FallbackApEffect
  <2>3. reconnecting' \in BOOLEAN
    BY <2>1
  <2> QED
    BY <2>1, <2>2, <2>3, Zenon
<1>3. CASE BeginSta(c, since) /\ c # NoCredentials
  <2>1. /\ lastReconnect' = clock' /\ target' = c /\ link' = "joining"
        /\ reconnecting' = TRUE /\ UNCHANGED <<apActive, apFailures>>
        /\ disconnectedSince' = IF since = 0 THEN clock' ELSE since
    BY <1>3 DEF BeginSta
  <2>2. reconnecting' \in BOOLEAN
    BY <2>1
  <2> QED
    BY <1>0, <2>1, <2>2
<1> QED
  BY <1>1, <1>2, <1>3

\* A mark is a time.
LEMMA MarkType ==
  ASSUME disconnectedSince \in Times, pass.now \in Times
  PROVE  DisconnectedMark \in Times
  BY DEF DisconnectedMark

\* As begin() leaves the manager.
LEMMA WifiTypeInit == WifiInit => WifiTypeOK
<1> SUFFICES ASSUME WifiInit PROVE WifiTypeOK
  OBVIOUS
<1>1. clock \in Times /\ disconnectedSince \in Times /\ connectedSince \in Times
  BY Durations DEF WifiInit
<1>2. lastReconnect \in Times
  BY Durations, Zenon DEF WifiInit
<1>3. pass \in Passes
  BY DEF WifiInit, Passes
<1>4. apActive \in BOOLEAN
  BY Zenon DEF WifiInit
<1>5. reconnecting \in BOOLEAN /\ reconnectRequested \in BOOLEAN /\ wasConnected \in BOOLEAN
  BY Zenon DEF WifiInit
<1>6. link \in {"down", "joining", "up"} /\ target \in AllCredentials
      /\ saved \in AllCredentials
  BY DEF WifiInit
<1>7. dark \in Nat /\ requests \in 0 .. MaxRequests /\ apFailures \in 0 .. MaxApFailures
  BY WifiAssumption DEF WifiInit
<1> QED
  BY <1>1, <1>2, <1>3, <1>4, <1>5, <1>6, <1>7, Zenon DEF WifiTypeOK, Times

\* The steps of a pass that leave clock, driver and access point alone.
LEMMA QuietPassType ==
  ASSUME WifiTypeOK, CopyConfig \/ Look \/ Grace
  PROVE  WifiTypeOK'
<1>0. /\ pass \in Passes /\ clock \in Times /\ saved \in AllCredentials
      /\ reconnectRequested \in BOOLEAN /\ apActive \in BOOLEAN
      /\ reconnecting \in BOOLEAN /\ wasConnected \in BOOLEAN
      /\ disconnectedSince \in Times /\ connectedSince \in Times
      /\ lastReconnect \in Times
  BY Zenon DEF WifiTypeOK, Times
<1>1. CASE CopyConfig
  <2>1. /\ pass' = [at |-> "look", credentials |-> saved, requested |-> reconnectRequested]
        /\ reconnectRequested' = FALSE
        /\ UNCHANGED <<clock, saved, apActive, reconnecting, disconnectedSince,
                       connectedSince, lastReconnect, wasConnected, link, target, dark,
                       requests, apFailures>>
    BY <1>1 DEF CopyConfig, timers, driver
  <2>2. pass' \in Passes
    BY <1>0, <2>1, PassesBuilt
  <2>3. reconnectRequested' \in BOOLEAN
    BY <2>1
  <2> QED
    BY <2>1, <2>2, <2>3 DEF WifiTypeOK
<1>2. CASE Look
  <2>0. pass.at = "look" /\ pass.credentials \in AllCredentials /\ pass.requested \in BOOLEAN
    BY <1>0, <1>2, PassFields DEF Look
  <2>1. /\ pass' = [at |-> "request", credentials |-> pass.credentials,
                    requested |-> pass.requested, now |-> clock,
                    connected |-> (link = "up")]
        /\ wasConnected' = (link = "up")
        /\ UNCHANGED <<clock, saved, reconnectRequested, apActive, lastReconnect,
                       link, target, dark, requests, apFailures>>
    BY <1>2 DEF Look, driver
  <2>2. pass' \in Passes
    BY <1>0, <2>0, <2>1, PassesBuilt
  <2>3. disconnectedSince' \in Times
    BY <1>0, <1>2, Zenon DEF Look
  <2>4. connectedSince' \in Times
    BY <1>0, <1>2, Zenon DEF Look
  <2>5. wasConnected' \in BOOLEAN
    BY <2>1, Zenon
  <2>6. reconnecting' \in BOOLEAN
    BY <1>0, <1>2, Zenon DEF Look
  <2> QED
    BY <2>1, <2>2, <2>3, <2>4, <2>5, <2>6 DEF WifiTypeOK, Times
<1>3. CASE Grace
  <2>1. /\ pass' = [at |-> "delay"] /\ disconnectedSince' = 0
        /\ UNCHANGED <<clock, saved, reconnectRequested, reconnecting, connectedSince,
                       lastReconnect, wasConnected, link, target, dark, requests,
                       apFailures>>
    BY <1>3 DEF Grace, driver
  <2>2. pass' \in Passes
    BY <2>1 DEF Passes
  <2>3. apActive' \in BOOLEAN
    BY <1>0, <1>3, Zenon DEF Grace, StopFallbackAp
  <2>4. disconnectedSince' \in Times
    BY <2>1, Durations
  <2> QED
    BY <2>1, <2>2, <2>3, <2>4 DEF WifiTypeOK, Times
<1> QED
  BY <1>1, <1>2, <1>3

\* The steps of a pass that may take time.
LEMMA TimedPassType ==
  ASSUME WifiTypeOK, NEW d \in {0, 1}, ServeRequest(d) \/ Retry(d)
  PROVE  WifiTypeOK'
<1>0. /\ pass \in Passes /\ clock \in Times /\ disconnectedSince \in Times
      /\ dark \in Nat
  BY Zenon DEF WifiTypeOK, Times
<1>1. /\ Advance(d) /\ Darkness(d)
      /\ pass.at \in {"request", "retry"}
      /\ UNCHANGED <<saved, reconnectRequested, connectedSince, wasConnected, requests>>
  BY DEF ServeRequest, Retry
<1>2. /\ pass.credentials \in AllCredentials /\ pass.now \in Times
      /\ clock' \in Times /\ dark' \in Nat
  BY <1>0, <1>1, PassFields, ClockType, DarknessEffect
<1>3. PICK since \in Times : BeginSta(pass.credentials, since) \/ LeaveSta(since)
  <2>1. CASE ServeRequest(d)
    BY <1>0, <2>1 DEF ServeRequest
  <2>2. CASE Retry(d)
    BY <1>0, <1>2, <2>2, MarkType DEF Retry
  <2> QED
    BY <2>1, <2>2
<1>4. /\ lastReconnect' \in Times /\ disconnectedSince' \in Times
      /\ reconnecting' \in BOOLEAN /\ apActive' \in BOOLEAN
      /\ apFailures' \in 0 .. MaxApFailures
      /\ link' \in {"down", "joining", "up"} /\ target' \in AllCredentials
  BY <1>2, <1>3, StaEffect
<1>5. pass' \in Passes
  <2>1. CASE ServeRequest(d)
    BY <1>2, <2>1, PassesBuilt DEF ServeRequest
  <2>2. CASE Retry(d)
    <3>1. pass.at = "retry" /\ pass' = [pass EXCEPT !.at = "fallback"]
      BY <2>2 DEF Retry
    <3> QED
      BY <1>0, <3>1 DEF Passes
  <2> QED
    BY <2>1, <2>2
<1> QED
  BY <1>1, <1>2, <1>4, <1>5 DEF WifiTypeOK, Times

\* The fallback, the delay, the dashboard and the driver.
LEMMA OtherType ==
  ASSUME WifiTypeOK,
         \/ Fallback \/ Delay
         \/ \E c \in AllCredentials : HandleWifi(c)
         \/ RequestReconnect \/ Joined \/ JoinFails \/ LinkLost
  PROVE  WifiTypeOK'
<1>0. /\ clock \in Times /\ dark \in Nat
      /\ apActive \in BOOLEAN /\ apFailures \in 0 .. MaxApFailures
      /\ requests \in 0 .. MaxRequests
      /\ [at |-> "copy"] \in Passes /\ [at |-> "delay"] \in Passes
      /\ 0 \in {0, 1} /\ 1 \in {0, 1}
  BY DEF WifiTypeOK, Times, Passes
<1>1. CASE Fallback
  <2>1. /\ pass' = [at |-> "delay"] /\ Darkness(0)
        /\ UNCHANGED <<clock, saved, reconnectRequested, reconnecting, disconnectedSince,
                       connectedSince, lastReconnect, wasConnected, link, target, requests>>
        /\ StartFallbackAp \/ UNCHANGED <<apActive, apFailures>>
    BY <1>1 DEF Fallback, timers, driver
  <2>2. apActive' \in BOOLEAN /\ apFailures' \in 0 .. MaxApFailures
    BY <1>0, <2>1, FallbackApEffect
  <2>3. dark' \in Nat
    BY <1>0, <2>1, DarknessEffect
  <2>4. pass' \in Passes
    BY <1>0, <2>1
  <2> QED
    BY <2>1, <2>2, <2>3, <2>4 DEF WifiTypeOK
<1>2. CASE Delay
  <2>1. /\ pass' = [at |-> "copy"] /\ Darkness(1) /\ Advance(1)
        /\ UNCHANGED <<saved, reconnectRequested, reconnecting, disconnectedSince,
                       connectedSince, lastReconnect, wasConnected, link, target, requests,
                       apActive, apFailures>>
    BY <1>2 DEF Delay, timers, driver
  <2>2. dark' \in Nat /\ clock' \in Times
    BY <1>0, <2>1, DarknessEffect, ClockType
  <2>3. pass' \in Passes
    BY <1>0, <2>1
  <2> QED
    BY <2>1, <2>2, <2>3 DEF WifiTypeOK, Times
<1>3. CASE \E c \in AllCredentials : HandleWifi(c)
  <2>1. /\ saved' \in AllCredentials /\ reconnectRequested' = TRUE
        /\ UNCHANGED <<clock, apActive, reconnecting, disconnectedSince, connectedSince,
                       lastReconnect, wasConnected, pass, link, target, dark, apFailures>>
    BY <1>3 DEF HandleWifi, timers, driver
  <2>2. requests' \in 0 .. MaxRequests
    BY <1>0, <1>3, WifiAssumption DEF HandleWifi
  <2>3. reconnectRequested' \in BOOLEAN
    BY <2>1
  <2> QED
    BY <2>1, <2>2, <2>3 DEF WifiTypeOK
<1>4. CASE RequestReconnect
  <2>1. /\ reconnectRequested' = TRUE
        /\ UNCHANGED <<clock, saved, apActive, reconnecting, disconnectedSince,
                       connectedSince, lastReconnect, wasConnected, pass, link, target,
                       dark, requests, apFailures>>
    BY <1>4 DEF RequestReconnect, timers, driver
  <2>2. reconnectRequested' \in BOOLEAN
    BY <2>1
  <2> QED
    BY <2>1, <2>2 DEF WifiTypeOK
<1>5. CASE Joined \/ JoinFails \/ LinkLost
  <2>1. /\ link' \in {"up", "down"} /\ dark' \in {0, dark}
        /\ UNCHANGED <<clock, saved, reconnectRequested, apActive, reconnecting,
                       disconnectedSince, connectedSince, lastReconnect, wasConnected, pass,
                       target, requests, apFailures>>
    BY <1>5 DEF Joined, JoinFails, LinkLost, DriverBecomes, timers
  <2> QED
    BY <1>0, <2>1 DEF WifiTypeOK
<1> QED
  BY <1>1, <1>2, <1>3, <1>4, <1>5

\* Every step keeps the types.
LEMMA WifiTypeStep == WifiTypeOK /\ [WifiNext]_wifiVars => WifiTypeOK'
<1> SUFFICES ASSUME WifiTypeOK, [WifiNext]_wifiVars PROVE WifiTypeOK'
  OBVIOUS
<1>1. CASE UNCHANGED wifiVars
  BY <1>1 DEF WifiTypeOK, wifiVars, timers, driver
<1>2. CASE WifiNext
  BY <1>2, QuietPassType, TimedPassType, OtherType DEF WifiNext, PassStep
<1> QED
  BY <1>1, <1>2

-----------------------------------------------------------------------------
(* The network that is joined. *)

\* The first pass has a request to serve.
LEMMA JoinInit == WifiInit => JoinInv
  BY DEF WifiInit, JoinInv

\* BeginSta() tells the driver the credentials that the pass has copied.
LEMMA JoinStep == WifiTypeOK /\ JoinInv /\ [WifiNext]_wifiVars => JoinInv'
<1> SUFFICES ASSUME WifiTypeOK, JoinInv, [WifiNext]_wifiVars, ~reconnectRequested'
             PROVE  /\ pass'.at \notin {"copy", "delay"} => pass'.credentials = saved'
                    /\ \/ pass'.at \in {"look", "request"} /\ pass'.requested
                       \/ link' = "down" \/ target' = saved'
  BY DEF JoinInv
<1>0. pass \in Passes
  BY DEF WifiTypeOK
<1>1. CASE UNCHANGED wifiVars
  BY <1>1 DEF JoinInv, wifiVars, driver
<1>2. CASE CopyConfig
  BY <1>2 DEF JoinInv, CopyConfig, driver
<1>3. CASE Look
  BY <1>3 DEF JoinInv, Look, driver
<1>4. CASE \E d \in {0, 1} : ServeRequest(d)
  <2>1. /\ pass.at = "request" /\ UNCHANGED <<saved, reconnectRequested>>
        /\ pass'.credentials = pass.credentials
    BY <1>4 DEF ServeRequest
  <2>2. CASE pass.requested
    BY <1>4, <2>1, <2>2 DEF JoinInv, ServeRequest, BeginSta
  <2>3. CASE ~pass.requested
    BY <1>4, <2>1, <2>3 DEF JoinInv, ServeRequest, LeaveSta, driver
  <2> QED
    BY <2>2, <2>3
<1>5. CASE \E d \in {0, 1} : Retry(d)
  <2>1. /\ pass.at = "retry" /\ UNCHANGED <<saved, reconnectRequested>>
        /\ pass' = [pass EXCEPT !.at = "fallback"]
        /\ \E since : BeginSta(pass.credentials, since) \/ LeaveSta(since)
    BY <1>5 DEF Retry
  <2>2. pass'.at = "fallback" /\ pass'.credentials = pass.credentials
    BY <1>0, <2>1 DEF Passes
  <2> QED
    BY <2>1, <2>2 DEF JoinInv, BeginSta, LeaveSta, driver
<1>6. CASE Fallback \/ Grace \/ Delay
  BY <1>6 DEF JoinInv, Fallback, Grace, Delay, driver
<1>7. CASE (\E c \in AllCredentials : HandleWifi(c)) \/ RequestReconnect
  BY <1>7 DEF HandleWifi, RequestReconnect
<1>8. CASE Joined \/ JoinFails \/ LinkLost
  BY <1>8 DEF JoinInv, Joined, JoinFails, LinkLost, DriverBecomes
<1> QED
  BY <1>1, <1>2, <1>3, <1>4, <1>5, <1>6, <1>7, <1>8 DEF WifiNext, PassStep

-----------------------------------------------------------------------------
(* The time without link and access point. *)

\* What the steps below use of the types.
LEMMA DarkTypes ==
  ASSUME WifiTypeOK
  PROVE  /\ clock \in Times /\ disconnectedSince \in Times /\ dark \in Nat
         /\ wasConnected \in BOOLEAN /\ pass \in Passes
         /\ pass.at \in {"request", "retry", "fallback", "grace"} => pass.now \in Times
         /\ apActive \in BOOLEAN /\ apFailures \in 0 .. MaxApFailures
  BY PassFields, Zenon DEF WifiTypeOK, Times

\* begin() has marked the time it started.
LEMMA DarkInit == WifiInit => DarkInv
<1> SUFFICES ASSUME WifiInit PROVE DarkInv
  OBVIOUS
<1>1. /\ clock = 1 /\ disconnectedSince = 1 /\ dark = 0 /\ wasConnected = FALSE
      /\ pass.at = "copy" /\ link # "up"
  BY DEF WifiInit
<1>2. BetweenPasses(1)
  BY <1>1, Durations DEF BetweenPasses
<1> QED
  BY <1>1, <1>2 DEF DarkInv

\* The bounds are upper bounds: less dark time keeps them.
LEMMA DarkLess ==
  ASSUME WifiTypeOK, DarkInv, dark' \in Nat, dark' <= dark,
         UNCHANGED <<clock, disconnectedSince, wasConnected, pass>>,
         link' = "up" => dark' = 0
  PROVE  DarkInv'
<1>0. /\ clock \in Times /\ disconnectedSince \in Times /\ dark \in Nat
      /\ pass.at \in {"request", "retry", "fallback", "grace"} => pass.now \in Times
  BY DarkTypes
<1>1. \A age \in {0, 1} : BetweenPasses(age) => BetweenPasses(age)'
  <2> SUFFICES ASSUME NEW age \in {0, 1}, BetweenPasses(age) PROVE BetweenPasses(age)'
    OBVIOUS
  <2>1. Elapsed = Diff(clock, disconnectedSince) /\ Elapsed' = Elapsed
    BY <1>0, SinceIs DEF Elapsed
  <2> QED
    BY <1>0, <2>1, Durations DEF BetweenPasses, Diff, Times
<1>2. \A late \in {0, 1, 2} :
        pass.now \in Times /\ WithinPass(late) => WithinPass(late)'
  <2> SUFFICES ASSUME NEW late \in {0, 1, 2}, pass.now \in Times, WithinPass(late)
               PROVE  WithinPass(late)'
    OBVIOUS
  <2>1. /\ Since(clock, pass.now) = Diff(clock, pass.now)
        /\ Since(pass.now, disconnectedSince) = Diff(pass.now, disconnectedSince)
    BY <1>0, SinceIs
  <2>2. Since(clock, pass.now) \in Int /\ Since(pass.now, disconnectedSince) \in Int
    BY <1>0, <2>1, Durations DEF Diff, Times
  <2> QED
    BY <1>0, <2>2, Durations DEF WithinPass, Times
<1>3. Elapsed' = Elapsed
  BY DEF Elapsed
<1> QED
  BY <1>0, <1>1, <1>2, <1>3 DEF DarkInv

\* Copying takes no time; Look notices the loss and marks it.
LEMMA LookDark ==
  ASSUME WifiTypeOK, DarkInv, CopyConfig \/ Look
  PROVE  DarkInv'
<1>0. clock \in Times /\ disconnectedSince \in Times /\ dark \in Nat
  BY DarkTypes
<1>1. CASE CopyConfig
  <2>1. /\ pass.at = "copy" /\ pass'.at = "look"
        /\ UNCHANGED <<clock, disconnectedSince, wasConnected, dark, link>>
    BY <1>1 DEF CopyConfig, timers, driver
  <2>2. BetweenPasses(1)'
    BY <2>1 DEF DarkInv, BetweenPasses, Elapsed
  <2> QED
    BY <2>1, <2>2 DEF DarkInv
<1>2. CASE Look
  <2>1. /\ pass.at = "look" /\ pass'.at = "request" /\ pass'.now = clock
        /\ pass'.connected = (link = "up") /\ wasConnected' = (link = "up")
        /\ disconnectedSince' = IF ~(link = "up") /\ wasConnected THEN clock
                                ELSE disconnectedSince
        /\ UNCHANGED <<clock, dark, link>>
    BY <1>2 DEF Look, driver
  <2>2. BetweenPasses(1)
    BY <2>1 DEF DarkInv
  <2>3. CASE link = "up"
    BY <2>1, <2>3 DEF DarkInv
  <2>4. CASE link # "up" /\ wasConnected
    <3>1. dark <= 2 /\ disconnectedSince' = clock
      BY <2>1, <2>2, <2>4 DEF BetweenPasses
    <3>2. Since(clock, clock) = 0
      <4>1. Since(clock, clock) = Diff(clock, clock)
        BY <1>0, SinceIs
      <4> QED
        BY <1>0, <4>1, Durations DEF Diff, Times
    <3>3. WithinPass(0)'
      BY <1>0, <2>1, <3>1, <3>2, Durations DEF WithinPass, Times
    <3> QED
      BY <2>1, <2>4, <3>3 DEF DarkInv
  <2>5. CASE link # "up" /\ ~wasConnected
    <3>1. disconnectedSince' = disconnectedSince
      BY <2>1, <2>5
    <3>2. Since(clock, clock) = 0 /\ Since(clock, disconnectedSince) \in Nat
      <4>1. /\ Since(clock, clock) = Diff(clock, clock)
            /\ Since(clock, disconnectedSince) = Diff(clock, disconnectedSince)
        BY <1>0, SinceIs
      <4> QED
        BY <1>0, <4>1, Durations DEF Diff, Times
    <3>3. WithinPass(0)'
      BY <1>0, <2>1, <2>2, <2>5, <3>1, <3>2, Durations
         DEF WithinPass, BetweenPasses, Elapsed, Times
    <3> QED
      BY <2>1, <2>5, <3>3 DEF DarkInv
  <2> QED
    BY <2>3, <2>4, <2>5
<1> QED
  BY <1>1, <1>2

(***************************************************************************)
(* A step within a pass: the time it takes counts as late, and it may move *)
(* a missing mark to the beginning of the pass or to the present.          *)
(***************************************************************************)
LEMMA LateStep ==
  ASSUME WifiTypeOK, WifiTypeOK', NEW late \in {0, 1}, NEW d \in {0, 1},
         WithinPass(late), pass.now \in Times, pass'.now = pass.now,
         clock' = (IF clock + d = Period THEN 0 ELSE clock + d),
         dark' <= dark + d,
         \/ disconnectedSince' = disconnectedSince
         \/ disconnectedSince = 0 /\ disconnectedSince' \in {pass.now, clock'}
  PROVE  WithinPass(late + 1)'
<1> DEFINE n == pass.now
           used == Since(clock, n)
           m == disconnectedSince
<1>0. /\ clock \in Times /\ m \in Times /\ n \in Times
      /\ dark \in Nat /\ clock' \in Times /\ m' \in Times /\ dark' \in Nat
  BY DarkTypes DEF WifiTypeOK, Times
<1>a. /\ used = Diff(clock, n) /\ Since(clock', n) = Diff(clock', n)
      /\ Since(n, m) = Diff(n, m) /\ Since(n, m') = Diff(n, m')
  BY <1>0, SinceIs
<1>b. used <= late
  BY DEF WithinPass
<1>c. used \in 0 .. 1
  <2>1. Diff(clock, n) \in Nat
    BY <1>0, Durations DEF Diff, Times
  <2> HIDE DEF used
  <2> QED
    BY <1>a, <1>b, <2>1
<1>d. clock = n + used \/ clock = n + used - Period
  BY <1>0, <1>a, Durations DEF Diff, Times
<1>e. Diff(clock', n) = used + d
  <2>1. CASE d = 0
    <3>1. clock' = clock
      BY <1>0, <2>1, Durations DEF Times
    <3> QED
      BY <1>0, <1>a, <1>c, <2>1, <3>1
  <2>2. CASE d = 1
    <3>1. clock' = clock + 1 \/ (clock + 1 = Period /\ clock' = 0)
      BY <1>0, <2>2, Durations DEF Times
    <3> QED
      BY <1>0, <1>c, <1>d, <2>2, <3>1, Durations DEF Diff, Times
  <2> QED
    BY <2>1, <2>2
<1>1. /\ used \in 0 .. 1 /\ used <= late
      /\ Since(clock', n) = used + d
  BY <1>a, <1>b, <1>c, <1>e
<1>2. dark' <= FallbackAfter + 7 + (used + d)
  BY <1>0, <1>1, Durations DEF WithinPass
<1>3. CASE m' = m
  <2>1. IF m' = 0 THEN n <= 3 /\ dark' <= n + 2 + (used + d)
        ELSE \/ Since(n, m') >= FallbackAfter
             \/ dark' <= Since(n, m') + 5 + (used + d)
    <3>1. Since(n, m) \in Nat
      BY <1>0, <1>a, Durations DEF Diff, Times
    <3> QED
      BY <1>0, <1>1, <1>3, <3>1, Durations DEF WithinPass, Times
  <2> QED
    BY <1>0, <1>1, <1>2, <2>1 DEF WithinPass
<1>4. CASE m = 0 /\ m' \in {n, clock'}
  <2>1. n <= 3 /\ dark <= n + 2 + used
    BY <1>4 DEF WithinPass
  <2>2. clock' = n + used + d
    BY <1>0, <1>1, <1>a, <2>1, Durations DEF Diff, Times
  <2>3. \/ m' = n /\ Since(n, m') = 0
        \/ m' # n /\ m' = n + used + d /\ Since(n, m') >= FallbackAfter
    BY <1>0, <1>1, <1>4, <1>a, <2>1, <2>2, Durations DEF Diff, Times
  <2>4. IF m' = 0 THEN n <= 3 /\ dark' <= n + 2 + (used + d)
        ELSE \/ Since(n, m') >= FallbackAfter
             \/ dark' <= Since(n, m') + 5 + (used + d)
    BY <1>0, <1>1, <2>1, <2>3, Durations DEF Times
  <2> QED
    BY <1>0, <1>1, <1>2, <2>4 DEF WithinPass
<1> QED
  BY <1>3, <1>4

\* The request and the retry: each takes a unit at most.
LEMMA TimedPassDark ==
  ASSUME WifiTypeOK, WifiTypeOK', DarkInv, NEW d \in {0, 1}, ServeRequest(d) \/ Retry(d)
  PROVE  DarkInv'
<1>0. /\ clock \in Times /\ disconnectedSince \in Times /\ dark \in Nat
      /\ pass \in Passes /\ clock' \in Times /\ dark' \in Nat
  BY DarkTypes DEF WifiTypeOK, Times
<1>1. /\ Advance(d) /\ Darkness(d) /\ pass.at \in {"request", "retry"}
      /\ pass.now \in Times /\ pass.credentials \in AllCredentials
      /\ UNCHANGED wasConnected
  BY <1>0, PassFields DEF ServeRequest, Retry
<1>2. /\ clock' = (IF clock + d = Period THEN 0 ELSE clock + d)
      /\ dark' <= dark + d /\ (link' = "up" => dark' = 0)
  BY <1>0, <1>1, ClockType, DarknessEffect
<1>3. CASE ServeRequest(d)
  <2>1. /\ pass.at = "request" /\ pass'.now = pass.now
        /\ pass'.at = IF pass.connected THEN "grace" ELSE "retry"
    BY <1>3 DEF ServeRequest
  <2>2. wasConnected = pass.connected
    BY <2>1 DEF DarkInv
  <2>3. CASE pass.connected
    BY <1>0, <1>1, <1>2, <2>1, <2>2, <2>3 DEF DarkInv
  <2>4. CASE ~pass.connected
    <3>1. \/ disconnectedSince' = disconnectedSince
          \/ disconnectedSince = 0 /\ disconnectedSince' = clock'
      BY <1>0, <1>1, <1>3, StaEffect DEF ServeRequest
    <3>2. WithinPass(0)
      BY <2>1, <2>2, <2>4 DEF DarkInv
    <3>3. WithinPass(0 + 1)'
      BY <1>1, <1>2, <2>1, <3>1, <3>2, LateStep
    <3> QED
      BY <1>1, <1>2, <2>1, <2>2, <2>4, <3>3 DEF DarkInv
  <2> QED
    BY <2>3, <2>4
<1>4. CASE Retry(d)
  <2>1. pass.at = "retry" /\ pass' = [pass EXCEPT !.at = "fallback"]
    BY <1>4 DEF Retry
  <2>2. pass'.at = "fallback" /\ pass'.now = pass.now
    BY <1>0, <2>1 DEF Passes
  <2>3. DisconnectedMark \in Times
    BY <1>0, <1>1, MarkType
  <2>4. \/ disconnectedSince' = DisconnectedMark
        \/ DisconnectedMark = 0 /\ disconnectedSince' = clock'
    BY <1>0, <1>1, <1>4, <2>3, StaEffect DEF Retry
  <2>5. /\ \/ disconnectedSince' = disconnectedSince
           \/ disconnectedSince = 0 /\ disconnectedSince' \in {pass.now, clock'}
        /\ disconnectedSince' = 0 => pass.now = 0
    BY <1>0, <1>1, <2>4 DEF DisconnectedMark, Times
  <2>6. WithinPass(1) /\ ~wasConnected
    BY <2>1 DEF DarkInv
  <2>7. WithinPass(1 + 1)'
    BY <1>1, <1>2, <2>2, <2>5, <2>6, LateStep
  <2> QED
    BY <1>1, <1>2, <2>2, <2>5, <2>6, <2>7 DEF DarkInv
<1> QED
  BY <1>3, <1>4

\* The fallback is not due, or the access point opens (or softAP() fails).
LEMMA FallbackDark ==
  ASSUME WifiTypeOK, WifiTypeOK', DarkInv, Fallback
  PROVE  DarkInv'
<1> DEFINE n == pass.now
           used == Since(clock, n)
           m == disconnectedSince
<1>0. /\ clock \in Times /\ m \in Times /\ dark \in Nat /\ dark' \in Nat
      /\ n \in Times /\ pass.at = "fallback" /\ 0 \in {0, 1}
      /\ apActive \in BOOLEAN /\ apFailures \in 0 .. MaxApFailures
  BY DarkTypes DEF WifiTypeOK, Times, Fallback
<1>1. /\ pass'.at = "delay" /\ UNCHANGED <<clock, m, wasConnected, link>>
      /\ Darkness(0)
  BY DEF Fallback, timers, driver
<1>2. /\ dark' <= dark + 0 /\ (link' = "up" => dark' = 0)
      /\ apActive' \/ apFailures' # apFailures => dark' = 0
  BY <1>0, <1>1, DarknessEffect
<1>3. ~wasConnected /\ WithinPass(2) /\ (m = 0 => n = 0)
  BY <1>0 DEF DarkInv
<1>a. /\ used = Diff(clock, n) /\ Since(n, m) = Diff(n, m)
      /\ Elapsed = Diff(clock, m)
  BY <1>0, SinceIs DEF Elapsed
<1>b. used <= 2 /\ (m = 0 => dark <= n + 2 + used)
  BY <1>3 DEF WithinPass
<1>4. used \in 0 .. 2
  BY <1>0, <1>a, <1>b, Durations DEF Diff, Times
<1>5. m = 0 => clock = used /\ dark <= clock + 2
  BY <1>0, <1>3, <1>4, <1>a, <1>b, Durations DEF Diff, Times
<1>6. CASE dark' = 0
  <2>1. BetweenPasses(0)'
    BY <1>1, <1>3, <1>4, <1>5, <1>6, Durations DEF BetweenPasses
  <2> QED
    BY <1>1, <1>2, <1>6, <2>1 DEF DarkInv
<1>7. CASE dark' # 0
  <2>1. ~FallbackDue
    BY <1>0, <1>2, <1>7, FallbackApEffect DEF Fallback
  <2>2. Since(n, m) \in Nat /\ Since(n, m) < FallbackAfter
    BY <1>0, <1>a, <2>1, Durations DEF FallbackDue, Diff, Times
  <2>3. Elapsed = Since(n, m) + used
    BY <1>0, <1>4, <1>a, <2>2, Durations DEF Diff, Times
  <2>4. m # 0 => dark <= Since(n, m) + 5 + used
    BY <1>3, <2>2, Durations DEF WithinPass
  <2>5. dark <= FallbackAfter + 6
    BY <1>0, <1>4, <1>5, <2>2, <2>4, Durations
  <2>6. Elapsed' = Elapsed
    BY <1>1 DEF Elapsed
  <2>7. BetweenPasses(0)'
    BY <1>0, <1>1, <1>2, <1>3, <1>4, <1>5, <2>2, <2>3, <2>4, <2>5, <2>6, Durations
       DEF BetweenPasses
  <2>8. Elapsed' <= FallbackAfter + 1
    BY <1>4, <2>2, <2>3, <2>6, Durations
  <2> QED
    BY <1>1, <1>2, <2>7, <2>8 DEF DarkInv
<1> QED
  BY <1>6, <1>7

\* Connected when the pass began, and at most a unit without link since.
LEMMA GraceDark ==
  ASSUME WifiTypeOK, DarkInv, Grace
  PROVE  DarkInv'
<1>1. /\ pass.at = "grace" /\ pass'.at = "delay"
      /\ UNCHANGED <<clock, wasConnected, link, dark>>
  BY DEF Grace, driver
<1>2. wasConnected /\ dark <= 1 /\ dark \in Nat
  BY <1>1, DarkTypes DEF DarkInv
<1>3. BetweenPasses(0)'
  BY <1>1, <1>2, Durations DEF BetweenPasses
<1> QED
  BY <1>1, <1>2, <1>3 DEF DarkInv

\* vTaskDelay()
LEMMA DelayDark ==
  ASSUME WifiTypeOK, WifiTypeOK', DarkInv, Delay
  PROVE  DarkInv'
<1>0. /\ clock \in Times /\ disconnectedSince \in Times /\ dark \in Nat /\ dark' \in Nat
      /\ clock' \in Times /\ 1 \in {0, 1}
  BY DarkTypes DEF WifiTypeOK, Times
<1>1. /\ pass.at = "delay" /\ pass'.at = "copy" /\ Advance(1) /\ Darkness(1)
      /\ UNCHANGED <<disconnectedSince, wasConnected, link>>
  BY DEF Delay, timers, driver
<1>2. /\ clock' = (IF clock + 1 = Period THEN 0 ELSE clock + 1)
      /\ dark' <= dark + 1 /\ (link' = "up" => dark' = 0)
  BY <1>0, <1>1, ClockType, DarknessEffect
<1>3. /\ BetweenPasses(0)
      /\ dark = 0 \/ wasConnected \/ Elapsed <= FallbackAfter + 1
  BY <1>1 DEF DarkInv
<1>4. dark' <= FallbackAfter + 6 + 1
  BY <1>0, <1>2, <1>3, Durations DEF BetweenPasses
<1>5. CASE wasConnected
  BY <1>0, <1>1, <1>2, <1>3, <1>4, <1>5 DEF BetweenPasses, DarkInv
<1>6. CASE ~wasConnected /\ disconnectedSince = 0
  <2>1. clock' \in 1 .. 2 + 1 /\ dark' <= clock' + 2
    BY <1>0, <1>2, <1>3, <1>6, Durations DEF BetweenPasses, Times
  <2> QED
    BY <1>1, <1>2, <1>4, <1>6, <2>1 DEF BetweenPasses, DarkInv
<1>7. CASE ~wasConnected /\ disconnectedSince # 0
  <2>1. CASE dark = 0
    BY <1>0, <1>1, <1>2, <1>4, <1>7, <2>1 DEF BetweenPasses, DarkInv
  <2>2. CASE dark # 0
    <3>0. /\ Elapsed = Diff(clock, disconnectedSince)
          /\ Elapsed' = Diff(clock', disconnectedSince)
      BY <1>0, <1>1, SinceIs DEF Elapsed
    <3>1. Elapsed' = Elapsed + 1 /\ Elapsed \in Nat
      BY <1>0, <1>2, <1>3, <1>7, <2>2, <3>0, Durations DEF Diff, Times
    <3>2. dark' <= Elapsed' + 5
      BY <1>0, <1>2, <1>3, <1>7, <2>2, <3>1 DEF BetweenPasses
    <3> QED
      BY <1>1, <1>2, <1>4, <1>7, <3>2 DEF BetweenPasses, DarkInv
  <2> QED
    BY <2>1, <2>2
<1> QED
  BY <1>0, <1>5, <1>6, <1>7

\* Every step keeps the bounds on the dark time.
LEMMA DarkStep ==
  WifiTypeOK /\ WifiTypeOK' /\ DarkInv /\ [WifiNext]_wifiVars => DarkInv'
<1> SUFFICES ASSUME WifiTypeOK, WifiTypeOK', DarkInv, [WifiNext]_wifiVars
             PROVE  DarkInv'
  OBVIOUS
<1>0. dark \in Nat /\ dark' \in Nat /\ (link = "up" => dark = 0)
  BY DarkTypes DEF WifiTypeOK, DarkInv
<1>1. CASE \/ UNCHANGED wifiVars
           \/ \E c \in AllCredentials : HandleWifi(c)
           \/ RequestReconnect
  <2>1. UNCHANGED <<clock, disconnectedSince, wasConnected, pass, dark, link>>
    BY <1>1 DEF wifiVars, timers, driver, HandleWifi, RequestReconnect
  <2> QED
    BY <1>0, <2>1, DarkLess
<1>2. CASE Joined \/ JoinFails \/ LinkLost
  <2>1. /\ UNCHANGED <<clock, disconnectedSince, wasConnected, pass>>
        /\ dark' \in {0, dark} /\ (link' = "up" => dark' = 0)
    BY <1>2 DEF Joined, JoinFails, LinkLost, DriverBecomes, timers
  <2>2. dark' <= dark
    BY <1>0, <2>1
  <2> QED
    BY <1>0, <2>1, <2>2, DarkLess
<1>3. CASE PassStep
  BY <1>3, LookDark, TimedPassDark, FallbackDark, GraceDark, DelayDark DEF PassStep
<1> QED
  BY <1>1, <1>2, <1>3 DEF WifiNext

-----------------------------------------------------------------------------
(* The invariant and its consequences. *)

\* JoinInv between two passes.
LEMMA JoinNotStale == JoinInv => NoStaleJoin
  BY DEF JoinInv, NoStaleJoin

\* DarkInv at every step of a pass.
LEMMA DarkInvBounds == WifiTypeOK /\ DarkInv => DarkBounded
<1> SUFFICES ASSUME WifiTypeOK, DarkInv PROVE dark <= FallbackAfter + 9
  BY Durations DEF DarkBounded
<1>0. /\ clock \in Times /\ dark \in Nat
      /\ pass.at \in {"copy", "delay", "look", "request", "retry", "fallback", "grace"}
      /\ pass.at \in {"request", "retry", "fallback", "grace"} => pass.now \in Times
  BY DarkTypes, PassFields
<1>1. CASE pass.at \in {"copy", "look", "delay", "grace"}
  BY <1>0, <1>1, Durations DEF DarkInv, BetweenPasses
<1>2. CASE pass.at \in {"request", "retry", "fallback"}
  <2>0. Since(clock, pass.now) = Diff(clock, pass.now)
    BY <1>0, <1>2, SinceIs
  <2>1. Since(clock, pass.now) \in Nat
    BY <1>0, <1>2, <2>0, Durations DEF Diff, Times
  <2> QED
    BY <1>0, <1>2, <2>1, Durations DEF DarkInv, WithinPass
<1> QED
  BY <1>0, <1>1, <1>2

\* The inductive invariant holds in every state.
THEOREM WifiInvInvariant == WifiSpec => []WifiInv
<1> DEFINE I == WifiTypeOK /\ JoinInv /\ DarkInv
<1>1. WifiInit => I
  BY WifiTypeInit, JoinInit, DarkInit
<1>2. I /\ [WifiNext]_wifiVars => I'
  BY WifiTypeStep, JoinStep, DarkStep
<1>3. I => WifiInv
  BY JoinNotStale, DarkInvBounds DEF WifiInv
<1> QED
  BY <1>1, <1>2, <1>3, PTL DEF WifiSpec

\* Type correctness of the manager, its clock arithmetic included.
THEOREM WifiTypeCorrect == WifiSpec => []WifiTypeOK
<1>1. WifiInv => WifiTypeOK
  BY DEF WifiInv
<1> QED
  BY <1>1, WifiInvInvariant, PTL

(***************************************************************************)
(* However the dashboard's changes fall between the copy of the            *)
(* credentials and their use, the driver is never left with credentials    *)
(* that are no longer configured.                                          *)
(***************************************************************************)
THEOREM JoinNeverStale == WifiSpec => []NoStaleJoin
<1>1. WifiInv => NoStaleJoin
  BY DEF WifiInv
<1> QED
  BY <1>1, WifiInvInvariant, PTL

(***************************************************************************)
(* For every fallback time and every period of millis() that exceeds it by *)
(* a pass, the time without link and access point is bounded, wrap-arounds *)
(* and the zero that means "connected" included.                           *)
(***************************************************************************)
THEOREM DarkAlwaysBounded == WifiSpec => []DarkBounded
<1>1. WifiInv => DarkBounded
  BY DEF WifiInv
<1> QED
  BY <1>1, WifiInvInvariant, PTL
=============================================================================
