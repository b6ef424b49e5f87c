---------------------------- MODULE WifiManager ----------------------------
(***************************************************************************)
(* The Wi-Fi manager (lib/wifi/wifi_manager.cpp): the task that joins the  *)
(* configured network, retries, opens the fallback access point and closes *)
(* it again, while the dashboard changes the credentials and the driver    *)
(* joins, fails and loses the network as it likes.                         *)
(*                                                                         *)
(* Time is counted in passes of the task (500 ms) modulo Period, as        *)
(* millis() is modulo 2^32; a call of the driver may take one unit too.    *)
(***************************************************************************)
EXTENDS Integers

CONSTANTS
  Credentials,        \* SSID with password
  NoCredentials,      \* an empty SSID
  Period,             \* stands for 2^32
  ReconnectInterval,  \* reconnectIntervalMs_
  FallbackAfter,      \* fallbackAfterMs_
  ApGrace,            \* apGraceMs_
  MaxRequests,        \* bound on the dashboard's requests
  MaxApFailures       \* bound on the failures of WiFi.softAP()

ASSUME WifiAssumption ==
  /\ NoCredentials \notin Credentials
  /\ ReconnectInterval \in Nat \ {0} /\ FallbackAfter \in Nat \ {0}
  /\ ApGrace \in Nat
  /\ Period \in Nat
  /\ \A d \in {ReconnectInterval, FallbackAfter, ApGrace} : d + 4 < Period
  /\ MaxRequests \in Nat /\ MaxApFailures \in Nat

VARIABLES
  clock,              \* millis()
  saved,              \* ssid_ and password_
  reconnectRequested, \* reconnectRequested_
  apActive,           \* apActive_
  reconnecting,       \* reconnecting_
  disconnectedSince,  \* disconnectedSinceMs_; 0 means connected
  connectedSince,     \* connectedSinceMs_
  lastReconnect,      \* lastReconnectMs_
  wasConnected,       \* local to run()
  pass,               \* the task: its step and the locals of this pass
  link,               \* the driver: "down", "joining" or "up"
  target,             \* the driver: what WiFi.begin() was last given
  dark,               \* history: time with neither link nor access point
  requests,           \* requests so far
  apFailures          \* failures of WiFi.softAP() so far

timers == <<disconnectedSince, connectedSince, lastReconnect>>
driver == <<link, target>>
wifiVars == <<clock, saved, reconnectRequested, apActive, reconnecting, timers,
              wasConnected, pass, driver, dark, requests, apFailures>>

AllCredentials == Credentials \cup {NoCredentials}
Passes ==
  [at : {"copy", "delay"}]
    \cup [at : {"look"}, credentials : AllCredentials, requested : BOOLEAN]
    \cup [at : {"request"}, credentials : AllCredentials, requested : BOOLEAN,
          now : 0 .. Period - 1, connected : BOOLEAN]
    \cup [at : {"retry", "fallback", "grace"}, credentials : AllCredentials,
          now : 0 .. Period - 1]
\* A pass takes three units at most; the loss may be noticed one pass late,
\* marked one later (millis() was zero) and acted upon one later.
PassTime == 3
DarkLimit == FallbackAfter + 3 * PassTime

\* Unsigned subtraction.
Since(now, then) == (now - then) % Period

\* millis() after the calls before it have taken d units.
Advance(d) == clock' = (clock + d) % Period
\* The history that goes with it; a failing softAP() is not the manager's.
Darkness(d) ==
  dark' = IF link' = "up" \/ apActive' \/ apFailures' # apFailures THEN 0
          ELSE IF dark > DarkLimit THEN dark ELSE dark + d

-----------------------------------------------------------------------------
(* startFallbackAp() and beginSta(). *)

\* softAP() may fail; the manager tries again on its next pass.
StartFallbackAp ==
  \/ /\ ~apActive
     /\ apFailures < MaxApFailures
     /\ apFailures' = apFailures + 1
     /\ UNCHANGED apActive
  \/ /\ apActive' = TRUE
     /\ UNCHANGED apFailures

\* Mutant: an empty SSID leaves the driver alone.
BeginStaIfAny(credentials, since) ==
  /\ lastReconnect' = clock'
  /\ IF credentials = NoCredentials
     THEN /\ reconnecting' = FALSE
          /\ StartFallbackAp
          /\ disconnectedSince' = since
          /\ UNCHANGED driver
     ELSE /\ target' = credentials
          /\ link' = "joining"
          /\ reconnecting' = TRUE
          /\ disconnectedSince' = IF since = 0 THEN clock' ELSE since
          /\ UNCHANGED <<apActive, apFailures>>
\* WiFi.disconnect(), then WiFi.begin(); an empty SSID only disconnects and
\* opens the access point.
BeginSta(credentials, since) ==
  /\ lastReconnect' = clock'
  /\ target' = credentials
  /\ IF credentials = NoCredentials
     THEN /\ link' = "down"
          /\ reconnecting' = FALSE
          /\ StartFallbackAp
          /\ disconnectedSince' = since
     ELSE /\ link' = "joining"
          /\ reconnecting' = TRUE
          /\ disconnectedSince' = IF since = 0 THEN clock' ELSE since
          /\ UNCHANGED <<apActive, apFailures>>
LeaveSta(since) ==
  /\ disconnectedSince' = since
  /\ UNCHANGED <<lastReconnect, driver, reconnecting, apActive, apFailures>>

-----------------------------------------------------------------------------
(* run(), one pass. *)

\* Under the lock: the configuration is copied and the request taken.
CopyConfig ==
  /\ pass.at = "copy"
  /\ pass' = [at |-> "look", credentials |-> saved,
              requested |-> reconnectRequested]
  /\ reconnectRequested' = FALSE
  /\ UNCHANGED <<clock, saved, apActive, reconnecting, timers, wasConnected,
                 driver, dark, requests, apFailures>>

\* Mutant: the request is cleared outside the lock that copied it.
LookAndClear ==
  /\ pass.at = "look"
  /\ LET connected == link = "up" IN
       /\ pass' = [at |-> "request", credentials |-> pass.credentials,
                   requested |-> pass.requested, now |-> clock,
                   connected |-> connected]
       /\ wasConnected' = connected
       /\ IF connected /\ ~wasConnected
          THEN connectedSince' = clock /\ reconnecting' = FALSE
          ELSE UNCHANGED <<connectedSince, reconnecting>>
       /\ disconnectedSince' = IF ~connected /\ wasConnected THEN clock
                               ELSE disconnectedSince
  /\ UNCHANGED <<clock, saved, apActive, lastReconnect,
                 driver, dark, requests, apFailures>>
  /\ reconnectRequested' = FALSE
\* now and connected are read here and used for the rest of the pass.
Look ==
  /\ pass.at = "look"
  /\ LET connected == link = "up" IN
       /\ pass' = [at |-> "request", credentials |-> pass.credentials,
                   requested |-> pass.requested, now |-> clock,
                   connected |-> connected]
       /\ wasConnected' = connected
       /\ IF connected /\ ~wasConnected
          THEN connectedSince' = clock /\ reconnecting' = FALSE
          ELSE UNCHANGED <<connectedSince, reconnecting>>
       /\ disconnectedSince' = IF ~connected /\ wasConnected THEN clock
                               ELSE disconnectedSince
  /\ UNCHANGED <<clock, saved, reconnectRequested, apActive, lastReconnect,
                 driver, dark, requests, apFailures>>

ServeRequest(d) ==
  /\ pass.at = "request"
  /\ Advance(d)
  /\ IF pass.requested
     THEN BeginSta(pass.credentials, disconnectedSince)
     ELSE d = 0 /\ LeaveSta(disconnectedSince)
  /\ Darkness(d)
  /\ pass' = [at |-> IF pass.connected THEN "grace" ELSE "retry",
              credentials |-> pass.credentials, now |-> pass.now]
  /\ UNCHANGED <<saved, reconnectRequested, connectedSince, wasConnected,
                 requests>>

\* Mutant: the deadline is computed instead of the time that has passed.
RetryAtDeadline == pass.now >= lastReconnect + ReconnectInterval
\* lastReconnect may be later than now: then the difference wraps around.
RetryDue == Since(pass.now, lastReconnect) >= ReconnectInterval
\* Mutant: one earlier, to keep clear of zero, in a signed field.
MarkEarlier == IF disconnectedSince = 0 THEN pass.now - 1 ELSE disconnectedSince
\* Zero stands for "not disconnected", also when millis() is zero.
DisconnectedMark == IF disconnectedSince = 0 THEN pass.now ELSE disconnectedSince
Retry(d) ==
  /\ pass.at = "retry"
  /\ Advance(d)
  /\ IF pass.credentials # NoCredentials /\ RetryDue
     THEN BeginSta(pass.credentials, DisconnectedMark)
     ELSE d = 0 /\ LeaveSta(DisconnectedMark)
  /\ Darkness(d)
  /\ pass' = [pass EXCEPT !.at = "fallback"]
  /\ UNCHANGED <<saved, reconnectRequested, connectedSince, wasConnected,
                 requests>>

\* Mutant: the deadline is computed instead of the time that has passed.
FallbackAtDeadline == pass.now >= disconnectedSince + FallbackAfter
FallbackDue == Since(pass.now, disconnectedSince) >= FallbackAfter
Fallback ==
  /\ pass.at = "fallback"
  /\ IF pass.credentials = NoCredentials \/ FallbackDue
     THEN StartFallbackAp ELSE UNCHANGED <<apActive, apFailures>>
  /\ pass' = [at |-> "delay"]
  /\ UNCHANGED <<clock, saved, reconnectRequested, reconnecting, timers,
                 wasConnected, driver, requests>>
  /\ Darkness(0)

StopFallbackAp == apActive' = FALSE

\* Connected when the pass began; stopFallbackAp() once the grace is over.
Grace ==
  /\ pass.at = "grace"
  /\ disconnectedSince' = 0
  /\ IF apActive /\ Since(pass.now, connectedSince) >= ApGrace
     THEN StopFallbackAp
     ELSE UNCHANGED apActive
  /\ pass' = [at |-> "delay"]
  /\ UNCHANGED <<clock, saved, reconnectRequested, reconnecting, connectedSince,
                 lastReconnect, wasConnected, driver, dark, requests,
                 apFailures>>

\* vTaskDelay()
Delay ==
  /\ pass.at = "delay"
  /\ pass' = [at |-> "copy"]
  /\ Advance(1)
  /\ UNCHANGED <<saved, reconnectRequested, apActive, reconnecting, timers,
                 wasConnected, driver, requests, apFailures>>
  /\ Darkness(1)

-----------------------------------------------------------------------------
(* The dashboard. *)

\* handleWifi(), once the configuration is saved, and applyConfig().
HandleWifi(credentials) ==
  /\ requests < MaxRequests
  /\ requests' = requests + 1
  /\ saved' = credentials
  /\ reconnectRequested' = TRUE
  /\ UNCHANGED <<clock, apActive, reconnecting, timers, wasConnected, pass,
                 driver, dark, apFailures>>

\* /api/wifi/reconnect
RequestReconnect ==
  /\ reconnectRequested' = TRUE
  /\ UNCHANGED <<clock, saved, apActive, reconnecting, timers, wasConnected,
                 pass, driver, dark, requests, apFailures>>

-----------------------------------------------------------------------------
(* The driver; it does not reconnect by itself. *)

DriverBecomes(state) ==
  /\ link' = state
  /\ dark' = IF state = "up" THEN 0 ELSE dark
  /\ UNCHANGED <<clock, saved, reconnectRequested, apActive, reconnecting,
                 timers, wasConnected, pass, target, requests, apFailures>>
Joined == link = "joining" /\ DriverBecomes("up")
JoinFails == link = "joining" /\ DriverBecomes("down")
LinkLost == link = "up" /\ DriverBecomes("down")

-----------------------------------------------------------------------------
\* begin(): a first attempt, or the access point, before the task exists.
WifiInit ==
  /\ clock = 1
  /\ saved \in AllCredentials
  /\ reconnectRequested = TRUE
  /\ apActive \in IF saved = NoCredentials THEN BOOLEAN ELSE {FALSE}
  /\ reconnecting = (saved # NoCredentials)
  /\ disconnectedSince = 1
  /\ connectedSince = 0
  /\ lastReconnect = IF saved = NoCredentials THEN 0 ELSE 1
  /\ wasConnected = FALSE
  /\ pass = [at |-> "copy"]
  /\ link = IF saved = NoCredentials THEN "down" ELSE "joining"
  /\ target = saved
  /\ dark = 0
  /\ requests = 0
  /\ apFailures = 0

PassStep ==
  \/ CopyConfig \/ Look
  \/ \E d \in {0, 1} : ServeRequest(d) \/ Retry(d)
  \/ Fallback \/ Grace \/ Delay

WifiNext ==
  \/ PassStep
  \/ \E c \in AllCredentials : HandleWifi(c)
  \/ RequestReconnect
  \/ Joined \/ JoinFails \/ LinkLost

\* The task runs; the driver owes nothing.
WifiSpec == WifiInit /\ [][WifiNext]_wifiVars /\ WF_wifiVars(PassStep)

-----------------------------------------------------------------------------
\* The variables have the types of what they hold.
WifiTypeOK ==
  /\ clock \in 0 .. Period - 1
  /\ saved \in AllCredentials
  /\ reconnectRequested \in BOOLEAN
  /\ apActive \in BOOLEAN
  /\ reconnecting \in BOOLEAN
  /\ disconnectedSince \in 0 .. Period - 1
  /\ connectedSince \in 0 .. Period - 1
  /\ lastReconnect \in 0 .. Period - 1
  /\ wasConnected \in BOOLEAN
  /\ pass \in Passes
  /\ link \in {"down", "joining", "up"}
  /\ target \in AllCredentials
  /\ dark \in Nat
  /\ requests \in 0 .. MaxRequests
  /\ apFailures \in 0 .. MaxApFailures

(***************************************************************************)
(* NoStaleJoin.  Between passes, unless a request still waits, the driver  *)
(* neither joins nor is in any network but the one now configured; with    *)
(* the credentials cleared, in none.  The dashboard may change them after  *)
(* the pass has copied them.                                               *)
(***************************************************************************)
NoStaleJoin ==
  pass.at \in {"delay", "copy"} /\ ~reconnectRequested =>
    link = "down" \/ target = saved

(***************************************************************************)
(* DarkBounded.  The Gateway is never without both link and access point   *)
(* for longer than the fallback time and the few units it takes to notice  *)
(* the loss and to act: not when millis() wraps around, not when it reads  *)
(* the zero that also means "connected", and not when a stale `connected`  *)
(* closes the access point after the pass has dropped the link itself.     *)
(***************************************************************************)
DarkBounded == dark <= DarkLimit

(***************************************************************************)
(* Their inductive strengthening.  JoinInv: unless a request waits, the    *)
(* pass works with the credentials now configured, and either has the      *)
(* request still to serve or the driver has been told.  DarkInv follows    *)
(* the time without link and access point through a pass that began at     *)
(* `now`: until the loss is noticed, until it is marked (a mark of zero is *)
(* no mark), and from the mark on, which has not wrapped around while the  *)
(* fallback is not due.                                                    *)
(***************************************************************************)
JoinInv ==
  ~reconnectRequested =>
    /\ pass.at \notin {"copy", "delay"} => pass.credentials = saved
    /\ \/ pass.at \in {"look", "request"} /\ pass.requested
       \/ link = "down" \/ target = saved

Elapsed == Since(clock, disconnectedSince)
BetweenPasses(age) ==
  /\ dark <= FallbackAfter + 6 + age
  /\ IF wasConnected THEN dark <= 1 + age
     ELSE IF disconnectedSince = 0
     THEN clock \in age .. 2 + age /\ dark <= clock + 2
     ELSE dark <= age \/ dark <= Elapsed + 5
WithinPass(late) ==
  /\ Since(clock, pass.now) <= late
  /\ LET used == Since(clock, pass.now) IN
       /\ dark <= FallbackAfter + 7 + used
       /\ IF disconnectedSince = 0
          THEN pass.now <= 3 /\ dark <= pass.now + 2 + used
          ELSE \/ Since(pass.now, disconnectedSince) >= FallbackAfter
               \/ dark <= Since(pass.now, disconnectedSince) + 5 + used
DarkInv ==
  /\ link = "up" => dark = 0
  /\ pass.at = "delay" => /\ BetweenPasses(0)
                          /\ dark = 0 \/ wasConnected \/ Elapsed <= FallbackAfter + 1
  /\ pass.at \in {"copy", "look"} => BetweenPasses(1)
  /\ pass.at = "request" =>
       /\ wasConnected = pass.connected
       /\ IF wasConnected THEN dark = 0 ELSE WithinPass(0)
  /\ pass.at = "retry" => ~wasConnected /\ WithinPass(1)
  /\ pass.at = "fallback" => /\ ~wasConnected /\ WithinPass(2)
                             /\ disconnectedSince = 0 => pass.now = 0
  /\ pass.at = "grace" => wasConnected /\ dark <= 1
WifiInv == WifiTypeOK /\ NoStaleJoin /\ JoinInv /\ DarkInv /\ DarkBounded

(***************************************************************************)
(* ClearedLeavesAp.  With the credentials cleared for good, the access     *)
(* point is up for good in the end (docs/provisioning.md: clearing         *)
(* credentials "leaves the fallback AP available").                        *)
(***************************************************************************)
ClearedLeavesAp == <>[](saved = NoCredentials) => <>[]apActive

(***************************************************************************)
(* JoinsContinue.  As long as credentials are configured, the Gateway      *)
(* comes back to joining whatever the driver does, also while the access   *)
(* point is open and after millis() has wrapped around.                    *)
(***************************************************************************)
JoinsContinue ==
  <>[](saved # NoCredentials) => []<>(link \in {"joining", "up"})
=============================================================================
