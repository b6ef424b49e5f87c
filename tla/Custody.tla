------------------------------ MODULE Custody ------------------------------
(***************************************************************************)
(* What the Gateway promises about measurements, without tasks, files or   *)
(* faults: it acknowledges a key only while it answers for it, and from    *)
(* then on lets go of it only once the Backend has settled it or it has    *)
(* been given up on record.  TelemetryPath implements this.                *)
(***************************************************************************)
CONSTANT Keys

VARIABLES
  held,      \* keys on flash that are still to be delivered
  acked,     \* keys acknowledged to the Node
  settled,   \* keys the Backend has stored or rejected for good
  givenUp    \* other keys dropped as oldest, or whose record went bad

custodyVars == <<held, acked, settled, givenUp>>

\* A measurement that is received or found again is answered for again.
Store(k) ==
  /\ k \notin settled
  /\ held' = held \cup {k}
  /\ givenUp' = givenUp \ {k}
  /\ UNCHANGED <<acked, settled>>

Acknowledge(k) ==
  /\ k \in held \cup settled \cup givenUp
  /\ acked' = acked \cup {k}
  /\ UNCHANGED <<held, settled, givenUp>>

\* A record that was sent may be given up before the Backend has decided.
Settle(k) ==
  /\ k \in held \cup givenUp
  /\ settled' = settled \cup {k}
  /\ held' = held \ {k}
  /\ givenUp' = givenUp \ {k}
  /\ UNCHANGED acked

GiveUp(k) ==
  /\ k \in held
  /\ held' = held \ {k}
  /\ givenUp' = givenUp \cup {k}
  /\ UNCHANGED <<acked, settled>>

\* A full queue takes a measurement for its oldest one.
Exchange(oldest, k) ==
  /\ oldest \in held
  /\ k \notin settled
  /\ held' = (held \ {oldest}) \cup {k}
  /\ givenUp' = (givenUp \cup {oldest}) \ {k}
  /\ UNCHANGED <<acked, settled>>

\* Only a key the Node has no acknowledgement for may just go.
Withdraw(k) ==
  /\ k \notin acked
  /\ held' = held \ {k}
  /\ UNCHANGED <<acked, settled, givenUp>>

\* A measurement takes the place of one that was stored, but not acknowledged.
Replace(gone, k) ==
  /\ gone \notin acked
  /\ k \notin settled
  /\ held' = (held \ {gone}) \cup {k}
  /\ givenUp' = givenUp \ {k}
  /\ UNCHANGED <<acked, settled>>

CustodyInit == held = {} /\ acked = {} /\ settled = {} /\ givenUp = {}
CustodyNext ==
  \E k \in Keys :
    \/ Store(k) \/ Acknowledge(k) \/ Settle(k) \/ GiveUp(k) \/ Withdraw(k)
    \/ \E other \in Keys : Exchange(other, k) \/ Replace(other, k)
CustodySpec == CustodyInit /\ [][CustodyNext]_custodyVars
=============================================================================
