-------------------------- MODULE BackendContract --------------------------
(***************************************************************************)
(* What the Gateway makes of an answer to a telemetry batch                *)
(* (lib/backend/backend_contract.cpp) and of its upload record             *)
(* (lib/heartbeat/heartbeat_contract.cpp).  The body of an answer is the   *)
(* sequence of its results; a result without an integer index or a string  *)
(* status, or with an unknown status, has the status "OTHER".              *)
(***************************************************************************)
EXTENDS Integers, Sequences, FiniteSets

CONSTANT MaxBatch   \* build::kBackendMaximumBatchSize

TerminalStatus == {"INSERTED", "DUPLICATE", "REJECTED_INVALID"}
Item == [index : 0 .. MaxBatch, status : {"INSERTED", "OTHER"}]
\* Answers may also hold more results than the batch has records.
Answers == UNION {[1 .. n -> Item] : n \in 0 .. MaxBatch + 1}

\* parseBackendBatchResponse(): one pass, with the indexes seen so far.
SeenBefore(items, n) == {items[j].index : j \in 1 .. n - 1}
AcceptItem(items, n, expected) ==
  /\ items[n].index < expected
  /\ items[n].index \notin SeenBefore(items, n)
  /\ items[n].status \in TerminalStatus
ParseBackendBatchResponse(items, expected) ==
  LET accepted[n \in 0 .. Len(items)] ==
        IF n = 0 THEN TRUE ELSE accepted[n - 1] /\ AcceptItem(items, n, expected)
  IN  /\ expected # 0
      /\ Len(items) <= expected
      /\ accepted[Len(items)]

\* backendBatchResponseComplete()
BackendBatchResponseComplete(items, expected) ==
  expected > 0 /\ Len(items) = expected

\* classifyBackendConnectivity()
ClassifyBackendConnectivity(successes, failures) ==
  IF successes = 0 /\ failures = 0 THEN "UNKNOWN"
  ELSE IF failures = 0 THEN "HEALTHY"
  ELSE IF failures < 3 THEN "DEGRADED" ELSE "OFFLINE"
=============================================================================
