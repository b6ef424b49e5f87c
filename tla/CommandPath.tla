---------------------------- MODULE CommandPath ----------------------------
(***************************************************************************)
(* A command on its way to the Node and back: the dashboard creates or     *)
(* cancels it, RadioService::transmitAck puts a copy of it into the ACK of *)
(* the next telemetry frame and marks it sent afterwards, the Node carries *)
(* it out and reports, PacketProcessor::process confirms it.  The radio    *)
(* task and the dashboard share the CommandStore; between its two store    *)
(* calls transmitAck is busy with the radio for up to seconds.             *)
(*                                                                         *)
(* Frames are those of the paired Node; whether its telemetry could be     *)
(* stored is TelemetryPath's subject and only decides whether an ACK       *)
(* follows.  The Node is external: it carries a command out when it hears  *)
(* an id other than the last one it carried out (or refuses it with a      *)
(* result code, which counts as the same), and reports the outcome, also   *)
(* repeatedly and late.                                                    *)
(***************************************************************************)
EXTENDS CommandStore

CONSTANTS
  MaxSessions,       \* bound on the persistent sessions of the Node
  MaxCommandCrashes  \* bound on the power losses of the Gateway

ASSUME SessionAssumption ==
  /\ MaxSessions \in Nat \ {0}
  /\ MaxCommandCrashes \in Nat

VARIABLES
  tx,          \* the radio task: where transmitAck stands, and its copy
  latest,      \* session of latest_.packet, 0 while not available
  node,        \* the Node: its session and the last command it carried out
  results,     \* COMMAND_RESULT frames the Node has sent
  onAir,       \* history: commands that went on the air
  executed,    \* history: serials of the commands the Node carried out
  commandCrashes

taskVars == <<tx, latest, node, results, onAir, executed, commandCrashes>>
commandVars == <<storeVars, taskVars>>

Sessions == 1 .. MaxSessions
Listening == [at |-> "listen", command |-> NoCommand]
Identity(c) == [id |-> c.id, type |-> c.type, serial |-> c.serial]
Result == [session : Sessions, id : CommandIds, type : Types]

-----------------------------------------------------------------------------
(* The dashboard. *)

CreateCommand(type) == Create(type) /\ UNCHANGED taskVars
CancelCommand(id) == Cancel(id) /\ UNCHANGED taskVars

-----------------------------------------------------------------------------
(* The radio task. *)

\* Telemetry of the paired Node: latest_ is updated in any case, an ACK
\* follows if the record is queued.
ReceiveTelemetry ==
  /\ boot = "up"
  /\ tx.at = "listen"
  /\ latest' = node.session
  /\ tx' \in {Listening, [Listening EXCEPT !.at = "build"]}
  /\ UNCHANGED <<storeVars, node, results, onAir, executed, commandCrashes>>

\* The ACK is built around a copy of the pending command.
BuildAck ==
  /\ tx.at = "build"
  /\ tx' = [at |-> "transmit", command |-> PendingForAck]
  /\ UNCHANGED <<storeVars, latest, node, results, onAir, executed,
                 commandCrashes>>

\* The Node hears the ACK and the command in it.
NodeHears(c) ==
  /\ executed' = IF c.id # node.last THEN executed \cup {c.serial} ELSE executed
  /\ node' = [node EXCEPT !.last = c.id]
  /\ results' = results \cup
       {[session |-> node.session, id |-> c.id, type |-> c.type]}

\* The ACK goes out; the Node hears it or not, and the Gateway sees the
\* transmission succeed or not.  Only a success with RX restored counts.
TransmitAck(heard, succeeded) ==
  /\ tx.at = "transmit"
  /\ onAir' = IF tx.command = NoCommand THEN onAir
              ELSE onAir \cup {Identity(tx.command)}
  /\ IF heard /\ tx.command # NoCommand THEN NodeHears(tx.command)
     ELSE UNCHANGED <<node, results, executed>>
  /\ tx' = IF succeeded /\ tx.command # NoCommand
           THEN [tx EXCEPT !.at = "mark"] ELSE Listening
  /\ UNCHANGED <<storeVars, latest, commandCrashes>>

MarkAckSent ==
  /\ tx.at = "mark"
  /\ MarkSent(tx.command.id)
  /\ tx' = Listening
  /\ UNCHANGED <<latest, node, results, onAir, executed, commandCrashes>>

\* A COMMAND_RESULT of the session of the latest telemetry.
ReceiveResult(r) ==
  /\ boot = "up"
  /\ tx.at = "listen"
  /\ latest # 0
  /\ r.session = latest
  /\ Confirm(r.id, r.type)
  /\ UNCHANGED taskVars

-----------------------------------------------------------------------------
(* The environment. *)

\* The Node starts a new persistent session; it remembers its last command.
NodeRestart ==
  /\ node.session < MaxSessions
  /\ node' = [node EXCEPT !.session = node.session + 1]
  /\ UNCHANGED <<storeVars, tx, latest, results, onAir, executed,
                 commandCrashes>>

StoreBegin == (LoadRecord \/ InitializeRecord) /\ UNCHANGED taskVars

Restart ==
  /\ commandCrashes < MaxCommandCrashes
  /\ commandCrashes' = commandCrashes + 1
  /\ StorePowerLoss
  /\ tx' = Listening
  /\ latest' = 0
  /\ UNCHANGED <<node, results, onAir, executed>>

CommandInit ==
  /\ StoreInit
  /\ tx = Listening
  /\ latest = 0
  /\ node = [session |-> 1, last |-> 0]
  /\ results = {}
  /\ onAir = {}
  /\ executed = {}
  /\ commandCrashes = 0

CommandNext ==
  \/ \E type \in Types : CreateCommand(type)
  \/ \E id \in CommandIds : CancelCommand(id)
  \/ ReceiveTelemetry
  \/ BuildAck
  \/ \E heard, succeeded \in BOOLEAN : TransmitAck(heard, succeeded)
  \/ MarkAckSent
  \/ \E r \in results : ReceiveResult(r)
  \/ NodeRestart
  \/ StoreBegin
  \/ Restart

CommandSpec == CommandInit /\ [][CommandNext]_commandVars

(***************************************************************************)
(* The tasks run, the Node keeps sending telemetry, and not every ACK and  *)
(* not every report is lost for ever.                                      *)
(***************************************************************************)
CommandFairness ==
  /\ WF_commandVars(StoreBegin)
  /\ WF_commandVars(BuildAck)
  /\ WF_commandVars(MarkAckSent)
  /\ SF_commandVars(ReceiveTelemetry /\ tx'.at = "build")
  /\ SF_commandVars(TransmitAck(TRUE, TRUE))
  /\ SF_commandVars(\E r \in results : ReceiveResult(r))

FairCommandSpec == CommandSpec /\ CommandFairness

-----------------------------------------------------------------------------
\* The variables have the types of what they hold.
CommandTypeOK ==
  /\ StoreTypeOK
  /\ tx \in [at : {"listen", "build", "transmit", "mark"}, command : Command]
  /\ latest \in Sessions \cup {0}
  /\ node \in [session : Sessions, last : CommandIds]
  /\ results \subseteq Result
  /\ onAir \subseteq [id : CommandIds, type : Types, serial : Nat]
  /\ executed \subseteq Nat
  /\ commandCrashes \in Nat

(***************************************************************************)
(* NoIdReuse.  Two commands that went on the air never share an id, so the *)
(* Node can tell a repetition from a new command.  (create() saves the     *)
(* allocator with the command before the command can be offered;           *)
(* docs/architecture.md: "preventing ID reuse after reboot".)              *)
(***************************************************************************)
NoIdReuse == \A a, b \in onAir : a.id = b.id => a = b

(***************************************************************************)
(* ConfirmedWasExecuted.  A command shown as CONFIRMED, now or after a     *)
(* reboot, is one that the Node carried out: no late report of an earlier  *)
(* command confirms a later one.  (confirm(): id and type.)                *)
(***************************************************************************)
ConfirmedWasExecuted ==
  \A r \in {record, nvs} \ {NoRecord} :
    r.command.state = "CONFIRMED" => r.command.serial \in executed

(***************************************************************************)
(* CommandSettles.  A command that is offered is in the end confirmed or   *)
(* cancelled, though ACKs and reports are lost, the Node changes session   *)
(* and the Gateway loses power.  (pendingForAck() offers SENT commands     *)
(* again in every ACK, and begin() restores them.)                         *)
(***************************************************************************)
CommandSettles ==
  boot = "up" /\ record.command.state \in Offered ~> record.command.state \in Done

-----------------------------------------------------------------------------
(***************************************************************************)
(* The inductive invariant behind the safety properties.  RecordInv: what  *)
(* record_ and the blob hold, and that they agree on the command while it  *)
(* is offered.  CopyInv: every copy of a command that left the store is    *)
(* known to both.  ReportInv: every report is about an executed command.   *)
(***************************************************************************)
RecordOK(r) ==
  /\ r.command.serial <= created
  /\ r.command.id < r.next
  /\ r.command.state \in Offered =>
       /\ r.command.type \in Types
       /\ r.command.id # 0
       /\ r.command.serial \notin finished
TxInv ==
  /\ boot # "up" => tx = Listening
  /\ tx.at \in {"listen", "build"} => tx.command = NoCommand
  /\ tx.at = "mark" => tx.command # NoCommand
  /\ tx.command # NoCommand => tx.command.type \in Types /\ tx.command.id # 0
RecordInv ==
  /\ boot # "up" => record = FreshRecord
  /\ RecordOK(record)
  /\ nvs # NoRecord => RecordOK(nvs)
  /\ boot = "up" /\ record.command.state \in Offered =>
       /\ nvs # NoRecord
       /\ nvs.next = record.next
       /\ Identity(nvs.command) = Identity(record.command)
  /\ \A s \in finished : s <= created
CommandInv == CommandTypeOK /\ TxInv /\ RecordInv

Copies == onAir \cup {Identity(c) : c \in {tx.command} \ {NoCommand}}
Knows(r, copies) ==
  \A c \in copies :
    c.id < r.next /\ (c.id = r.command.id => c = Identity(r.command))
CopyInv ==
  /\ \A a, b \in Copies : a.id = b.id => a = b
  /\ \A c \in Copies : c.id # 0
  /\ IF nvs = NoRecord THEN Copies = {} ELSE Knows(nvs, Copies)
  /\ boot = "up" => Knows(record, Copies)
  /\ boot = "initialize" => nvs = NoRecord
Reported(id, air, done) == \E c \in air : c.id = id /\ c.serial \in done
ReportInv ==
  /\ \A r \in results : Reported(r.id, onAir, executed)
  /\ node.last # 0 => Reported(node.last, onAir, executed)
  /\ ConfirmedWasExecuted
=============================================================================
