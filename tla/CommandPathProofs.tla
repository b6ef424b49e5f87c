------------------------- MODULE CommandPathProofs -------------------------
(***************************************************************************)
(* Proofs about CommandPath, for any number of commands, sessions, NVS     *)
(* faults and power losses.                                                *)
(***************************************************************************)
EXTENDS CommandPath, TLAPS

(* Facts about records. *)

\* Neither an empty store nor "no command" has anything to offer.
LEMMA FreshFacts ==
  /\ NoCommand \in Command
  /\ NoCommand.id = 0 /\ NoCommand.state = "NONE" /\ NoCommand.serial = 0
  /\ FreshRecord \in Record /\ FreshRecord # NoRecord
  /\ FreshRecord.next = 1 /\ FreshRecord.command = NoCommand
<1>1. /\ NoCommand \in Command
      /\ NoCommand.id = 0 /\ NoCommand.state = "NONE" /\ NoCommand.serial = 0
  BY CommandAssumption DEF NoCommand, Command, CommandIds
<1>2. 1 \in CommandIds
  BY CommandAssumption DEF CommandIds
<1>3. FreshRecord \in Record
  BY <1>1, <1>2 DEF FreshRecord, Record
<1> QED
  BY <1>1, <1>3, CommandAssumption DEF FreshRecord

\* The parts of a record have their types.
LEMMA RecordFacts ==
  ASSUME NEW r \in Record
  PROVE  /\ r.command \in Command /\ r.next \in CommandIds /\ r.next \in Nat
         /\ r.command.id \in CommandIds /\ r.command.id \in Nat
         /\ r.command.serial \in Nat
         /\ r.command.type \in Types \cup {"NONE"}
         /\ r # NoRecord
<1>1. r.command \in Command /\ r.next \in CommandIds
  BY DEF Record
<1>2. r.command.id \in CommandIds /\ r.command.serial \in Nat
      /\ r.command.type \in Types \cup {"NONE"}
  BY <1>1 DEF Command
<1> QED
  BY <1>1, <1>2, CommandAssumption DEF CommandIds

\* Changing the state of the command changes nothing else.
LEMMA WithStateFacts ==
  ASSUME record \in Record, NEW s \in Offered \cup Done
  PROVE  /\ WithState(s) \in Record
         /\ WithState(s).next = record.next
         /\ WithState(s).command.state = s
         /\ WithState(s).command.id = record.command.id
         /\ WithState(s).command.serial = record.command.serial
         /\ WithState(s).command.type = record.command.type
         /\ Identity(WithState(s).command) = Identity(record.command)
<1>1. record.command \in Command
  BY DEF Record
<1> DEFINE c == [record.command EXCEPT !.state = s]
<1>2. WithState(s) = [record EXCEPT !.command = c]
  BY DEF WithState, Record
<1>3. /\ c \in Command /\ c.state = s /\ c.id = record.command.id
      /\ c.serial = record.command.serial /\ c.type = record.command.type
  BY <1>1 DEF Command
<1> HIDE DEF c
<1>4. WithState(s) \in Record /\ WithState(s).next = record.next /\ WithState(s).command = c
  BY <1>2, <1>3 DEF Record
<1> QED
  BY <1>3, <1>4 DEF Identity

\* What create() is about to save.
LEMMA NewRecordFacts ==
  ASSUME record \in Record, record.next # LastCommandId, created \in Nat,
         NEW type \in Types
  PROVE  /\ NewRecord(type) \in Record
         /\ NewRecord(type).next = record.next + 1
         /\ NewRecord(type).command.id = record.next
         /\ NewRecord(type).command.serial = created + 1
         /\ NewRecord(type).command.type = type
         /\ NewRecord(type).command.state = "PENDING"
<1> DEFINE c == [id |-> record.next, type |-> type, state |-> "PENDING",
                 serial |-> created + 1]
<1>1. record.next \in CommandIds /\ record.next + 1 \in CommandIds
  BY RecordFacts, CommandAssumption DEF CommandIds
<1>2. /\ c \in Command /\ c.id = record.next /\ c.serial = created + 1
      /\ c.type = type /\ c.state = "PENDING"
  BY <1>1 DEF Command, Offered
<1> HIDE DEF c
<1>3. NewRecord(type) = [next |-> record.next + 1, command |-> c]
  BY DEF NewRecord, c
<1>4. /\ NewRecord(type) \in Record /\ NewRecord(type).next = record.next + 1
      /\ NewRecord(type).command = c
  BY <1>1, <1>2, <1>3 DEF Record
<1> QED
  BY <1>2, <1>4

\* commit() either makes the candidate current in RAM and NVS, or leaves
\* RAM alone.
LEMMA CommitCases ==
  ASSUME NEW candidate, Commit(candidate)
  PROVE  \/ record' = candidate /\ nvs' = candidate /\ NoteFinished(candidate.command)
         \/ record' = record /\ finished' = finished /\ nvs' \in {nvs, candidate}
  BY DEF Commit

\* The count of NVS faults stays a number.
LEMMA NvsFaultsType ==
  ASSUME commandFaults \in Nat, NEW kind, NvsWorks \/ NvsFails(kind)
  PROVE  commandFaults' \in Nat
  BY DEF NvsWorks, NvsFails

\* Types survive a commit().
LEMMA CommitType ==
  ASSUME StoreTypeOK, NEW candidate \in Record, Commit(candidate)
  PROVE  /\ nvs' \in Record \cup {NoRecord}
         /\ record' \in Record
         /\ finished' \subseteq Nat
         /\ commandFaults' \in Nat
<1>1. commandFaults' \in Nat
  BY NvsFaultsType DEF StoreTypeOK, Commit
<1>2. candidate.command.serial \in Nat
  BY RecordFacts
<1> QED
  BY <1>1, <1>2, CommitCases DEF StoreTypeOK, NoteFinished

-----------------------------------------------------------------------------
(* CommandInv: types, the transmit step and the agreement of RAM and NVS. *)

\* The invariant holds when the Gateway is first powered.
LEMMA CommandInvInit == CommandInit => CommandInv
<1> SUFFICES ASSUME CommandInit PROVE CommandInv
  OBVIOUS
<1>1. /\ record = FreshRecord /\ nvs = NoRecord /\ boot = "off" /\ created = 0
      /\ finished = {} /\ commandFaults = 0
  BY DEF CommandInit, StoreInit
<1>2. tx = Listening /\ tx.at = "listen" /\ tx.command = NoCommand
  BY DEF CommandInit, Listening
<1>3. tx \in [at : {"listen", "build", "transmit", "mark"}, command : Command]
  BY <1>2, FreshFacts DEF Listening
<1>4. node \in [session : Sessions, last : CommandIds]
  BY SessionAssumption, CommandAssumption DEF CommandInit, Sessions, CommandIds
<1>5. StoreTypeOK
  BY <1>1, FreshFacts DEF StoreTypeOK
<1>6. CommandTypeOK
  BY <1>3, <1>4, <1>5 DEF CommandInit, CommandTypeOK
<1>7. TxInv
  BY <1>2 DEF TxInv
<1>8. RecordOK(record)
  BY <1>1, FreshFacts DEF RecordOK, Offered
<1>9. RecordInv
  BY <1>1, <1>8, FreshFacts DEF RecordInv, Offered
<1> QED
  BY <1>6, <1>7, <1>9 DEF CommandInv

\* RecordInv survives a commit() that changes only the state of an offered
\* command.
LEMMA SetStateInv ==
  ASSUME CommandInv, boot = "up", record.command.state \in Offered,
         NEW s \in {"SENT", "CONFIRMED", "CANCELLED"},
         Commit(WithState(s)), UNCHANGED <<boot, created>>
  PROVE  RecordInv' /\ StoreTypeOK'
<1> DEFINE w == WithState(s)
<1>1. /\ w \in Record /\ w.next = record.next /\ w.command.state = s
      /\ w.command.id = record.command.id
      /\ w.command.serial = record.command.serial
      /\ w.command.type = record.command.type
      /\ Identity(w.command) = Identity(record.command)
  BY WithStateFacts DEF CommandInv, CommandTypeOK, StoreTypeOK, Offered, Done
<1>2. /\ record \in Record /\ w # NoRecord /\ Commit(w)
      /\ RecordOK(record) /\ RecordOK(nvs)
      /\ nvs # NoRecord /\ nvs \in Record /\ nvs.next = record.next
      /\ Identity(nvs.command) = Identity(record.command)
  BY <1>1, RecordFacts
     DEF CommandInv, CommandTypeOK, StoreTypeOK, RecordInv
<1> HIDE DEF w
<1>3. StoreTypeOK'
  BY <1>1, <1>2, CommitType DEF CommandInv, CommandTypeOK, StoreTypeOK
<1>4. record.command.serial <= created /\ record.command.serial \notin finished
      /\ record.command.id < record.next
      /\ record.command.type \in Types /\ record.command.id # 0
  BY <1>2 DEF RecordOK
<1>5. \A t \in finished' : t <= created'
  BY <1>1, <1>2, <1>4, CommitCases DEF CommandInv, RecordInv, NoteFinished
<1>6. CASE record' = w /\ nvs' = w /\ NoteFinished(w.command)
  <2>1. s \in Offered => finished' = finished
    BY <1>1, <1>6 DEF NoteFinished, Offered, Done
  <2>2. RecordOK(record)'
    BY <1>1, <1>4, <1>6, <2>1 DEF RecordOK
  <2>3. RecordOK(nvs)'
    BY <1>1, <1>4, <1>6, <2>1 DEF RecordOK
  <2> QED
    BY <1>2, <1>3, <1>5, <1>6, <2>2, <2>3 DEF RecordInv
<1>7. CASE record' = record /\ finished' = finished /\ nvs' \in {nvs, w}
  <2>1. RecordOK(record)'
    BY <1>2, <1>7 DEF RecordOK
  <2>2. RecordOK(nvs)'
    BY <1>1, <1>2, <1>4, <1>7 DEF RecordOK
  <2>3. nvs' # NoRecord /\ nvs'.next = record'.next
        /\ Identity(nvs'.command) = Identity(record'.command)
    BY <1>1, <1>2, <1>7
  <2> QED
    BY <1>3, <1>5, <2>1, <2>2, <2>3 DEF RecordInv
<1> QED
  BY <1>2, <1>6, <1>7, CommitCases

\* create()
LEMMA CreateInv ==
  ASSUME CommandInv, NEW type \in Types, CreateCommand(type)
  PROVE  CommandInv'
<1> DEFINE n == NewRecord(type)
<1>1. /\ boot = "up" /\ boot' = "up" /\ created' = created + 1
      /\ record.next # LastCommandId
      /\ record.command.state \notin Offered
      /\ Commit(n) /\ UNCHANGED taskVars
  BY DEF CreateCommand, Create
<1>2. record \in Record /\ created \in Nat /\ StoreTypeOK
  BY DEF CommandInv, CommandTypeOK, StoreTypeOK
<1>3. /\ n \in Record /\ n.next = record.next + 1
      /\ n.command.id = record.next /\ n.command.serial = created + 1
      /\ n.command.type = type /\ n.command.state = "PENDING" /\ n # NoRecord
  BY <1>1, <1>2, NewRecordFacts, RecordFacts
<1> HIDE DEF n
<1>4. /\ record.next \in Nat /\ record.command.id \in Nat
      /\ record.command.id < record.next
      /\ record.command.serial \in Nat /\ record.command.serial <= created
  BY <1>2, RecordFacts DEF CommandInv, RecordInv, RecordOK
<1>5. StoreTypeOK'
  BY <1>1, <1>2, <1>3, CommitType DEF StoreTypeOK
<1>6. CommandTypeOK'
  BY <1>1, <1>5 DEF CommandInv, CommandTypeOK, taskVars
<1>7. TxInv'
  BY <1>1 DEF CommandInv, TxInv, taskVars
<1>8. finished' = finished
  BY <1>1, <1>3, CommitCases DEF NoteFinished, Done
<1>9. \A s \in finished : s \in Nat /\ s <= created
  BY DEF CommandInv, RecordInv, CommandTypeOK, StoreTypeOK
<1>10. created + 1 \notin finished /\ \A s \in finished' : s <= created'
  BY <1>1, <1>2, <1>8, <1>9
<1>12. nvs' = n => RecordOK(nvs)'
  BY <1>1, <1>2, <1>3, <1>4, <1>8, <1>10 DEF RecordOK
<1>13. record' = n => RecordOK(record)'
  BY <1>1, <1>2, <1>3, <1>4, <1>8, <1>10 DEF RecordOK
<1>14. record' = record => RecordOK(record)'
  BY <1>1, <1>2, <1>4, <1>8 DEF CommandInv, RecordInv, RecordOK
<1>15. nvs' = nvs /\ nvs # NoRecord => RecordOK(nvs)'
  <2>1. nvs # NoRecord => nvs \in Record
    BY <1>2 DEF StoreTypeOK
  <2>2. nvs # NoRecord => nvs.command.serial \in Nat /\ nvs.command.serial <= created
    BY <2>1, RecordFacts DEF CommandInv, RecordInv, RecordOK
  <2> QED
    BY <1>1, <1>2, <1>8, <2>2 DEF CommandInv, RecordInv, RecordOK
<1>16. RecordInv'
  <2>1. CASE record' = n /\ nvs' = n
    BY <1>1, <1>3, <1>10, <1>12, <1>13, <2>1 DEF RecordInv
  <2>2. CASE record' = record /\ nvs' \in {nvs, n}
    BY <1>1, <1>3, <1>10, <1>12, <1>14, <1>15, <2>2 DEF RecordInv
  <2> QED
    BY <1>1, <2>1, <2>2, CommitCases
<1> QED
  BY <1>6, <1>7, <1>16 DEF CommandInv

\* cancel()
LEMMA CancelInv ==
  ASSUME CommandInv, NEW id, CancelCommand(id)
  PROVE  CommandInv'
<1>1. /\ boot = "up" /\ record.command.state \in Offered
      /\ Commit(WithState("CANCELLED")) /\ UNCHANGED <<boot, created>>
      /\ UNCHANGED taskVars
  BY DEF CancelCommand, Cancel, IsOpen
<1>2. RecordInv' /\ StoreTypeOK'
  BY <1>1, SetStateInv
<1>3. CommandTypeOK'
  BY <1>1, <1>2 DEF CommandInv, CommandTypeOK, taskVars
<1>4. TxInv'
  BY <1>1 DEF CommandInv, TxInv, taskVars
<1> QED
  BY <1>2, <1>3, <1>4 DEF CommandInv

\* confirm()
LEMMA ReceiveResultInv ==
  ASSUME CommandInv, NEW r, ReceiveResult(r)
  PROVE  CommandInv'
<1>1. /\ boot = "up" /\ record.command.state \in Offered
      /\ Commit(WithState("CONFIRMED")) /\ UNCHANGED <<boot, created>>
      /\ UNCHANGED taskVars
  BY DEF ReceiveResult, Confirm, IsOpen
<1>2. RecordInv' /\ StoreTypeOK'
  BY <1>1, SetStateInv
<1>3. CommandTypeOK'
  BY <1>1, <1>2 DEF CommandInv, CommandTypeOK, taskVars
<1>4. TxInv'
  BY <1>1 DEF CommandInv, TxInv, taskVars
<1> QED
  BY <1>2, <1>3, <1>4 DEF CommandInv

\* The radio task is listening again, with no copy of a command.
LEMMA ListeningFacts ==
  /\ Listening.at = "listen" /\ Listening.command = NoCommand
  /\ Listening \in [at : {"listen", "build", "transmit", "mark"}, command : Command]
  BY FreshFacts DEF Listening

\* markSent()
LEMMA MarkAckSentInv ==
  ASSUME CommandInv, MarkAckSent
  PROVE  CommandInv'
<1>1. /\ tx.at = "mark" /\ tx' = Listening /\ UNCHANGED <<boot, created>>
      /\ UNCHANGED <<latest, node, results, onAir, executed, commandCrashes>>
  BY DEF MarkAckSent, MarkSent
<1>2. boot = "up"
  BY <1>1, ListeningFacts DEF CommandInv, TxInv
<1>3. RecordInv' /\ StoreTypeOK'
  <2>1. CASE IsOpen(tx.command.id) /\ Commit(WithState("SENT"))
    BY <1>1, <1>2, <2>1, SetStateInv DEF IsOpen
  <2>2. CASE UNCHANGED <<nvs, record, finished, commandFaults>>
    BY <1>1, <2>2
       DEF CommandInv, RecordInv, RecordOK, CommandTypeOK, StoreTypeOK
  <2> QED
    BY <2>1, <2>2 DEF MarkAckSent, MarkSent
<1>4. CommandTypeOK'
  BY <1>1, <1>3, ListeningFacts DEF CommandInv, CommandTypeOK
<1>5. TxInv'
  BY <1>1, ListeningFacts DEF TxInv
<1> QED
  BY <1>3, <1>4, <1>5 DEF CommandInv

\* The steps that leave the store alone.
LEMMA StoreAlone ==
  ASSUME CommandInv, UNCHANGED storeVars
  PROVE  RecordInv' /\ StoreTypeOK'
  BY DEF CommandInv, RecordInv, RecordOK, CommandTypeOK, StoreTypeOK, storeVars

\* Telemetry moves the session and starts an ACK without a command.
LEMMA ReceiveTelemetryInv ==
  ASSUME CommandInv, ReceiveTelemetry
  PROVE  CommandInv'
<1>1. /\ boot = "up" /\ boot' = "up" /\ UNCHANGED storeVars
      /\ tx' \in {Listening, [Listening EXCEPT !.at = "build"]}
      /\ latest' = node.session
  BY DEF ReceiveTelemetry, storeVars
<1>2. /\ tx' \in [at : {"listen", "build", "transmit", "mark"}, command : Command]
      /\ tx'.at \in {"listen", "build"} /\ tx'.command = NoCommand
  BY <1>1, ListeningFacts
<1>3. latest' \in Sessions \cup {0}
  BY <1>1 DEF CommandInv, CommandTypeOK
<1>4. RecordInv' /\ StoreTypeOK'
  BY <1>1, StoreAlone
<1>5. CommandTypeOK'
  BY <1>2, <1>3, <1>4 DEF CommandInv, CommandTypeOK, ReceiveTelemetry
<1>6. TxInv'
  BY <1>1, <1>2 DEF TxInv
<1> QED
  BY <1>4, <1>5, <1>6 DEF CommandInv

\* What pendingForAck() hands out.
LEMMA PendingForAckFacts ==
  ASSUME CommandInv
  PROVE  /\ PendingForAck \in Command
         /\ PendingForAck # NoCommand =>
              /\ PendingForAck = record.command
              /\ record.command.state \in Offered
              /\ PendingForAck.type \in Types /\ PendingForAck.id # 0
<1>1. record.command \in Command
  BY RecordFacts DEF CommandInv, CommandTypeOK, StoreTypeOK
<1> QED
  BY <1>1, FreshFacts DEF PendingForAck, CommandInv, RecordInv, RecordOK

\* The copy in the ACK is a command of a known type with an id.
LEMMA BuildAckInv ==
  ASSUME CommandInv, BuildAck
  PROVE  CommandInv'
<1>1. /\ tx.at = "build" /\ UNCHANGED storeVars /\ UNCHANGED boot
      /\ tx' = [at |-> "transmit", command |-> PendingForAck]
  BY DEF BuildAck, storeVars
<1>2. boot = "up"
  BY <1>1, ListeningFacts DEF CommandInv, TxInv
<1>3. /\ tx' \in [at : {"listen", "build", "transmit", "mark"}, command : Command]
      /\ tx'.at = "transmit" /\ tx'.command = PendingForAck
  BY <1>1, PendingForAckFacts
<1>4. RecordInv' /\ StoreTypeOK'
  BY <1>1, StoreAlone
<1>5. CommandTypeOK'
  BY <1>3, <1>4 DEF CommandInv, CommandTypeOK, BuildAck
<1>6. TxInv'
  BY <1>1, <1>2, <1>3, PendingForAckFacts DEF TxInv
<1> QED
  BY <1>4, <1>5, <1>6 DEF CommandInv

\* Transmission changes the Node and the histories, not the store.
LEMMA TransmitAckInv ==
  ASSUME CommandInv, NEW heard \in BOOLEAN, NEW succeeded \in BOOLEAN,
         TransmitAck(heard, succeeded)
  PROVE  CommandInv'
<1>1. /\ tx.at = "transmit" /\ UNCHANGED storeVars /\ UNCHANGED boot
      /\ UNCHANGED <<latest, commandCrashes>>
  BY DEF TransmitAck, storeVars
<1>2. boot = "up"
  BY <1>1, ListeningFacts DEF CommandInv, TxInv
<1>3. /\ tx \in [at : {"listen", "build", "transmit", "mark"}, command : Command]
      /\ tx.command \in Command
  BY DEF CommandInv, CommandTypeOK
<1>4. /\ tx.command # NoCommand => tx.command.type \in Types /\ tx.command.id # 0
      /\ tx.command.id \in CommandIds /\ tx.command.serial \in Nat
  BY <1>3 DEF CommandInv, TxInv, Command
<1>5. \/ tx' = [tx EXCEPT !.at = "mark"] /\ tx.command # NoCommand
      \/ tx' = Listening
  BY DEF TransmitAck
<1>6. /\ tx' \in [at : {"listen", "build", "transmit", "mark"}, command : Command]
      /\ TxInv'
  <2>1. CASE tx' = Listening
    BY <2>1, ListeningFacts DEF TxInv
  <2>2. CASE tx' = [tx EXCEPT !.at = "mark"] /\ tx.command # NoCommand
    <3>1. tx' \in [at : {"listen", "build", "transmit", "mark"}, command : Command]
          /\ tx'.at = "mark" /\ tx'.command = tx.command
      BY <1>3, <2>2
    <3> QED
      BY <1>1, <1>2, <1>4, <2>2, <3>1 DEF TxInv
  <2> QED
    BY <1>5, <2>1, <2>2
<1>7. onAir' \subseteq [id : CommandIds, type : Types, serial : Nat]
  <2>1. tx.command # NoCommand =>
          Identity(tx.command) \in [id : CommandIds, type : Types, serial : Nat]
    BY <1>4 DEF Identity
  <2> QED
    BY <2>1 DEF TransmitAck, CommandInv, CommandTypeOK
<1>8. /\ node' \in [session : Sessions, last : CommandIds]
      /\ results' \subseteq Result /\ executed' \subseteq Nat
  <2>1. CASE heard /\ tx.command # NoCommand
    <3>1. NodeHears(tx.command)
      BY <2>1 DEF TransmitAck
    <3>2. node \in [session : Sessions, last : CommandIds] /\ node.session \in Sessions
      BY DEF CommandInv, CommandTypeOK
    <3>3. [session |-> node.session, id |-> tx.command.id, type |-> tx.command.type]
            \in Result
      BY <1>4, <2>1, <3>2 DEF Result
    <3>4. node' \in [session : Sessions, last : CommandIds]
      BY <1>4, <3>1, <3>2 DEF NodeHears
    <3>5. results' \subseteq Result
      BY <3>1, <3>3 DEF NodeHears, CommandInv, CommandTypeOK
    <3>6. executed' \subseteq Nat
      BY <1>4, <3>1 DEF NodeHears, CommandInv, CommandTypeOK
    <3> QED
      BY <3>4, <3>5, <3>6
  <2>2. CASE ~(heard /\ tx.command # NoCommand)
    <3>1. UNCHANGED <<node, results, executed>>
      BY <2>2 DEF TransmitAck
    <3> QED
      BY <3>1 DEF CommandInv, CommandTypeOK
  <2> QED
    BY <2>1, <2>2
<1>9. RecordInv' /\ StoreTypeOK'
  BY <1>1, StoreAlone
<1>10. CommandTypeOK'
  BY <1>1, <1>6, <1>7, <1>8, <1>9 DEF CommandInv, CommandTypeOK
<1> QED
  BY <1>6, <1>9, <1>10 DEF CommandInv

\* A new session of the Node stays in range and concerns no record.
LEMMA NodeRestartInv ==
  ASSUME CommandInv, NodeRestart
  PROVE  CommandInv'
<1>1. node' \in [session : Sessions, last : CommandIds]
  BY SessionAssumption DEF CommandInv, CommandTypeOK, NodeRestart, Sessions
<1>2. RecordInv' /\ StoreTypeOK'
  BY StoreAlone DEF NodeRestart
<1>3. CommandTypeOK'
  BY <1>1, <1>2 DEF CommandInv, CommandTypeOK, NodeRestart
<1>4. TxInv'
  BY DEF CommandInv, TxInv, NodeRestart, storeVars
<1> QED
  BY <1>2, <1>3, <1>4 DEF CommandInv

\* begin() makes the blob, or a fresh record, current.
LEMMA StoreBeginInv ==
  ASSUME CommandInv, StoreBegin
  PROVE  CommandInv'
<1>1. boot # "up" /\ record = FreshRecord /\ tx = Listening /\ UNCHANGED taskVars
      /\ UNCHANGED <<created, finished>>
  BY DEF StoreBegin, LoadRecord, InitializeRecord, CommandInv, TxInv, RecordInv
<1>2. /\ RecordOK(FreshRecord) /\ RecordOK(FreshRecord)'
      /\ FreshRecord.command.state \notin Offered
  BY FreshFacts, <1>1 DEF RecordOK, Offered, CommandInv, CommandTypeOK, StoreTypeOK
<1>3. StoreTypeOK
  BY DEF CommandInv, CommandTypeOK
<1>4. RecordInv' /\ StoreTypeOK'
  <2>1. CASE nvs # NoRecord /\ NvsWorks /\ record' = nvs /\ boot' = "up" /\ nvs' = nvs
    <3>1. RecordOK(nvs)' /\ RecordOK(record)'
      BY <1>1, <2>1 DEF CommandInv, RecordInv, RecordOK
    <3>2. StoreTypeOK'
      BY <1>1, <1>3, <2>1 DEF StoreTypeOK, NvsWorks
    <3> QED
      BY <1>1, <2>1, <3>1, <3>2 DEF RecordInv, CommandInv
  <2>2. CASE /\ (nvs = NoRecord /\ NvsWorks) \/ NvsFails("load")
             /\ record' = FreshRecord /\ boot' = "initialize" /\ nvs' = nvs
    <3>1. commandFaults' \in Nat
      BY <1>3, <2>2, NvsFaultsType DEF StoreTypeOK
    <3>2. StoreTypeOK'
      BY <1>1, <1>3, <2>2, <3>1, FreshFacts DEF StoreTypeOK
    <3>3. nvs # NoRecord => RecordOK(nvs)'
      BY <1>1, <2>2 DEF CommandInv, RecordInv, RecordOK
    <3>4. RecordOK(record)'
      BY <1>2, <2>2 DEF RecordOK
    <3> QED
      BY <1>1, <2>2, <3>2, <3>3, <3>4 DEF RecordInv, CommandInv
  <2>3. CASE /\ boot' = "up" /\ record' = record
             /\ \/ NvsWorks /\ nvs' = FreshRecord
                \/ NvsFails("save") /\ nvs' \in {nvs, FreshRecord}
    <3>1. commandFaults' \in Nat
      BY <1>3, <2>3, NvsFaultsType DEF StoreTypeOK
    <3>2. StoreTypeOK'
      BY <1>1, <1>3, <2>3, <3>1, FreshFacts DEF StoreTypeOK
    <3>3. nvs' # NoRecord => RecordOK(nvs)'
      BY <1>1, <1>2, <2>3 DEF CommandInv, RecordInv, RecordOK
    <3>4. RecordOK(record)' /\ record'.command.state \notin Offered
      BY <1>1, <1>2, <2>3 DEF RecordOK
    <3> QED
      BY <1>1, <2>3, <3>2, <3>3, <3>4 DEF RecordInv, CommandInv
  <2> QED
    BY <2>1, <2>2, <2>3 DEF StoreBegin, LoadRecord, InitializeRecord
<1>5. CommandTypeOK'
  BY <1>1, <1>4 DEF CommandInv, CommandTypeOK, taskVars
<1>6. TxInv'
  BY <1>1, ListeningFacts DEF TxInv, taskVars
<1> QED
  BY <1>4, <1>5, <1>6 DEF CommandInv

\* A power loss leaves the blob, the fresh record in RAM and no ACK.
LEMMA RestartInv ==
  ASSUME CommandInv, Restart
  PROVE  CommandInv'
<1>1. /\ boot' = "off" /\ record' = FreshRecord /\ tx' = Listening /\ latest' = 0
      /\ UNCHANGED <<nvs, created, finished, commandFaults>>
      /\ UNCHANGED <<node, results, onAir, executed>>
  BY DEF Restart, StorePowerLoss
<1>2. commandCrashes' \in Nat
  BY DEF Restart, CommandInv, CommandTypeOK
<1>3. StoreTypeOK'
  BY <1>1, FreshFacts DEF CommandInv, CommandTypeOK, StoreTypeOK
<1>4. CommandTypeOK'
  BY <1>1, <1>2, <1>3, ListeningFacts DEF CommandInv, CommandTypeOK
<1>5. TxInv'
  BY <1>1, ListeningFacts DEF TxInv
<1>6. RecordOK(record)'
  BY <1>1, FreshFacts DEF RecordOK, Offered, CommandInv, CommandTypeOK, StoreTypeOK
<1>7. nvs # NoRecord => RecordOK(nvs)'
  BY <1>1 DEF CommandInv, RecordInv, RecordOK
<1>8. RecordInv'
  BY <1>1, <1>6, <1>7 DEF CommandInv, RecordInv
<1> QED
  BY <1>4, <1>5, <1>8 DEF CommandInv

\* A step of nobody.
LEMMA CommandStutter ==
  ASSUME CommandInv, UNCHANGED commandVars
  PROVE  CommandInv'
<1>1. RecordInv' /\ StoreTypeOK'
  BY StoreAlone DEF commandVars
<1>2. CommandTypeOK'
  BY <1>1 DEF CommandInv, CommandTypeOK, commandVars, taskVars
<1>3. TxInv'
  BY DEF CommandInv, TxInv, commandVars, taskVars, storeVars
<1> QED
  BY <1>1, <1>2, <1>3 DEF CommandInv

\* Every step preserves CommandInv.
LEMMA CommandInvStep ==
  ASSUME CommandInv, [CommandNext]_commandVars
  PROVE  CommandInv'
  BY CreateInv, CancelInv, ReceiveTelemetryInv, BuildAckInv, TransmitAckInv,
     MarkAckSentInv, ReceiveResultInv, NodeRestartInv, StoreBeginInv, RestartInv,
     CommandStutter DEF CommandNext

(***************************************************************************)
(* The agreement of RAM and NVS holds throughout, whichever NVS calls fail.*)
(***************************************************************************)
THEOREM CommandInvInvariant == CommandSpec => []CommandInv
<1>1. CommandInv /\ [CommandNext]_commandVars => CommandInv'
  BY CommandInvStep
<1> QED
  BY <1>1, CommandInvInit, PTL DEF CommandSpec

(***************************************************************************)
(* Type correctness: among others, no id beyond the last one is given out  *)
(* or sent, and what is in NVS is a record that valid() accepts.           *)
(***************************************************************************)
THEOREM CommandTypeCorrect == CommandSpec => []CommandTypeOK
<1>1. CommandInv => CommandTypeOK
  BY DEF CommandInv
<1> QED
  BY <1>1, CommandInvInvariant, PTL

(***************************************************************************)
(* A command that was confirmed or cancelled is never offered again, for   *)
(* any number of commands, failed saves, failed loads and power losses.    *)
(***************************************************************************)
THEOREM FinishedNeverOffered == CommandSpec => []FinishedStaysFinished
<1>1. CommandInv => FinishedStaysFinished
  BY DEF CommandInv, RecordInv, RecordOK, FinishedStaysFinished
<1> QED
  BY <1>1, CommandInvInvariant, PTL

-----------------------------------------------------------------------------
(***************************************************************************)
(* CopyInv and ReportInv, under the assumption that a stored record can    *)
(* always be loaded.                                                       *)
(***************************************************************************)

\* The ids of copies are numbers.
LEMMA CopyType ==
  ASSUME CommandInv, NEW c \in Copies
  PROVE  c.id \in Nat
<1>1. CASE c \in onAir
  BY <1>1 DEF CommandInv, CommandTypeOK, CommandIds
<1>2. CASE c = Identity(tx.command)
  BY <1>2 DEF CommandInv, CommandTypeOK, CommandIds, Command, Identity
<1> QED
  BY <1>1, <1>2 DEF Copies

\* Copies that are known to a record stay known when there are fewer of them
\* and the record keeps its allocator and its command.
LEMMA KnowsKept ==
  ASSUME NEW r, NEW q, NEW S, NEW T, Knows(r, S), T \subseteq S,
         q.next = r.next, Identity(q.command) = Identity(r.command)
  PROVE  Knows(q, T)
<1>1. q.command.id = r.command.id
  BY DEF Identity
<1> QED
  BY <1>1 DEF Knows

\* CopyInv survives when the copies get fewer and the records stay.
LEMMA FewerCopies ==
  ASSUME CopyInv, Copies' \subseteq Copies,
         nvs' = nvs, boot' # "initialize",
         boot' = "up" => boot = "up" /\ record' = record
  PROVE  CopyInv'
<1>1. IF nvs' = NoRecord THEN Copies' = {} ELSE Knows(nvs', Copies')
  BY DEF CopyInv, Knows
<1>2. boot' = "up" => Knows(record', Copies')
  BY DEF CopyInv, Knows
<1>3. \A a, b \in Copies' : a.id = b.id => a = b
  BY DEF CopyInv
<1>4. \A c \in Copies' : c.id # 0
  BY DEF CopyInv
<1> QED
  BY <1>1, <1>2, <1>3, <1>4 DEF CopyInv

\* CopyInv survives a commit() of a record that knows all copies.
LEMMA CommitCopies ==
  ASSUME CopyInv, boot = "up", boot' = "up", Copies' \subseteq Copies,
         NEW w \in Record, Knows(w, Copies), Commit(w)
  PROVE  CopyInv'
<1>1. Knows(record, Copies) /\ (nvs # NoRecord => Knows(nvs, Copies))
      /\ (nvs = NoRecord => Copies = {})
  BY DEF CopyInv
<1>2. w # NoRecord
  BY RecordFacts
<1>3. IF nvs' = NoRecord THEN Copies' = {} ELSE Knows(nvs', Copies')
  <2>1. nvs' = w \/ nvs' = nvs
    BY CommitCases
  <2> QED
    BY <1>1, <1>2, <2>1 DEF Knows
<1>4. Knows(record', Copies')
  <2>1. record' = w \/ record' = record
    BY CommitCases
  <2> QED
    BY <1>1, <2>1 DEF Knows
<1>5. \A a, b \in Copies' : a.id = b.id => a = b
  BY DEF CopyInv
<1>6. \A c \in Copies' : c.id # 0
  BY DEF CopyInv
<1> QED
  BY <1>3, <1>4, <1>5, <1>6 DEF CopyInv

\* The same for a change of the state of the current command.
LEMMA SetStateCopies ==
  ASSUME CommandInv, CopyInv, boot = "up", boot' = "up", Copies' \subseteq Copies,
         NEW s \in Offered \cup Done, Commit(WithState(s))
  PROVE  CopyInv'
<1>1. /\ WithState(s) \in Record /\ WithState(s).next = record.next
      /\ Identity(WithState(s).command) = Identity(record.command)
  BY WithStateFacts DEF CommandInv, CommandTypeOK, StoreTypeOK
<1>2. Knows(record, Copies)
  BY DEF CopyInv
<1>3. Knows(WithState(s), Copies)
  BY <1>1, <1>2, KnowsKept
<1> QED
  BY <1>1, <1>3, CommitCopies

\* A new command takes an id above every copy.
LEMMA CreateCopies ==
  ASSUME CommandInv, CopyInv, NEW type \in Types, CreateCommand(type)
  PROVE  CopyInv'
<1> DEFINE n == NewRecord(type)
<1>1. /\ boot = "up" /\ boot' = "up" /\ Commit(n)
      /\ record.next # LastCommandId /\ Copies' = Copies
  BY DEF CreateCommand, Create, taskVars, Copies
<1>2. record \in Record /\ created \in Nat
  BY DEF CommandInv, CommandTypeOK, StoreTypeOK
<1>3. n \in Record /\ n.next = record.next + 1 /\ n.command.id = record.next
  BY <1>1, <1>2, NewRecordFacts
<1> HIDE DEF n
<1>4. record.next \in Nat
  BY <1>2, RecordFacts
<1>5. \A c \in Copies : c.id \in Nat /\ c.id < record.next
  BY <1>1, CopyType DEF CopyInv, Knows
<1>6. Knows(n, Copies)
  BY <1>3, <1>4, <1>5 DEF Knows
<1> QED
  BY <1>1, <1>3, <1>6, CommitCopies

\* The copy taken for the ACK is the current command of both records.
LEMMA BuildAckCopies ==
  ASSUME CommandInv, CopyInv, BuildAck
  PROVE  CopyInv'
<1>1. /\ tx.at = "build" /\ UNCHANGED storeVars /\ onAir' = onAir
      /\ tx'.command = PendingForAck
  BY DEF BuildAck
<1>2. boot = "up" /\ tx.command = NoCommand
  BY <1>1, ListeningFacts DEF CommandInv, TxInv
<1>3. UNCHANGED <<nvs, record, boot>>
  BY <1>1 DEF storeVars
<1>4. Copies = onAir
  BY <1>2 DEF Copies
<1>5. CASE PendingForAck = NoCommand
  <2>1. Copies' = onAir
    BY <1>1, <1>5 DEF Copies
  <2> QED
    BY <1>2, <1>3, <1>4, <2>1, FewerCopies
<1>6. CASE PendingForAck # NoCommand
  <2> DEFINE d == Identity(record.command)
  <2>1. /\ PendingForAck = record.command /\ record.command.state \in Offered
        /\ record.command.id # 0
    BY <1>6, PendingForAckFacts
  <2>2. Copies' = onAir \cup {d}
    BY <1>1, <1>6, <2>1 DEF Copies
  <2>3. /\ nvs # NoRecord /\ nvs.next = record.next
        /\ Identity(nvs.command) = d
        /\ record.command.id < record.next
    BY <1>2, <2>1 DEF CommandInv, RecordInv, RecordOK
  <2>4. d.id = record.command.id /\ nvs.command.id = d.id
    BY <2>3 DEF Identity
  <2> HIDE DEF d
  <2>5. Knows(record, Copies)
    BY <1>2 DEF CopyInv
  <2>6. \A c \in onAir : c.id < record.next /\ (c.id = d.id => c = d)
    BY <1>4, <2>4, <2>5 DEF Knows, d
  <2>7. Knows(record', Copies')
    BY <1>3, <2>2, <2>3, <2>4, <2>6 DEF Knows, d
  <2>8. Knows(nvs', Copies')
    BY <1>3, <2>2, <2>3, <2>4, <2>6 DEF Knows
  <2>9. \A a, b \in Copies' : a.id = b.id => a = b
    BY <1>4, <2>2, <2>6 DEF CopyInv
  <2>10. \A c \in Copies' : c.id # 0
    BY <1>4, <2>1, <2>2, <2>4 DEF CopyInv
  <2> QED
    BY <1>2, <1>3, <2>3, <2>7, <2>8, <2>9, <2>10 DEF CopyInv
<1> QED
  BY <1>5, <1>6

\* If the stored record can be loaded, begin() forgets no copy.
LEMMA StoreBeginCopies ==
  ASSUME CommandInv, CopyInv, StoreBegin, "load" \notin CommandFaults
  PROVE  CopyInv'
<1>1. Copies' = Copies
  BY DEF StoreBegin, taskVars, Copies
<1>2. \A a, b \in Copies' : a.id = b.id => a = b
  BY <1>1 DEF CopyInv
<1>3. \A c \in Copies' : c.id # 0
  BY <1>1 DEF CopyInv
<1>4. CASE nvs # NoRecord /\ record' = nvs /\ boot' = "up" /\ nvs' = nvs
  BY <1>1, <1>2, <1>3, <1>4 DEF CopyInv
<1>5. CASE nvs = NoRecord /\ boot' = "initialize" /\ nvs' = nvs
  BY <1>1, <1>2, <1>3, <1>5 DEF CopyInv
<1>6. CASE boot = "initialize" /\ boot' = "up"
  <2>1. Copies' = {}
    BY <1>1, <1>6 DEF CopyInv
  <2> QED
    BY <1>6, <2>1 DEF CopyInv, Knows
<1> QED
  BY <1>4, <1>5, <1>6 DEF StoreBegin, LoadRecord, InitializeRecord, NvsFails

\* Every step preserves CopyInv.
LEMMA CopyInvStep ==
  ASSUME CommandInv, CopyInv, [CommandNext]_commandVars,
         "load" \notin CommandFaults
  PROVE  CopyInv'
<1>1. ASSUME NEW type \in Types, CreateCommand(type) PROVE CopyInv'
  BY <1>1, CreateCopies
<1>2. ASSUME NEW id \in CommandIds, CancelCommand(id) PROVE CopyInv'
  <2>1. Copies' = Copies /\ boot = "up" /\ boot' = "up" /\ Commit(WithState("CANCELLED"))
    BY <1>2 DEF CancelCommand, Cancel, taskVars, Copies
  <2> QED
    BY <2>1, SetStateCopies DEF Done
<1>3. CASE ReceiveTelemetry
  <2>1. tx.command = NoCommand /\ tx'.command = NoCommand /\ onAir' = onAir
    BY <1>3, ListeningFacts DEF ReceiveTelemetry, CommandInv, TxInv, Listening
  <2>2. Copies' = Copies
    BY <2>1 DEF Copies
  <2> QED
    BY <1>3, <2>2, FewerCopies DEF ReceiveTelemetry, storeVars
<1>4. CASE BuildAck
  BY <1>4, BuildAckCopies
<1>5. ASSUME NEW heard \in BOOLEAN, NEW succeeded \in BOOLEAN,
             TransmitAck(heard, succeeded)
      PROVE  CopyInv'
  <2>1. /\ tx'.command = tx.command \/ tx'.command = NoCommand
        /\ UNCHANGED storeVars /\ tx.at = "transmit"
    BY <1>5, ListeningFacts DEF TransmitAck, CommandInv, CommandTypeOK
  <2>2. onAir' \subseteq Copies
    BY <1>5 DEF TransmitAck, Copies
  <2>3. Copies' \subseteq Copies
    BY <2>1, <2>2 DEF Copies
  <2>4. boot = "up"
    BY <2>1, ListeningFacts DEF CommandInv, TxInv
  <2> QED
    BY <2>1, <2>3, <2>4, FewerCopies DEF storeVars
<1>6. CASE MarkAckSent
  <2>1. /\ tx' = Listening /\ onAir' = onAir /\ tx.at = "mark" /\ boot' = boot
    BY <1>6 DEF MarkAckSent, MarkSent
  <2>2. Copies' \subseteq Copies
    BY <2>1, ListeningFacts DEF Copies
  <2>3. boot = "up"
    BY <2>1, ListeningFacts DEF CommandInv, TxInv
  <2>4. CASE Commit(WithState("SENT"))
    BY <2>1, <2>2, <2>3, <2>4, SetStateCopies DEF Offered
  <2>5. CASE UNCHANGED <<nvs, record>>
    BY <2>1, <2>2, <2>3, <2>5, FewerCopies
  <2> QED
    BY <1>6, <2>4, <2>5 DEF MarkAckSent, MarkSent
<1>7. ASSUME NEW r \in results, ReceiveResult(r) PROVE CopyInv'
  <2>1. Copies' = Copies /\ boot = "up" /\ boot' = "up" /\ Commit(WithState("CONFIRMED"))
    BY <1>7 DEF ReceiveResult, Confirm, taskVars, Copies
  <2> QED
    BY <2>1, SetStateCopies DEF Done
<1>8. CASE NodeRestart
  <2>1. Copies' = Copies /\ UNCHANGED <<nvs, record, boot>>
    BY <1>8 DEF NodeRestart, Copies, storeVars
  <2> QED
    BY <2>1 DEF CopyInv
<1>9. CASE StoreBegin
  BY <1>9, StoreBeginCopies
<1>10. CASE Restart
  <2>1. tx' = Listening /\ onAir' = onAir /\ nvs' = nvs /\ boot' = "off"
    BY <1>10 DEF Restart, StorePowerLoss
  <2>2. Copies' \subseteq Copies
    BY <2>1, ListeningFacts DEF Copies
  <2> QED
    BY <2>1, <2>2, FewerCopies
<1>11. CASE UNCHANGED commandVars
  <2>1. Copies' = Copies /\ UNCHANGED <<nvs, record, boot>>
    BY <1>11 DEF commandVars, taskVars, storeVars, Copies
  <2> QED
    BY <2>1 DEF CopyInv
<1> QED
  BY <1>1, <1>2, <1>3, <1>4, <1>5, <1>6, <1>7, <1>8, <1>9, <1>10, <1>11
     DEF CommandNext

\* No copy exists when the Gateway is first powered.
LEMMA CopyInvInit == CommandInit => CopyInv
<1> SUFFICES ASSUME CommandInit PROVE CopyInv
  OBVIOUS
<1>1. Copies = {}
  BY ListeningFacts DEF CommandInit, Copies
<1> QED
  BY <1>1 DEF CommandInit, StoreInit, CopyInv, Knows

(***************************************************************************)
(* As long as the stored record can be loaded, no two commands that went   *)
(* on the air share an id, for any number of power losses and failed saves *)
(* (those included that wrote the blob and reported failure).              *)
(***************************************************************************)
THEOREM IdsNeverReused ==
  "load" \notin CommandFaults => (CommandSpec => []NoIdReuse)
<1> SUFFICES ASSUME "load" \notin CommandFaults PROVE CommandSpec => []NoIdReuse
  OBVIOUS
<1>1. CommandInv /\ CopyInv /\ [CommandNext]_commandVars => CopyInv'
  BY CopyInvStep
<1>2. CopyInv => NoIdReuse
  BY DEF CopyInv, NoIdReuse, Copies
<1> QED
  BY <1>1, <1>2, CopyInvInit, CommandInvInvariant, PTL DEF CommandSpec

-----------------------------------------------------------------------------
(* ReportInv. *)

\* Reports stay true: nothing that happened is undone.
LEMMA ReportedKept ==
  ASSUME ReportInv, onAir \subseteq onAir', executed \subseteq executed',
         results' = results, node'.last = node.last
  PROVE  /\ \A r \in results' : Reported(r.id, onAir', executed')
         /\ node'.last # 0 => Reported(node'.last, onAir', executed')
  BY DEF ReportInv, Reported

\* A commit() of an unconfirmed record confirms nothing.
LEMMA CommitConfirms ==
  ASSUME ConfirmedWasExecuted, NEW w, Commit(w), executed' = executed,
         w.command.state = "CONFIRMED" => w.command.serial \in executed
  PROVE  ConfirmedWasExecuted'
<1>1. record' \in {record, w} /\ nvs' \in {nvs, w}
  BY CommitCases
<1> QED
  BY <1>1 DEF ConfirmedWasExecuted

\* What the Node reports on hearing an ACK is on the air and executed.
LEMMA TransmitAckReports ==
  ASSUME CommandInv, ReportInv, NEW heard \in BOOLEAN, NEW succeeded \in BOOLEAN,
         TransmitAck(heard, succeeded)
  PROVE  ReportInv'
<1>1. UNCHANGED <<record, nvs>> /\ onAir \subseteq onAir'
  BY DEF TransmitAck, storeVars
<1>2. CASE heard /\ tx.command # NoCommand
  <2> DEFINE c == tx.command
  <2>1. NodeHears(c) /\ Identity(c) \in onAir' /\ c.id # 0
    BY <1>2 DEF TransmitAck, CommandInv, TxInv
  <2>2. executed \subseteq executed' /\ node'.last = c.id
    BY <2>1 DEF NodeHears, CommandInv, CommandTypeOK
  <2>3. Identity(c).id = c.id /\ Identity(c).serial = c.serial
    BY DEF Identity
  <2>4. \A id : Reported(id, onAir, executed) => Reported(id, onAir', executed')
    BY <1>1, <2>2 DEF Reported
  <2>5. Reported(c.id, onAir', executed')
    <3>1. CASE c.id = node.last
      BY <2>1, <2>4, <3>1 DEF ReportInv
    <3>2. CASE c.id # node.last
      <4>1. c.serial \in executed'
        BY <2>1, <3>2 DEF NodeHears
      <4> QED
        BY <1>1, <2>1, <2>3, <4>1 DEF Reported, TransmitAck
    <3> QED
      BY <3>1, <3>2
  <2>6. \A r \in results' : r \in results \/ r.id = c.id
    BY <2>1 DEF NodeHears
  <2>7. \A r \in results' : Reported(r.id, onAir', executed')
    BY <2>4, <2>5, <2>6 DEF ReportInv
  <2>8. ConfirmedWasExecuted'
    BY <1>1, <2>2 DEF ReportInv, ConfirmedWasExecuted
  <2>9. Reported(node'.last, onAir', executed')
    BY <2>2, <2>5
  <2> QED
    BY <2>7, <2>8, <2>9 DEF ReportInv
<1>3. CASE ~(heard /\ tx.command # NoCommand)
  <2>1. UNCHANGED <<node, results, executed>>
    BY <1>3 DEF TransmitAck
  <2>2. ConfirmedWasExecuted'
    BY <1>1, <2>1 DEF ReportInv, ConfirmedWasExecuted
  <2> QED
    BY <1>1, <2>1, <2>2, ReportedKept DEF ReportInv
<1> QED
  BY <1>2, <1>3

\* A report matches the current command only if that one was executed.
LEMMA ReceiveResultReports ==
  ASSUME CommandInv, CopyInv, ReportInv, NEW r \in results, ReceiveResult(r)
  PROVE  ReportInv'
<1>1. /\ boot = "up" /\ r.id = record.command.id /\ Commit(WithState("CONFIRMED"))
      /\ UNCHANGED <<onAir, executed, results, node>>
  BY DEF ReceiveResult, Confirm, IsOpen, taskVars
<1>2. PICK c \in onAir : c.id = r.id /\ c.serial \in executed
  BY DEF ReportInv, Reported
<1>3. c = Identity(record.command)
  BY <1>1, <1>2 DEF CopyInv, Knows, Copies
<1>4. record.command.serial \in executed
  BY <1>2, <1>3 DEF Identity
<1>5. WithState("CONFIRMED").command.serial \in executed
  BY <1>4, WithStateFacts DEF CommandInv, CommandTypeOK, StoreTypeOK, Done
<1>6. ConfirmedWasExecuted'
  BY <1>1, <1>5, CommitConfirms DEF ReportInv
<1> QED
  BY <1>1, <1>6, ReportedKept DEF ReportInv

\* Every step preserves ReportInv.
LEMMA ReportInvStep ==
  ASSUME CommandInv, CopyInv, ReportInv, [CommandNext]_commandVars
  PROVE  ReportInv'
<1>1. ASSUME NEW type \in Types, CreateCommand(type) PROVE ReportInv'
  <2>1. /\ Commit(NewRecord(type)) /\ record.next # LastCommandId
        /\ UNCHANGED <<onAir, executed, results, node>>
    BY <1>1 DEF CreateCommand, Create, taskVars
  <2>2. NewRecord(type).command.state = "PENDING"
    BY <2>1, NewRecordFacts DEF CommandInv, CommandTypeOK, StoreTypeOK
  <2>3. ConfirmedWasExecuted'
    BY <2>1, <2>2, CommitConfirms DEF ReportInv
  <2> QED
    BY <2>1, <2>3, ReportedKept DEF ReportInv
<1>2. ASSUME NEW id \in CommandIds, CancelCommand(id) PROVE ReportInv'
  <2>1. /\ Commit(WithState("CANCELLED"))
        /\ UNCHANGED <<onAir, executed, results, node>>
    BY <1>2 DEF CancelCommand, Cancel, taskVars
  <2>2. WithState("CANCELLED").command.state = "CANCELLED"
    BY WithStateFacts DEF CommandInv, CommandTypeOK, StoreTypeOK, Done
  <2>3. ConfirmedWasExecuted'
    BY <2>1, <2>2, CommitConfirms DEF ReportInv
  <2> QED
    BY <2>1, <2>3, ReportedKept DEF ReportInv
<1>3. CASE ReceiveTelemetry \/ BuildAck
  <2>1. UNCHANGED <<record, nvs, onAir, executed, results, node>>
    BY <1>3 DEF ReceiveTelemetry, BuildAck, storeVars
  <2> QED
    BY <2>1, ReportedKept DEF ReportInv, ConfirmedWasExecuted
<1>4. ASSUME NEW heard \in BOOLEAN, NEW succeeded \in BOOLEAN,
             TransmitAck(heard, succeeded)
      PROVE  ReportInv'
  BY <1>4, TransmitAckReports
<1>5. CASE MarkAckSent
  <2>1. UNCHANGED <<onAir, executed, results, node>>
    BY <1>5 DEF MarkAckSent
  <2>2. ConfirmedWasExecuted'
    <3>1. CASE Commit(WithState("SENT"))
      <4>1. WithState("SENT").command.state = "SENT"
        BY WithStateFacts DEF CommandInv, CommandTypeOK, StoreTypeOK, Offered
      <4> QED
        BY <2>1, <3>1, <4>1, CommitConfirms DEF ReportInv
    <3>2. CASE UNCHANGED <<nvs, record>>
      BY <2>1, <3>2 DEF ReportInv, ConfirmedWasExecuted
    <3> QED
      BY <1>5, <3>1, <3>2 DEF MarkAckSent, MarkSent
  <2> QED
    BY <2>1, <2>2, ReportedKept DEF ReportInv
<1>6. ASSUME NEW r \in results, ReceiveResult(r) PROVE ReportInv'
  BY <1>6, ReceiveResultReports
<1>7. CASE NodeRestart
  <2>1. UNCHANGED <<record, nvs, onAir, executed, results>> /\ node'.last = node.last
    BY <1>7 DEF NodeRestart, storeVars, CommandInv, CommandTypeOK
  <2> QED
    BY <2>1, ReportedKept DEF ReportInv, ConfirmedWasExecuted
<1>8. CASE StoreBegin \/ Restart
  <2>1. UNCHANGED <<onAir, executed, results, node>>
    BY <1>8 DEF StoreBegin, Restart, taskVars
  <2>2. record' \in {record, nvs, FreshRecord} /\ nvs' \in {nvs, FreshRecord}
        /\ (record' = nvs => nvs # NoRecord \/ record' = FreshRecord \/ record' = record)
    BY <1>8 DEF StoreBegin, LoadRecord, InitializeRecord, Restart, StorePowerLoss
  <2>3. FreshRecord.command.state # "CONFIRMED"
    BY FreshFacts
  <2>4. ConfirmedWasExecuted'
    BY <2>1, <2>2, <2>3 DEF ReportInv, ConfirmedWasExecuted
  <2> QED
    BY <2>1, <2>4, ReportedKept DEF ReportInv
<1>9. CASE UNCHANGED commandVars
  <2>1. UNCHANGED <<record, nvs, onAir, executed, results, node>>
    BY <1>9 DEF commandVars, taskVars, storeVars
  <2> QED
    BY <2>1, ReportedKept DEF ReportInv, ConfirmedWasExecuted
<1> QED
  BY <1>1, <1>2, <1>3, <1>4, <1>5, <1>6, <1>7, <1>8, <1>9 DEF CommandNext

\* Nothing has been reported when the Gateway is first powered.
LEMMA ReportInvInit == CommandInit => ReportInv
  BY FreshFacts
     DEF CommandInit, StoreInit, ReportInv, ConfirmedWasExecuted

(***************************************************************************)
(* As long as the stored record can be loaded, a command shown as          *)
(* CONFIRMED was carried out by the Node, however late, repeated or lost   *)
(* the reports of this and of earlier commands are.                        *)
(***************************************************************************)
THEOREM ConfirmedMeansExecuted ==
  "load" \notin CommandFaults => (CommandSpec => []ConfirmedWasExecuted)
<1> SUFFICES ASSUME "load" \notin CommandFaults
             PROVE  CommandSpec => []ConfirmedWasExecuted
  OBVIOUS
<1>1. CommandInv /\ CopyInv /\ [CommandNext]_commandVars => CopyInv'
  BY CopyInvStep
<1>2. CommandInv /\ CopyInv /\ ReportInv /\ [CommandNext]_commandVars => ReportInv'
  BY ReportInvStep
<1>3. ReportInv => ConfirmedWasExecuted
  BY DEF ReportInv
<1> QED
  BY <1>1, <1>2, <1>3, CopyInvInit, ReportInvInit, CommandInvInvariant, PTL
     DEF CommandSpec

=============================================================================
