---------------------------- MODULE CommandStore ----------------------------
(***************************************************************************)
(* The persistent command store (lib/commands): one command and the id     *)
(* allocator, kept in RAM (record_) and as one NVS blob.  Every operation  *)
(* runs under mutex_, works on a copy, saves the copy and only then makes  *)
(* it current, so an operation is one action.                              *)
(*                                                                         *)
(* A failed save reports failure, but the blob may have been written all   *)
(* the same (nvs_set_blob worked, nvs_commit did not): NVS then holds the  *)
(* old record or the new one.                                              *)
(*                                                                         *)
(* Times, send count, payload and result code of a command are left out;   *)
(* `serial` tells apart the commands created and exists only here.         *)
(***************************************************************************)
EXTENDS Integers, FiniteSets

CONSTANTS
  Types,          \* command types other than kNone
  NoRecord,       \* NVS holds no blob, or one that valid() rejects
  LastCommandId,  \* stands for UINT32_MAX, at which create() refuses
  MaxCreates,     \* bound on the calls of create() that reach commit()
  CommandFaults,  \* NVS calls that may fail: "load", "save"
  MaxCommandFaults

VARIABLES
  nvs,           \* the blob "state" of namespace gathra-cmd
  record,        \* record_
  boot,          \* how far begin() is; once "up" the tasks run
  created,       \* number of commands created so far (last serial)
  finished,      \* serials that were confirmed or cancelled
  commandFaults  \* NVS faults so far

storeVars == <<nvs, record, boot, created, finished, commandFaults>>

CommandIds == 0 .. LastCommandId
Offered == {"PENDING", "SENT"}          \* states that pendingForAck() offers
Done == {"CONFIRMED", "CANCELLED"}
Command == [id : CommandIds, type : Types \cup {"NONE"},
            state : {"NONE"} \cup Offered \cup Done, serial : Nat]
NoCommand == [id |-> 0, type |-> "NONE", state |-> "NONE", serial |-> 0]
Record == [next : CommandIds, command : Command]

ASSUME CommandAssumption ==
  /\ LastCommandId \in Nat \ {0}
  /\ MaxCreates \in Nat
  /\ CommandFaults \subseteq {"load", "save"}
  /\ MaxCommandFaults \in Nat
  /\ "NONE" \notin Types
  /\ NoRecord \notin Record

\* initialize()
FreshRecord == [next |-> 1, command |-> NoCommand]

NvsWorks == UNCHANGED commandFaults
NvsFails(kind) ==
  /\ kind \in CommandFaults
  /\ commandFaults < MaxCommandFaults
  /\ commandFaults' = commandFaults + 1

(***************************************************************************)
(* commit(): save, then make the candidate current.                        *)
(***************************************************************************)
NoteFinished(c) ==
  finished' = IF c.state \in Done THEN finished \cup {c.serial} ELSE finished
\* Mutant: the candidate becomes current even if it could not be saved.
CommitUnsaved(candidate) ==
  /\ record' = candidate
  /\ NoteFinished(candidate.command)
  /\ \/ NvsWorks /\ nvs' = candidate
     \/ NvsFails("save") /\ nvs' \in {nvs, candidate}
Commit(candidate) ==
  \/ /\ NvsWorks
     /\ nvs' = candidate
     /\ record' = candidate
     /\ NoteFinished(candidate.command)
  \/ /\ NvsFails("save")
     /\ nvs' \in {nvs, candidate}
     /\ UNCHANGED <<record, finished>>

\* begin(): load the record, or replace what cannot be loaded by a fresh one.
\* The tasks start whether or not that could be saved.
LoadRecord ==
  /\ boot = "off"
  /\ \/ /\ nvs # NoRecord
        /\ NvsWorks
        /\ record' = nvs
        /\ boot' = "up"
     \/ /\ \/ nvs = NoRecord /\ NvsWorks
           \/ NvsFails("load")
        /\ record' = FreshRecord
        /\ boot' = "initialize"
  /\ UNCHANGED <<nvs, created, finished>>

InitializeRecord ==
  /\ boot = "initialize"
  /\ boot' = "up"
  /\ \/ NvsWorks /\ nvs' = FreshRecord
     \/ NvsFails("save") /\ nvs' \in {nvs, FreshRecord}
  /\ UNCHANGED <<record, created, finished>>

\* create(): one command at a time, and the allocator is saved with it.
\* Mutant: the id is taken but the allocator is not advanced.
NewRecordSameNext(type) ==
  [next |-> record.next,
   command |-> [id |-> record.next, type |-> type, state |-> "PENDING",
                serial |-> created + 1]]
NewRecord(type) ==
  [next |-> record.next + 1,
   command |-> [id |-> record.next, type |-> type, state |-> "PENDING",
                serial |-> created + 1]]
\* Mutant: the end of the id space is not noticed.
CreateUnlimited(type) ==
  /\ boot = "up"
  /\ created < MaxCreates
  /\ record.command.state \notin Offered
  /\ Commit(NewRecord(type))
  /\ created' = created + 1
  /\ UNCHANGED boot
Create(type) ==
  /\ boot = "up"
  /\ created < MaxCreates
  /\ record.next # LastCommandId
  /\ record.command.state \notin Offered
  /\ Commit(NewRecord(type))
  /\ created' = created + 1
  /\ UNCHANGED boot

\* The current command, if it has this id and is still offered.
\* Mutant: the id is not compared.
IsOpenAny(id) == id # 0 /\ record.command.state \in Offered
IsOpen(id) ==
  /\ id # 0
  /\ id = record.command.id
  /\ record.command.state \in Offered

WithState(state) == [record EXCEPT !.command.state = state]

\* markSent(), after an ACK with the command went out.
MarkSent(id) ==
  /\ \/ IsOpen(id) /\ Commit(WithState("SENT"))
     \/ ~IsOpen(id) /\ UNCHANGED <<nvs, record, finished, commandFaults>>
  /\ UNCHANGED <<boot, created>>

\* confirm() for a result of this id and type; one that does not match is
\* ignored, one for a confirmed command counts as a duplicate.
Confirm(id, type) ==
  /\ IsOpen(id)
  /\ type = record.command.type
  /\ Commit(WithState("CONFIRMED"))
  /\ UNCHANGED <<boot, created>>

\* cancel(), from the dashboard.
Cancel(id) ==
  /\ boot = "up"
  /\ IsOpen(id)
  /\ Commit(WithState("CANCELLED"))
  /\ UNCHANGED <<boot, created>>

\* pendingForAck(): what the next ACK carries.
\* Mutant: a command is offered until it has been sent once.
OfferedOnce == IF record.command.state = "PENDING" THEN record.command ELSE NoCommand
PendingForAck ==
  IF record.command.state \in Offered THEN record.command ELSE NoCommand

\* Power loss: the blob stays.
StorePowerLoss ==
  /\ boot # "off"
  /\ boot' = "off"
  /\ record' = FreshRecord
  /\ UNCHANGED <<nvs, created, finished, commandFaults>>

StoreInit ==
  /\ nvs = NoRecord
  /\ record = FreshRecord
  /\ boot = "off"
  /\ created = 0
  /\ finished = {}
  /\ commandFaults = 0

StoreTypeOK ==
  /\ nvs \in Record \cup {NoRecord}
  /\ record \in Record
  /\ boot \in {"off", "initialize", "up"}
  /\ created \in Nat
  /\ finished \subseteq Nat
  /\ commandFaults \in Nat

(***************************************************************************)
(* FinishedStaysFinished.  A command that was confirmed or cancelled is    *)
(* never offered to the Node again: not by a markSent() for an ACK that    *)
(* was on its way meanwhile, not after a failed save, not after a reboot.  *)
(* (docs/architecture.md: "A Gateway reboot restores PENDING/SENT and      *)
(* retransmits; CONFIRMED is not retransmitted.")                          *)
(***************************************************************************)
FinishedStaysFinished ==
  \A r \in {record, nvs} \ {NoRecord} :
    r.command.state \in Offered => r.command.serial \notin finished
=============================================================================
