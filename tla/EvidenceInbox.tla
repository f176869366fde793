---------------------------- MODULE EvidenceInbox ----------------------------
(***************************************************************************)
(* The tool results a session retains on disk (src/evidence.ts): its own,  *)
(* and those another session sends it (src/p2p/client.ts,                  *)
(* handleTransferStream; src/p2p/transfer.ts), which arrive in an inbox    *)
(* first.  Each is copied into a directory of its own, partial until it is *)
(* renamed, one at a time; the session may end in the middle and begin     *)
(* again over what it left on disk.                                        *)
(*                                                                         *)
(* What a result says, and whether its hash is right, is not modelled.     *)
(***************************************************************************)
EXTENDS Integers, FiniteSetsExt

CONSTANTS
  Items,       \* results, each retained at most once
  Received,    \* those that arrive by transfer
  Size,        \* per result, the bytes of its output
  RecordSize,  \* the bytes of its record
  MaxBytes,    \* getEvidenceMaxBytes()
  NoItem,
  MaxCrash     \* bound: ends of the session in the middle of something

ASSUME EvidenceAssumption ==
  /\ IsFiniteSet(Items) /\ Received \subseteq Items /\ NoItem \notin Items
  /\ Size \in [Items -> Nat] /\ {RecordSize, MaxBytes, MaxCrash} \subseteq Nat

VARIABLES
  stage,       \* per result, how far it has come
  writer,      \* the result whose turn it is in the mutation queue of the store
  available,   \* available: what that one may write
  written,     \* bytes in its partial directory
  stray,       \* bytes in partial directories whose session ended
  inbox,       \* received results with files under the inbox
  crashes

evidenceVars == <<stage, writer, available, written, stray, inbox, crashes>>

EvidenceTypeOK ==
  /\ stage \in [Items -> {"idle", "arriving", "queued", "writing", "kept", "told", "deleted",
                         "failed"}]
  /\ writer \in Items \cup {NoItem}
  /\ available \in Int /\ written \in Nat /\ stray \in Nat
  /\ inbox \subseteq Received /\ crashes \in 0 .. MaxCrash

EvidenceInit ==
  /\ stage = [i \in Items |-> "idle"]
  /\ writer = NoItem /\ available = 0 /\ written = 0
  /\ stray = 0 /\ inbox = {} /\ crashes = 0

Becomes(i, s) == stage' = [stage EXCEPT ![i] = s]

Bytes(i) == Size[i] + RecordSize

Usage_OfRecords == MapThenSumSet(Bytes, {i \in Items : stage[i] \in {"kept", "told"}})

\* usage(): every directory under the root counts, a partial one too.
Usage ==
  MapThenSumSet(Bytes, {i \in Items : stage[i] \in {"kept", "told"}}) + written + stray

---------------------------------------------------------------------------
(* What comes in *)

\* The session's own tool results.
ToolResult(i) ==
  /\ i \notin Received /\ stage[i] = "idle" /\ Becomes(i, "queued")
  /\ UNCHANGED <<writer, available, written, stray, inbox, crashes>>

\* checkCapacity, before the files of a transfer are read; another result may take the room.
TransferComes(i) ==
  /\ i \in Received /\ stage[i] = "idle"
  /\ IF Usage + Bytes(i) > MaxBytes
       THEN Becomes(i, "failed") /\ UNCHANGED inbox
       ELSE Becomes(i, "arriving") /\ inbox' = inbox \cup {i}
  /\ UNCHANGED <<writer, available, written, stray, crashes>>

\* receiveTransferFiles: the files are complete, or the stream is not.
Arrived(i) ==
  /\ stage[i] = "arriving"
  /\ \/ Becomes(i, "queued") /\ UNCHANGED inbox
     \/ Becomes(i, "failed") /\ inbox' = inbox \ {i}
  /\ UNCHANGED <<writer, available, written, stray, crashes>>

---------------------------------------------------------------------------
(* retain, in the mutation queue *)

QueueIsFree == writer = NoItem

Turn_FromRecords(i) ==
  /\ QueueIsFree /\ stage[i] = "queued" /\ Becomes(i, "writing")
  /\ writer' = i /\ available' = MaxBytes - Usage_OfRecords /\ written' = 0
  /\ UNCHANGED <<stray, inbox, crashes>>

\* What is available is found in the turn, not before it.
Turn(i) ==
  /\ QueueIsFree /\ stage[i] = "queued" /\ Becomes(i, "writing")
  /\ writer' = i /\ available' = MaxBytes - Usage /\ written' = 0
  /\ UNCHANGED <<stray, inbox, crashes>>

\* The copy, the record or the rename fails: the partial directory is removed, and with it
\* what came by transfer.
RetainFails(i) ==
  /\ stage[i] = "writing" /\ Becomes(i, "failed")
  /\ writer' = NoItem /\ written' = 0 /\ inbox' = inbox \ {i}
  /\ UNCHANGED <<available, stray, crashes>>

Copy(i) ==
  /\ stage[i] = "writing" /\ written < Size[i] /\ written + 1 <= available
  /\ written' = written + 1
  /\ UNCHANGED <<stage, writer, available, stray, inbox, crashes>>

WriteRecord(i) ==
  /\ stage[i] = "writing" /\ written = Size[i] /\ Bytes(i) <= available
  /\ written' = Bytes(i)
  /\ UNCHANGED <<stage, writer, available, stray, inbox, crashes>>

Retained(i) ==
  /\ stage[i] = "writing" /\ written = Bytes(i)
  /\ Becomes(i, "kept") /\ writer' = NoItem /\ written' = 0
  /\ UNCHANGED <<available, stray, inbox, crashes>>

---------------------------------------------------------------------------
(* After that *)

\* The message is emitted and the sender has its answer; the files in the inbox are removed.
Tell(i) ==
  /\ i \in Received /\ stage[i] = "kept" /\ Becomes(i, "told") /\ inbox' = inbox \ {i}
  /\ UNCHANGED <<writer, available, written, stray, crashes>>

\* delete, in the same queue.  A result whose transfer has not been answered yet cannot be
\* shown then (card): the sender is told it failed, and the inbox is tidied as well.
Delete(i) ==
  /\ QueueIsFree /\ stage[i] \in {"kept", "told"}
  /\ Becomes(i, "deleted") /\ inbox' = inbox \ {i}
  /\ UNCHANGED <<writer, available, written, stray, crashes>>

\* The session ends and another begins: no one removes what the old one left.
EvidenceCrash ==
  /\ crashes < MaxCrash /\ crashes' = crashes + 1
  /\ stage' = [i \in Items |-> IF stage[i] \in {"arriving", "queued", "writing"}
                                 THEN "failed" ELSE stage[i]]
  /\ stray' = stray + written /\ written' = 0 /\ writer' = NoItem
  /\ UNCHANGED <<available, inbox>>

EvidenceNext ==
  \/ \E i \in Items :
       \/ ToolResult(i) \/ TransferComes(i) \/ Arrived(i) \/ Turn(i) \/ RetainFails(i)
       \/ Copy(i) \/ WriteRecord(i) \/ Retained(i) \/ Tell(i) \/ Delete(i)
  \/ EvidenceCrash

EvidenceSpec == EvidenceInit /\ [][EvidenceNext]_evidenceVars

---------------------------------------------------------------------------
(* Properties *)

\* The store never holds more than it may, whatever finished between the check of a transfer
\* and its turn, and whatever an earlier session left half written; and the inbox holds
\* nothing of a transfer that is over, unless a session ended (retain, checkCapacity, usage;
\* README.md:104).
EvidenceFits ==
  /\ Usage <= MaxBytes
  /\ crashes = 0 => \A i \in inbox : stage[i] \in {"arriving", "queued", "writing", "kept"}
=============================================================================
