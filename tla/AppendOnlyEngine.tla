-------------------------- MODULE AppendOnlyEngine --------------------------
(***************************************************************************)
(* The append-only storage engine of one queue                             *)
(* (crates/aurum-storage/src/engine.rs, payload, queue_index, ack_ledger,  *)
(* recovery/image.rs) under a process that may die, or a disk that may     *)
(* refuse, in the middle of any write.  A publish appends one record to    *)
(* the payload log and then one to the queue index; an ack appends one to  *)
(* the ack ledger.  After a failed write nothing is written until the      *)
(* engine is opened again, and opening changes no file.                    *)
(***************************************************************************)
EXTENDS SegmentFile

CONSTANTS
    MaxSeq,       \* bounds of the model: messages,
    MaxRecords,   \* records appended,
    MaxTears      \* and writes cut short

ASSUME EngineAssumption == MaxSeq \in Nat /\ MaxRecords \in Nat /\ MaxTears \in Nat

VARIABLES
    payload, index, ledger,   \* the files
    open,                     \* is the engine open and healthy?
    next_seq,                 \* the caller's next sequence number
    tears,                    \* number of writes cut short
    records,                  \* records begun; numbers them
    published, settled,       \* sequence numbers of appends that returned Ok
    whole                     \* records of which every byte was written

vars == <<payload, index, ledger, open, next_seq, tears, records, published, settled, whole>>

Init ==
    /\ payload = <<>> /\ index = <<>> /\ ledger = <<>>
    /\ open = TRUE
    /\ next_seq = 0 /\ tears = 0 /\ records = 0
    /\ published = {} /\ settled = {} /\ whole = {}

Range(base, count) == base .. base + count - 1

Record(base, count) == [number |-> records, base |-> base, count |-> count, at |-> 0]

(* An index record points to the payload record it was written for. *)
IndexRecord(base, count) ==
    [Record(base, count) EXCEPT !.at = Len(payload) + 1]

(* Wrong: writes the index before the payload. *)
MutIndexFirst(count) ==
    /\ open /\ next_seq + count <= MaxSeq /\ records < MaxRecords /\ tears < MaxTears
    /\ \E part \in Writes(Record(next_seq, count)) :
           /\ payload' = payload \o part
           /\ index' = index \o encode_record(IndexRecord(next_seq, count))
    /\ open' = FALSE
    /\ tears' = tears + 1
    /\ records' = records + 1
    /\ whole' = whole \cup {records}
    /\ UNCHANGED <<ledger, next_seq, published, settled>>

append_publish(count) ==
    /\ open /\ next_seq + count <= MaxSeq /\ records < MaxRecords
    /\ payload' = payload \o encode_record(Record(next_seq, count))
    /\ index' = index \o encode_record(IndexRecord(next_seq, count))
    /\ published' = published \cup Range(next_seq, count)
    /\ next_seq' = next_seq + count
    /\ records' = records + 1
    /\ whole' = whole \cup {records}
    /\ UNCHANGED <<ledger, open, tears, settled>>

(* The write to the payload log, or the one to the index after it, is cut  *)
(* short; the index may even be complete when the process dies.            *)
PublishCutShort(count) ==
    /\ open /\ next_seq + count <= MaxSeq /\ records < MaxRecords /\ tears < MaxTears
    /\ LET stored  == encode_record(Record(next_seq, count))
           indexed == encode_record(IndexRecord(next_seq, count))
       IN  \/ \E part \in Writes(Record(next_seq, count)) \ {stored} :
                  payload' = payload \o part /\ UNCHANGED <<index, whole>>
           \/ \E part \in Writes(IndexRecord(next_seq, count)) :
                  /\ payload' = payload \o stored
                  /\ index' = index \o part
                  /\ whole' = IF part = indexed THEN whole \cup {records} ELSE whole
    /\ open' = FALSE
    /\ tears' = tears + 1
    /\ records' = records + 1
    /\ UNCHANGED <<ledger, next_seq, published, settled>>

append_ack_range(start, len) ==
    /\ open /\ Range(start, len) \subseteq published \ settled /\ records < MaxRecords
    /\ ledger' = ledger \o encode_record(Record(start, len))
    /\ settled' = settled \cup Range(start, len)
    /\ records' = records + 1
    /\ whole' = whole \cup {records}
    /\ UNCHANGED <<payload, index, open, next_seq, tears, published>>

AckCutShort(start, len) ==
    /\ open /\ Range(start, len) \subseteq published \ settled /\ records < MaxRecords
    /\ tears < MaxTears
    /\ \E part \in Writes(Record(start, len)) :
           /\ ledger' = ledger \o part
           /\ whole' = IF part = encode_record(Record(start, len))
                       THEN whole \cup {records} ELSE whole
    /\ open' = FALSE
    /\ tears' = tears + 1
    /\ records' = records + 1
    /\ UNCHANGED <<payload, index, next_seq, published, settled>>

-----------------------------------------------------------------------------
(* Recovery: indexed and not settled, unless a file has a corrupt record. *)
EntriesOf(recs) == UNION {Range(recs[i].base, recs[i].count) : i \in DOMAIN recs}

recover_queue ==
    LET indexed == scan_segment_bytes(index)
        acks    == scan_segment_bytes(ledger)
        entries == EntriesOf(indexed.records)
    IN  [ok       |-> indexed.result # "corrupt" /\ acks.result # "corrupt",
         ready    |-> entries \ EntriesOf(acks.records),
         next_seq |-> IF entries = {} THEN 0
                      ELSE 1 + CHOOSE m \in entries : \A e \in entries : e <= m]

(* Open again; the caller goes on from the image's next_seq. *)
Reopen ==
    /\ ~ open
    /\ recover_queue.ok
    /\ open' = TRUE
    /\ next_seq' = recover_queue.next_seq
    /\ UNCHANGED <<payload, index, ledger, tears, records, published, settled, whole>>

Next ==
    \/ \E count \in 1 .. MaxSeq : append_publish(count)
    \/ \E count \in 1 .. MaxSeq : PublishCutShort(count)
    \/ \E start \in 0 .. MaxSeq - 1, len \in 1 .. MaxSeq : append_ack_range(start, len)
    \/ \E start \in 0 .. MaxSeq - 1, len \in 1 .. MaxSeq : AckCutShort(start, len)
    \/ Reopen

Spec == Init /\ [][Next]_vars

-----------------------------------------------------------------------------
(***************************************************************************)
(* A write that was cut short costs nothing that was reported written, as  *)
(* long as it is the last: the truncated tail is ignored and every         *)
(* published message that is not settled is recovered.  (One more may be:  *)
(* the publish that died after its index record was complete.)             *)
(***************************************************************************)
TornTailIsHarmless ==
    (tears = 0 \/ (tears = 1 /\ ~ open)) =>
        /\ recover_queue.ok
        /\ published \ settled \subseteq recover_queue.ready \cup
               EntriesOf(scan_segment_bytes(ledger).records)
        /\ settled \cap recover_queue.ready = {}

(***************************************************************************)
(* A record of the index that recovery reads always has its payload: the   *)
(* payload was written before it, and at the offset it names, whatever     *)
(* torn records lie around it.                                             *)
(***************************************************************************)
IndexedHasPayload ==
    LET recs == scan_segment_bytes(index).records
    IN  \A i \in DOMAIN recs :
            \E rec \in read_record_at(payload, recs[i].at) :
                rec.number = recs[i].number

(***************************************************************************)
(* Scanning returns records of which every byte was written, in the order  *)
(* in which they were, and nothing that a torn record and the bytes after  *)
(* it happen to look like.                                                 *)
(***************************************************************************)
ScanNeverInvents ==
    \A file \in {index, ledger} :
        LET recs == scan_segment_bytes(file).records
        IN  /\ \A i \in DOMAIN recs : recs[i].number \in whole
            /\ \A i, j \in DOMAIN recs : i < j => recs[i].number < recs[j].number

(***************************************************************************)
(* "Truncated final record: ignore partial tail; recover valid prefix":    *)
(* recovery succeeds and returns every published message that is not       *)
(* settled, also when the engine was opened again after a torn write.      *)
(***************************************************************************)
PublishedIsRecovered ==
    /\ recover_queue.ok
    /\ published \ settled \subseteq recover_queue.ready \cup
           EntriesOf(scan_segment_bytes(ledger).records)
=============================================================================
