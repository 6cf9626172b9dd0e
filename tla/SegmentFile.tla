---------------------------- MODULE SegmentFile ----------------------------
(***************************************************************************)
(* A segment file (crates/aurum-storage/src/segment, record, io): records  *)
(* are appended at the end of the file, scanned from its start, and read   *)
(* at an offset.  The file is a sequence of units.  A record is written as *)
(* one header unit and one unit for each entry of its body; a write that   *)
(* is cut short leaves a first part of them, and, inside the header, a     *)
(* partial header.                                                         *)
(*                                                                         *)
(* Bytes that follow a partial header complete it to a header of some      *)
(* other record.  It is refused (BadMagic, UnsupportedVersion, ...) or its *)
(* body length runs past the end of the file; which, is decided by where   *)
(* the write was cut.                                                      *)
(***************************************************************************)
EXTENDS Integers, Sequences, FiniteSets

Partial(reads_as) == [part |-> "partial", reads_as |-> reads_as]
PartialHeaders == {Partial("refused"), Partial("too_long")}

(* A record has a number, a first sequence number and a count of entries. *)
encode_record(rec) ==
    <<[part |-> "header", rec |-> rec]>>
        \o [i \in 1 .. rec.count |-> [part |-> "body", rec |-> rec, entry |-> i]]

(* Every part of a record that a write may leave: all of it, some of its   *)
(* units, or some bytes of its header.                                     *)
Writes(rec) ==
    {SubSeq(encode_record(rec), 1, n) : n \in 0 .. rec.count + 1}
        \cup {<<p>> : p \in PartialHeaders}

(* Wrong: does not compare the checksum. *)
MutNoChecksum(file, pos) ==
    LET unit == file[pos]
    IN  IF unit.part = "partial"
        THEN IF pos = Len(file) \/ unit.reads_as = "too_long" THEN "truncated" ELSE "corrupt"
        ELSE IF unit.part = "body" THEN "corrupt"
        ELSE IF pos + unit.rec.count > Len(file) THEN "truncated"
        ELSE "ok"

(* Wrong: an incomplete record at the end is an error. *)
MutTailCorrupt(file, pos) ==
    IF file[pos].part = "header"
       /\ SubSeq(file, pos, pos + file[pos].rec.count) = encode_record(file[pos].rec)
    THEN "ok"
    ELSE "corrupt"

(* What decode_record finds at pos of the file. *)
decode_record(file, pos) ==
    LET unit  == file[pos]
        count == unit.rec.count
    IN  IF unit.part = "partial"
        THEN IF pos = Len(file) \/ unit.reads_as = "too_long" THEN "truncated" ELSE "corrupt"
        ELSE IF unit.part = "body" THEN "corrupt"                      \* BadMagic
        ELSE IF pos + count > Len(file) THEN "truncated"               \* BodyTooShort
        ELSE IF SubSeq(file, pos, pos + count) = encode_record(unit.rec)
        THEN "ok"
        ELSE "corrupt"                                                 \* CrcMismatch

(* Records up to a truncated tail, or an error at a corrupt record. *)
RECURSIVE ScanFrom(_, _, _)
ScanFrom(file, pos, records) ==
    IF pos > Len(file)
    THEN [records |-> records, result |-> "ok"]
    ELSE LET found == decode_record(file, pos)
         IN  IF found = "ok"
             THEN ScanFrom(file, pos + file[pos].rec.count + 1, Append(records, file[pos].rec))
             ELSE [records |-> records, result |-> found]

scan_segment_bytes(file) == ScanFrom(file, 1, <<>>)

(* The record at an offset, none if it does not decode. *)
read_record_at(file, offset) ==
    IF offset <= Len(file) /\ decode_record(file, offset) = "ok"
    THEN {file[offset].rec}
    ELSE {}
============================================================================
