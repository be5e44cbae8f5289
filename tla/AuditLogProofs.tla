--------------------------- MODULE AuditLogProofs ---------------------------
(***************************************************************************)
(* Proofs about the audit log, for every number of calls, crashes and      *)
(* clears.                                                                 *)
(***************************************************************************)
EXTENDS AuditLog, TLAPS

(* The records in memory are numbered, of this epoch, and all logged.      *)
MemoryInv ==
  \A i \in DOMAIN records :
    /\ records[i].audit_id = i - 1
    /\ records[i].epoch = epoch
    /\ records[i].n < logged

(* The record being written is the last of all that were logged.           *)
WritingInv == writing # NoRecord => writing.n + 1 = logged

(* What the file has of this epoch is in memory too: an id that is given   *)
(* by counting the records in memory is new in the file as well.           *)
FileInv ==
  \A i \in Whole :
    /\ file[i].n < logged
    /\ file[i].epoch <= epoch
    /\ file[i].epoch = epoch => \E k \in DOMAIN records : file[i] = records[k]

(* The part of IdNamesOneRecord that is about the file alone               *)
FileIds ==
  \A i, j \in Whole :
    file[i].epoch = file[j].epoch /\ file[i].audit_id = file[j].audit_id
      => file[i] = file[j]

IInv == /\ TypeOK /\ MemoryInv /\ WritingInv /\ FileInv
        /\ FileIsHistory /\ FileIds /\ LossNeedsFailure

(* A record made by a log call is a record.                                *)
LEMMA MadeType ==
  ASSUME TypeOK, NEW rec \in Recommendations, NEW type \in EventTypes,
         NEW actor \in Actors
  PROVE  /\ Made(rec, type, actor) \in Record
         /\ Made(rec, type, actor).audit_id = Len(records)
         /\ Made(rec, type, actor).epoch = epoch
         /\ Made(rec, type, actor).n = logged
BY DEF TypeOK, Made, Record

(* The invariant holds of a log that was just opened.                      *)
LEMMA InitInv == Init => IInv
<1> SUFFICES ASSUME Init PROVE IInv
  OBVIOUS
<1> Whole = {}
  BY DEF Init, Whole
<1>1. <<>> \in Seq(Record) /\ <<>> \in Seq(Record \cup {Garbled})
  OBVIOUS
<1>2. TypeOK
  BY <1>1 DEF Init, TypeOK
<1> QED
  BY <1>2 DEF Init, IInv, MemoryInv, WritingInv, FileInv, FileIsHistory, FileIds,
              LossNeedsFailure

(* A log call changes memory only, and its record is newer than the file.  *)
LEMMA LogInv ==
  ASSUME IInv, NEW rec \in Recommendations, NEW type \in EventTypes,
         NEW actor \in Actors, Log(rec, type, actor)
  PROVE  IInv'
<1> USE DEF IInv
<1> DEFINE new == Made(rec, type, actor)
<1>1. /\ new \in Record /\ new.audit_id = Len(records)
      /\ new.epoch = epoch /\ new.n = logged /\ new # NoRecord
  BY MadeType, NoRecordAssumption
<1>2. /\ records' = Append(records, new) /\ writing' = new /\ logged' = logged + 1
      /\ writing = NoRecord
      /\ file' = file /\ torn' = torn /\ epoch' = epoch /\ faulty' = faulty
  BY DEF Log
<1>3. /\ records \in Seq(Record) /\ logged \in Nat /\ epoch \in Nat
      /\ file \in Seq(Record \cup {Garbled})
  BY DEF TypeOK
<1> HIDE DEF new
<1>4. /\ DOMAIN records = 1..Len(records) /\ DOMAIN records' = 1..(Len(records) + 1)
      /\ records'[Len(records) + 1] = new
      /\ \A i \in DOMAIN records : i \in DOMAIN records' /\ records'[i] = records[i]
      /\ Len(records') = Len(records) + 1
      /\ records' \in Seq(Record)
  BY <1>1, <1>2, <1>3
<1>5. Whole' = Whole
  BY <1>2 DEF Whole
<1>6. \A i \in Whole : file[i] \in Record
  BY <1>3 DEF Whole
<1>7. TypeOK'
  BY <1>1, <1>2, <1>3, <1>4 DEF TypeOK
<1>8. MemoryInv'
  <2> SUFFICES ASSUME NEW i \in DOMAIN records'
               PROVE  /\ records'[i].audit_id = i - 1
                      /\ records'[i].epoch = epoch
                      /\ records'[i].n < logged + 1
    BY <1>2 DEF MemoryInv
  <2>1. CASE i = Len(records) + 1
    BY <2>1, <1>1, <1>3, <1>4
  <2>2. CASE i \in DOMAIN records
    <3> records[i] \in Record
      BY <2>2, <1>3
    <3> QED
      BY <2>2, <1>3, <1>4 DEF MemoryInv, Record
  <2> QED
    BY <2>1, <2>2, <1>4
<1>9. WritingInv'
  BY <1>1, <1>2 DEF WritingInv
<1>10. FileInv'
  <2> SUFFICES ASSUME NEW i \in Whole
               PROVE  /\ file[i].n < logged + 1
                      /\ file[i].epoch <= epoch
                      /\ file[i].epoch = epoch => \E k \in DOMAIN records' : file[i] = records'[k]
    BY <1>2, <1>5 DEF FileInv
  <2>1. file[i].n < logged + 1 /\ file[i].epoch <= epoch
    BY <1>3, <1>6 DEF FileInv, Record
  <2>2. file[i].epoch = epoch => \E k \in DOMAIN records' : file[i] = records'[k]
    BY <1>4 DEF FileInv
  <2> QED
    BY <2>1, <2>2
<1>11. FileIsHistory'
  BY <1>1, <1>2, <1>5 DEF FileIsHistory, FileInv
<1>12. FileIds'
  BY <1>2, <1>5 DEF FileIds
<1>13. LossNeedsFailure'
  BY <1>1, <1>2, <1>3, <1>5 DEF LossNeedsFailure
<1> QED
  BY <1>7, <1>8, <1>9, <1>10, <1>11, <1>12, <1>13

(* A write appends the record, or spoils the line that was torn before it. *)
LEMMA WriteInv == ASSUME IInv, Write PROVE IInv'
<1> USE DEF IInv
<1> DEFINE line == IF torn THEN Garbled ELSE writing
<1>1. /\ writing \in Record /\ writing # Garbled /\ writing.n \in Nat
      /\ line \in Record \cup {Garbled}
  BY NoRecordAssumption DEF Write, TypeOK, Record
<1>2. /\ file' = Append(file, line) /\ writing' = NoRecord /\ torn' = FALSE
      /\ writing # NoRecord
      /\ records' = records /\ logged' = logged /\ epoch' = epoch /\ faulty' = faulty
  BY DEF Write
<1>3. /\ records \in Seq(Record) /\ logged \in Nat /\ epoch \in Nat /\ torn \in BOOLEAN
      /\ file \in Seq(Record \cup {Garbled})
  BY DEF TypeOK
<1> DEFINE last == Len(file) + 1
<1>4. /\ DOMAIN file = 1..Len(file) /\ DOMAIN file' = 1..last /\ Len(file') = last
      /\ file'[last] = line
      /\ \A i \in DOMAIN file : i \in DOMAIN file' /\ file'[i] = file[i]
      /\ file' \in Seq(Record \cup {Garbled})
  BY <1>1, <1>2, <1>3
<1>5. Whole' = IF torn THEN Whole ELSE Whole \cup {last}
  BY <1>1, <1>3, <1>4 DEF Whole
<1>6. \A i \in Whole : i < last /\ file[i] \in Record /\ file'[i] = file[i]
  BY <1>3, <1>4 DEF Whole
<1>7. last \in Whole' => ~torn /\ file'[last] = writing
  BY <1>4, <1>5, <1>6
<1>8. TypeOK'
  BY <1>2, <1>3, <1>4 DEF TypeOK
<1>9. MemoryInv' /\ WritingInv'
  BY <1>2 DEF MemoryInv, WritingInv
<1>10. /\ Len(records) \in DOMAIN records /\ records[Len(records)] = writing
       /\ writing.epoch = epoch /\ writing.audit_id = Len(records) - 1
       /\ writing.n + 1 = logged
  BY <1>2, <1>3 DEF TypeOK, MemoryInv, WritingInv
<1>11. FileInv'
  <2> SUFFICES ASSUME NEW i \in Whole'
               PROVE  /\ file'[i].n < logged
                      /\ file'[i].epoch <= epoch
                      /\ file'[i].epoch = epoch => \E k \in DOMAIN records : file'[i] = records[k]
    BY <1>2 DEF FileInv
  <2>1. CASE i \in Whole
    BY <2>1, <1>6 DEF FileInv
  <2>2. CASE i = last
    BY <2>2, <1>1, <1>3, <1>7, <1>10
  <2> QED
    BY <2>1, <2>2, <1>5
<1>12. FileIsHistory'
  <2> SUFFICES ASSUME NEW i \in Whole', NEW j \in Whole', i < j
               PROVE  file'[i].n < file'[j].n
    BY <1>2 DEF FileIsHistory
  <2>1. i \in Whole
    <3> i \in DOMAIN file' /\ j \in DOMAIN file'
      BY DEF Whole
    <3> i # last
      BY <1>3, <1>4
    <3> QED
      BY <1>5
  <2>2. CASE j \in Whole
    BY <2>1, <2>2, <1>6 DEF FileIsHistory
  <2>3. CASE j = last
    BY <2>1, <2>3, <1>2, <1>6, <1>7 DEF FileIsHistory
  <2> QED
    BY <2>2, <2>3, <1>5
<1>13. FileIds'
  <2>1. ASSUME NEW i \in Whole, file[i].epoch = epoch, file[i].audit_id = writing.audit_id
        PROVE  file[i] = writing
    <3>1. PICK k \in DOMAIN records : file[i] = records[k]
      BY <2>1 DEF FileInv
    <3>2. k - 1 = Len(records) - 1 /\ k \in 1..Len(records)
      BY <2>1, <3>1, <1>3, <1>10 DEF MemoryInv
    <3>3. k = Len(records)
      BY <3>2, <1>3
    <3> QED
      BY <3>1, <3>3, <1>10
  <2> SUFFICES ASSUME NEW i \in Whole', NEW j \in Whole',
                      file'[i].epoch = file'[j].epoch, file'[i].audit_id = file'[j].audit_id
               PROVE  file'[i] = file'[j]
    BY DEF FileIds
  <2>2. CASE i \in Whole /\ j \in Whole
    BY <2>2, <1>6 DEF FileIds
  <2>3. CASE i \in Whole /\ j = last
    BY <2>3, <2>1, <1>6, <1>7, <1>10
  <2>4. CASE i = last /\ j \in Whole
    BY <2>4, <2>1, <1>6, <1>7, <1>10
  <2>5. CASE i = last /\ j = last
    BY <2>5
  <2> QED
    BY <2>2, <2>3, <2>4, <2>5, <1>5
<1>14. LossNeedsFailure'
  BY <1>2, <1>3, <1>4, <1>5 DEF LossNeedsFailure
<1> QED
  BY <1>8, <1>9, <1>11, <1>12, <1>13, <1>14

(* A write that fails gives the record up.                                 *)
LEMMA WriteFailsInv == ASSUME IInv, WriteFails PROVE IInv'
<1> USE DEF IInv
<1>1. /\ writing' = NoRecord /\ faulty' = TRUE /\ torn' \in BOOLEAN
      /\ records' = records /\ logged' = logged /\ epoch' = epoch /\ file' = file
  BY DEF WriteFails, TypeOK
<1>2. Whole' = Whole
  BY <1>1 DEF Whole
<1>3. TypeOK'
  BY <1>1 DEF TypeOK
<1>4. MemoryInv' /\ WritingInv'
  BY <1>1 DEF MemoryInv, WritingInv
<1>5. FileInv'
  BY <1>1, <1>2 DEF FileInv
<1>6. FileIsHistory' /\ FileIds' /\ LossNeedsFailure'
  BY <1>1, <1>2 DEF FileIsHistory, FileIds, LossNeedsFailure
<1> QED
  BY <1>3, <1>4, <1>5, <1>6

(* Emptying memory begins an epoch; the file has none of it yet.           *)
LEMMA NewEpochInv ==
  ASSUME IInv, clear \/ Crash
  PROVE  IInv'
<1> USE DEF IInv
<1>1. /\ records' = <<>> /\ epoch' = epoch + 1 /\ writing' = NoRecord
      /\ logged' = logged /\ file' = file
      /\ torn' \in BOOLEAN /\ faulty' \in BOOLEAN
      /\ ~faulty' => ~faulty /\ writing = NoRecord /\ torn' = torn
  BY DEF clear, Crash, TypeOK
<1>2. /\ epoch \in Nat /\ logged \in Nat /\ file \in Seq(Record \cup {Garbled})
      /\ Whole' = Whole
  BY <1>1 DEF Whole, TypeOK
<1>3. \A i \in Whole : file[i] \in Record /\ file[i].epoch <= epoch /\ file[i].epoch \in Nat
  BY <1>2 DEF Whole, FileInv, Record
<1>4. TypeOK'
  BY <1>1, <1>2 DEF TypeOK
<1>5. MemoryInv' /\ WritingInv'
  BY <1>1 DEF MemoryInv, WritingInv
<1>6. FileInv'
  BY <1>1, <1>2, <1>3 DEF FileInv
<1>7. FileIsHistory' /\ FileIds'
  BY <1>1, <1>2 DEF FileIsHistory, FileIds
<1>8. LossNeedsFailure'
  BY <1>1, <1>2 DEF LossNeedsFailure
<1> QED
  BY <1>4, <1>5, <1>6, <1>7, <1>8

(* The invariant holds throughout.                                         *)
LEMMA Invariance == Spec => []IInv
<1>1. IInv /\ [Next]_vars => IInv'
  <2> SUFFICES ASSUME IInv, [Next]_vars PROVE IInv'
    OBVIOUS
  <2>1. CASE UNCHANGED vars
    BY <2>1 DEF vars, IInv, TypeOK, MemoryInv, WritingInv, FileInv, FileIsHistory,
                FileIds, LossNeedsFailure, Whole
  <2>2. ASSUME NEW rec \in Recommendations, NEW type \in EventTypes,
               log_recommendation(rec, type) \/ log_event(rec, type)
        PROVE  IInv'
    BY <2>2, LogInv DEF log_recommendation, log_event, Actors
  <2>3. ASSUME NEW rec \in Recommendations, log_guardrail_block(rec) PROVE IInv'
    BY <2>3, LogInv, AuditLogAssumption DEF log_guardrail_block, Actors
  <2> QED
    BY <2>1, <2>2, <2>3, WriteInv, WriteFailsInv, NewEpochInv DEF Next
<1> QED
  BY <1>1, InitInv, PTL DEF Spec

(* Every variable of the audit log keeps its type, whatever fails.         *)
THEOREM TypeCorrect == Spec => []TypeOK
<1>1. IInv => TypeOK
  BY DEF IInv
<1> QED
  BY <1>1, Invariance, PTL

(* The file has the records in the order in which they were logged, none   *)
(* twice, across any failures, clears and restarts (audit_log.py:25).      *)
THEOREM FileIsHistoryHolds == Spec => []FileIsHistory
<1>1. IInv => FileIsHistory
  BY DEF IInv
<1> QED
  BY <1>1, Invariance, PTL

(* Between two losses of memory an id names one record, in memory and in   *)
(* the file (audit_log.py:42), however many writes fail.                   *)
THEOREM IdNamesOneRecordHolds == Spec => []IdNamesOneRecord
<1>1. IInv => IdNamesOneRecord
  <2> SUFFICES ASSUME IInv,
                      NEW r \in {records[i] : i \in DOMAIN records} \cup {file[i] : i \in Whole},
                      NEW s \in {records[i] : i \in DOMAIN records} \cup {file[i] : i \in Whole},
                      r.epoch = s.epoch, r.audit_id = s.audit_id
               PROVE  r = s
    BY DEF IdNamesOneRecord
  <2> USE DEF IInv
  <2>1. CASE r.epoch = epoch
    <3>1. \E k \in DOMAIN records : r = records[k]
      BY <2>1 DEF FileInv
    <3>2. \E k \in DOMAIN records : s = records[k]
      BY <2>1 DEF FileInv
    <3>3. PICK j, k \in DOMAIN records : r = records[j] /\ s = records[k]
      BY <3>1, <3>2
    <3>4. j - 1 = k - 1 /\ j \in Nat /\ k \in Nat
      BY <3>3 DEF MemoryInv, TypeOK
    <3> QED
      BY <3>3, <3>4
  <2>2. CASE r.epoch # epoch
    <3>1. \E i \in Whole : r = file[i]
      BY <2>2 DEF MemoryInv
    <3>2. \E i \in Whole : s = file[i]
      BY <2>2 DEF MemoryInv
    <3> QED
      BY <3>1, <3>2 DEF FileIds
  <2> QED
    BY <2>1, <2>2
<1> QED
  BY <1>1, Invariance, PTL

(* As long as no write failed, all that was ever logged is in the file.    *)
THEOREM LossNeedsFailureHolds == Spec => []LossNeedsFailure
<1>1. IInv => LossNeedsFailure
  BY DEF IInv
<1> QED
  BY <1>1, Invariance, PTL
=============================================================================
