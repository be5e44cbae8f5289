------------------------------ MODULE AuditLog ------------------------------
(***************************************************************************)
(* openaice/core/audit_log.py, with the file it appends to and a process   *)
(* that may crash.  A log call appends to memory first and to the file     *)
(* after; an exception of the writing is logged and swallowed.  Nothing    *)
(* in openaice/ calls it: the callers here are what its docstrings name.   *)
(*                                                                         *)
(* A full disk, or a crash, may leave part of a line at the end of the     *)
(* file; the next record then continues that line, which no JSON reader    *)
(* accepts: such a line is Garbled.                                        *)
(***************************************************************************)
EXTENDS Integers, Sequences

CONSTANTS
  Recommendations,  \* recommendation ids
  EventTypes,       \* "blocked", "created" and what else callers pass
  Garbled,          \* a line that is no record
  NoRecord,         \* no call is writing
  MaxLogged,        \* bound: log calls
  MaxEpochs         \* bound: crashes and clears

ASSUME AuditLogAssumption ==
  /\ MaxLogged \in Nat /\ MaxEpochs \in Nat
  /\ "blocked" \in EventTypes

Actors == {"policy_engine", "guardrails", "system"}

(* n is the record's place in the history of all records.                  *)
Record == [audit_id : Nat, recommendation_id : Recommendations, event_type : EventTypes,
           actor : Actors, epoch : Nat, n : Nat]

ASSUME NoRecordAssumption == Garbled \notin Record /\ NoRecord \notin Record

VARIABLES
  records,  \* _records
  file,     \* the complete lines of the file
  torn,     \* the file ends in part of a line
  writing,  \* the record a log call is about to write
  logged,   \* history: how many records there have been
  epoch,    \* history: how often memory was emptied
  faulty    \* history: a write failed, or the process crashed in one

vars == <<records, file, torn, writing, logged, epoch, faulty>>

Init ==
  /\ records = <<>> /\ file = <<>> /\ torn = FALSE
  /\ writing = NoRecord
  /\ logged = 0 /\ epoch = 0 /\ faulty = FALSE

(* Mutated form: ids are counted in the file                               *)
BugIdFromFile(rec, type, actor) ==
  [audit_id |-> Len(file), recommendation_id |-> rec, event_type |-> type,
   actor |-> actor, epoch |-> epoch, n |-> logged]

Made(rec, type, actor) ==
  [audit_id |-> Len(records), recommendation_id |-> rec, event_type |-> type,
   actor |-> actor, epoch |-> epoch, n |-> logged]

(* Mutated form: the file first, memory when that has worked               *)
BugFileFirst(rec, type, actor) ==
  /\ writing = NoRecord
  /\ logged < MaxLogged
  /\ writing' = Made(rec, type, actor)
  /\ logged' = logged + 1
  /\ UNCHANGED <<records, file, torn, epoch, faulty>>

(* The record is in memory, the file comes next.                           *)
Log(rec, type, actor) ==
  /\ writing = NoRecord
  /\ logged < MaxLogged
  /\ records' = Append(records, Made(rec, type, actor))
  /\ writing' = Made(rec, type, actor)
  /\ logged' = logged + 1
  /\ UNCHANGED <<file, torn, epoch, faulty>>

log_recommendation(rec, type) == Log(rec, type, "policy_engine")
log_guardrail_block(rec) == Log(rec, "blocked", "guardrails")
log_event(rec, type) == Log(rec, type, "system")

(* Mutated form: the call writes until it is told to stop                  *)
BugWritesAgain ==
  /\ writing # NoRecord
  /\ file' = Append(file, IF torn THEN Garbled ELSE writing)
  /\ torn' = FALSE
  /\ \/ writing' = NoRecord
     \/ Len(file) < MaxLogged /\ UNCHANGED writing
  /\ UNCHANGED <<records, logged, epoch, faulty>>

Write ==
  /\ writing # NoRecord
  /\ file' = Append(file, IF torn THEN Garbled ELSE writing)
  /\ torn' = FALSE
  /\ writing' = NoRecord
  /\ UNCHANGED <<records, logged, epoch, faulty>>

(* Swallowed: the caller gets its record all the same.                     *)
WriteFails ==
  /\ writing # NoRecord
  /\ torn' \in {torn, TRUE}
  /\ writing' = NoRecord
  /\ faulty' = TRUE
  /\ UNCHANGED <<records, file, logged, epoch>>

(* Mutated form: the file is emptied with the memory                       *)
BugTruncates ==
  /\ writing = NoRecord
  /\ epoch < MaxEpochs
  /\ records' = <<>> /\ file' = <<>>
  /\ epoch' = epoch + 1
  /\ UNCHANGED <<torn, writing, logged, faulty>>

clear ==
  /\ writing = NoRecord
  /\ epoch < MaxEpochs
  /\ records' = <<>>
  /\ epoch' = epoch + 1
  /\ UNCHANGED <<file, torn, writing, logged, faulty>>

(* A new process finds the file and starts with no records.                *)
Crash ==
  /\ epoch < MaxEpochs
  /\ records' = <<>>
  /\ epoch' = epoch + 1
  /\ torn' \in {torn, torn \/ writing # NoRecord}
  /\ faulty' = (faulty \/ writing # NoRecord)
  /\ writing' = NoRecord
  /\ UNCHANGED <<file, logged>>

Next ==
  \/ \E rec \in Recommendations, type \in EventTypes :
       log_recommendation(rec, type) \/ log_event(rec, type)
  \/ \E rec \in Recommendations : log_guardrail_block(rec)
  \/ Write \/ WriteFails \/ clear \/ Crash

Spec == Init /\ [][Next]_vars

-----------------------------------------------------------------------------
Whole == {i \in DOMAIN file : file[i] # Garbled}

(* Every variable keeps its type, and the record being written is the last *)
(* in memory.                                                              *)
TypeOK ==
  /\ records \in Seq(Record)
  /\ file \in Seq(Record \cup {Garbled})
  /\ torn \in BOOLEAN /\ faulty \in BOOLEAN
  /\ writing \in Record \cup {NoRecord}
  /\ logged \in Nat /\ epoch \in Nat
  /\ writing # NoRecord => records # <<>> /\ records[Len(records)] = writing

(* The file is a history: its records stand in the order they were logged, *)
(* none twice, across failures, clears and restarts (audit_log.py:25).     *)
FileIsHistory ==
  /\ \A i, j \in Whole : i < j => file[i].n < file[j].n
  /\ writing # NoRecord => \A i \in Whole : file[i].n < writing.n

(* Between two losses of memory an audit_id names one record (line 42), in *)
(* memory and in the file, also when some of the writes failed.            *)
IdNamesOneRecord ==
  LET known == {records[i] : i \in DOMAIN records} \cup {file[i] : i \in Whole}
  IN  \A r, s \in known : r.epoch = s.epoch /\ r.audit_id = s.audit_id => r = s

(* Unless a write failed, everything logged is in the file, whatever was   *)
(* cleared or restarted in between.                                        *)
LossNeedsFailure ==
  ~faulty => /\ Whole = DOMAIN file /\ ~torn
             /\ Len(file) = IF writing = NoRecord THEN logged ELSE logged - 1
=============================================================================
