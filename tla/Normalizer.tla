----------------------------- MODULE Normalizer -----------------------------
(***************************************************************************)
(* openaice/core/normalizer.py: a raw record of an adapter becomes a       *)
(* fragment, or is skipped with a warning.  Nothing raises: what one       *)
(* record does wrong costs the batch that record.                          *)
(*                                                                         *)
(* Of a record, NoValue stands for a key that is missing, None or empty;   *)
(* observed_at is a time, NoValue for anything but a string or a datetime, *)
(* or BadTime for a string that is no time; strings tells whether its id,  *)
(* source and the values of its labels are strings, as StateFragment asks. *)
(***************************************************************************)
EXTENDS Integers, Sequences

CONSTANTS NoValue, BadTime

EntityType ==
  {"service", "deployment", "model_revision", "job", "workflow_run", "queue",
   "node", "gpu", "storage_endpoint", "network_path", "scheduler_domain",
   "tenant_scope"}

SOURCE_DOMAIN_MAP ==
  [prometheus |-> "unknown", kubernetes |-> "kubernetes", kserve |-> "kubernetes",
   slurm |-> "slurm", gcm |-> "slurm", dcgm |-> "unknown", ray |-> "ray",
   replay |-> "unknown"]

(* _normalize_one returns a fragment *)
Accepts(record) ==
  /\ NoValue \notin {record.source_type, record.entity_type, record.entity_id}
  /\ record.entity_type \in EntityType
  /\ record.observed_at # BadTime
  /\ record.strings

(* Mutated form: only a source with a domain of its own gives one *)
BugNoDefault(record) ==
  IF record.source_type \in {"kubernetes", "kserve", "slurm", "gcm", "ray"}
  THEN SOURCE_DOMAIN_MAP[record.source_type] ELSE record.scheduler_domain

(* The record's own domain, else the default of its source *)
scheduler_domain(record) ==
  IF record.scheduler_domain # NoValue THEN record.scheduler_domain
  ELSE IF record.source_type \in DOMAIN SOURCE_DOMAIN_MAP
       THEN SOURCE_DOMAIN_MAP[record.source_type] ELSE "unknown"

(* The record's own time, else that of the normalization *)
observed_at(record, now) ==
  IF record.observed_at = NoValue THEN now ELSE record.observed_at

(* utcnow() has no zone *)
has_zone(record) == record.aware /\ record.observed_at # NoValue

(* normalize: the accepted records, in order *)
normalize(raw_records) ==
  LET fragments[n \in 0..Len(raw_records)] ==
        IF n = 0 THEN <<>>
        ELSE IF Accepts(raw_records[n]) THEN Append(fragments[n - 1], raw_records[n])
        ELSE fragments[n - 1]
  IN  fragments[Len(raw_records)]
=============================================================================
