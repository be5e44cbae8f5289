--------------------------- MODULE ReplayAdapter ---------------------------
(***************************************************************************)
(* openaice/adapters/telemetry/replay.py: the records of a scenario's      *)
(* directory.  Of the directory, telemetry_yaml and telemetry_json are the *)
(* two files it may have; of a file, shape says what it parses to: a dict  *)
(* with records, a list, something else, or (broken) nothing, or records   *)
(* that have no length.                                                    *)
(***************************************************************************)
EXTENDS Sequences

CONSTANT NoFile

(* The YAML file wins by being there, whatever is in it                    *)
input_file(scenario) ==
  IF scenario.telemetry_yaml # NoFile THEN scenario.telemetry_yaml
  ELSE scenario.telemetry_json

LoadRaises(scenario) ==
  input_file(scenario) # NoFile /\ input_file(scenario).shape = "broken"

_load_file(file) ==
  IF file # NoFile /\ file.shape \in {"records", "list"} THEN file.records ELSE <<>>

collect(scenario) == _load_file(input_file(scenario))
=============================================================================
