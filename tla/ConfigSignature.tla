-------------------------- MODULE ConfigSignature --------------------------
(***************************************************************************)
(* The signature of a configuration (persistence/redis_store.py) that is   *)
(* kept beside the records and compared when a server starts: what of the  *)
(* configuration is in it, and which of its fields are compared.           *)
(*                                                                         *)
(* A configuration is a record: fields maps the names of ConfigCheckField  *)
(* to values, where supported_models is a sequence of model records with a *)
(* name, a set of capabilities and the rest; check_fields is the setting   *)
(* of the persistence section.                                             *)
(***************************************************************************)
EXTENDS Sequences, Functions

CONSTANT None  \* Python's None

(* exclude={"supported_models": {"__all__": {"capabilities"}}}             *)
WithoutCapabilities(models) ==
    [i \in DOMAIN models |-> [name |-> models[i].name, rest |-> models[i].rest]]

(* AppConfig.get_config_for_persistence: the secrets of authorized_users   *)
(* are excluded, and so are the capabilities of models.                    *)
GetConfigForPersistence(config) ==
    [f \in DOMAIN config.fields \ {"AUTHORIZED_USERS"} |->
        IF f = "SUPPORTED_MODELS" THEN WithoutCapabilities(config.fields[f])
                                  ELSE config.fields[f]]

(* ConfigSignature.from_app_config                                         *)
SignatureOf(config) == GetConfigForPersistence(config)

(* config_data.get: None for what is not in the signature.                 *)
GetFieldValue(signature, f) == IF f \in DOMAIN signature THEN signature[f] ELSE None

MutantNormalizeForComparison(f, value) == value

(* Lists are compared without regard to order. The names of models are     *)
(* unique (AppConfig.check_validity), so the sorted list is a set.         *)
NormalizeForComparison(f, value) ==
    IF f = "SUPPORTED_MODELS" THEN Range(value) ELSE value

CompareField(s, t, f) ==
    NormalizeForComparison(f, GetFieldValue(s, f)) = NormalizeForComparison(f, GetFieldValue(t, f))

MutantGetFieldsToCheck(checkFields) == checkFields

GetFieldsToCheck(checkFields) == checkFields \cup {"SUPPORTED_MODELS"}

(* The fields get_diff reports in a ConfigMismatchError.                   *)
GetDiff(s, t, checkFields) == {f \in GetFieldsToCheck(checkFields) : ~CompareField(s, t, f)}

Matches(s, t, checkFields) == GetDiff(s, t, checkFields) = {}
============================================================================
