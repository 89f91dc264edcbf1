------------------------------ MODULE References ------------------------------
(***************************************************************************)
(* The Secrets and ConfigMaps a BackupConfig refers to, as four parts of   *)
(* the program see them: the webhook that admits the spec, the prefetch    *)
(* that reads their contents, the protection that puts finalizers on them  *)
(* and the Role that lets the instance sidecar read them.                  *)
(*                                                                         *)
(* A spec is a record                                                      *)
(*   type        "s3" or "gcs"                                             *)
(*   s3          Nil or prefix, region, endpointUrl (values), customCA (an *)
(*               object), accessKeyId, accessKeySecret (Secret names)      *)
(*   gcs         Nil or prefix (a value), credentials (a Secret name)      *)
(*   encryption  method, secret                                            *)
(* with Nil for what is not given.  A value has a text of its own or comes *)
(* `from' a key of a Secret or of a ConfigMap.  Keys are left out.         *)
(***************************************************************************)
CONSTANT Nil

Secret(n) == [kind |-> "Secret", name |-> n]
ConfigMap(n) == [kind |-> "ConfigMap", name |-> n]

(* The objects among references of which some may be Nil. *)
SecretsOf(names) == { Secret(n) : n \in names \ {Nil} }
FromOf(v) ==
    IF v.from = Nil THEN {}
    ELSE SecretsOf({v.from.secretKeyRef}) \cup { ConfigMap(n) : n \in {v.from.configMapKeyRef} \ {Nil} }

Values(spec) ==
    (IF spec.s3 = Nil THEN {} ELSE {spec.s3.prefix, spec.s3.region, spec.s3.endpointUrl})
      \cup (IF spec.gcs = Nil THEN {} ELSE {spec.gcs.prefix})
CustomCA(spec) == IF spec.s3 = Nil \/ spec.s3.customCA = Nil THEN {} ELSE {spec.s3.customCA}
AccessKeys(spec) == IF spec.s3 = Nil THEN {} ELSE {spec.s3.accessKeyId, spec.s3.accessKeySecret}
Credentials(spec) == IF spec.gcs = Nil THEN {} ELSE {spec.gcs.credentials} \ {Nil}

Encrypted(spec) == spec.encryption.method \notin {"", "none"}

(* Given or, generated, named after the config. *)
GetBackupConfigEncryptionSecretName(spec, own) ==
    IF spec.encryption.secret = Nil THEN own ELSE spec.encryption.secret
EncryptionSecret(spec, own) ==
    IF Encrypted(spec) THEN {Secret(GetBackupConfigEncryptionSecretName(spec, own))} ELSE {}

-----------------------------------------------------------------------------
(* The webhook. *)
validateStorage(spec) == (spec.type = "s3" => spec.s3 # Nil) /\ (spec.type = "gcs" => spec.gcs # Nil)

validateValueFromSource(from) ==
    from # Nil => (from.secretKeyRef = Nil) # (from.configMapKeyRef = Nil)

validateMutualExclusivity(spec) ==
    \A v \in Values(spec) : ~(v.text /\ v.from # Nil) /\ validateValueFromSource(v.from)

validateBackupConfig(spec) == validateStorage(spec) /\ validateMutualExclusivity(spec)

-----------------------------------------------------------------------------
(* PrefetchSecretsData: both storages if given, whatever the type, then    *)
(* the encryption key.  It fails on a spec that is not resolvable and when *)
(* an object it reads is missing.                                          *)
resolveStringValue(v) == ~v.text \/ v.from = Nil

Resolvable(spec) ==
    /\ Nil \notin AccessKeys(spec)
    /\ \A o \in CustomCA(spec) : o.kind \in {"Secret", "ConfigMap"}
    /\ \A v \in Values(spec) : resolveStringValue(v) /\ validateValueFromSource(v.from)
    /\ spec.encryption.method \in {"libsodium", "", "none"}

Reads(spec, own) ==
    SecretsOf(AccessKeys(spec)) \cup CustomCA(spec) \cup SecretsOf(Credentials(spec))
      \cup EncryptionSecret(spec, own) \cup UNION { FromOf(v) : v \in Values(spec) }

PrefetchSecretsData(spec, own, here) == Resolvable(spec) /\ Reads(spec, own) \subseteq here

-----------------------------------------------------------------------------
(* What is protected. *)
getSecretReferencesFromBackupConfig(spec, own) ==
    SecretsOf(AccessKeys(spec)) \cup { o \in CustomCA(spec) : o.kind = "Secret" }
      \cup SecretsOf(Credentials(spec)) \cup EncryptionSecret(spec, own)

getConfigMapReferencesFromBackupConfig(spec) == { o \in CustomCA(spec) : o.kind = "ConfigMap" }

Protected(spec, own) ==
    getSecretReferencesFromBackupConfig(spec, own) \cup getConfigMapReferencesFromBackupConfig(spec)

-----------------------------------------------------------------------------
(* What the Role names: the references of the storage in use. *)
InUse(spec) == [spec EXCEPT !.s3 = IF spec.type = "s3" THEN @ ELSE Nil,
                            !.gcs = IF spec.type = "gcs" THEN @ ELSE Nil]

collectSecretsAndConfigMapsNames(spec, own) ==
    LET s == InUse(spec)
    IN  SecretsOf(AccessKeys(s)) \cup CustomCA(s) \cup SecretsOf(Credentials(s))
          \cup EncryptionSecret(spec, own) \cup UNION { FromOf(v) : v \in Values(s) }
=============================================================================
