----------------------- MODULE MCReferenceProtection -----------------------
(* ReferenceProtection for TLC. *)
EXTENDS ReferenceProtection, TLC

given == [text |-> TRUE, from |-> Nil]
fromConfigMap(n) == [text |-> FALSE, from |-> [secretKeyRef |-> Nil, configMapKeyRef |-> n]]
plain == [method |-> "none", secret |-> Nil]

(* S3 with keys in one Secret, a CA in a ConfigMap ... *)
s3Spec == [type |-> "s3", gcs |-> Nil, encryption |-> plain,
           s3 |-> [prefix |-> given, region |-> given, endpointUrl |-> given,
                   customCA |-> ConfigMap("m"), accessKeyId |-> "s", accessKeySecret |-> "s"]]

(* ... GCS without credentials of its own, encrypted with a given key ... *)
gcsSpec == [type |-> "gcs", s3 |-> Nil, encryption |-> [method |-> "libsodium", secret |-> "s"],
            gcs |-> [prefix |-> given, credentials |-> Nil]]

(* ... and one the webhook refuses. *)
bothSpec == [gcsSpec EXCEPT !.gcs.prefix = [fromConfigMap("m") EXCEPT !.text = TRUE]]

objects == {Secret("s"), ConfigMap("m")}
specs == {s3Spec, gcsSpec, bothSpec}
own == [c \in Configs |-> "own"]
=============================================================================
