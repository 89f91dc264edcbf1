--------------------------- MODULE MCClusterPlugin ---------------------------
(* ClusterPlugin for TLC: cluster "old" archives into "src", cluster "new" *)
(* recovers from it and has an archive of its own, "dst".                  *)
EXTENDS ClusterPlugin, TLC

given == [text |-> TRUE, from |-> Nil]
fromConfigMap(n) == [text |-> FALSE, from |-> [secretKeyRef |-> Nil, configMapKeyRef |-> n]]

(* Encrypted with a generated key; the access keys move to another Secret. *)
s3Spec(s) == [type |-> "s3", gcs |-> Nil, encryption |-> [method |-> "libsodium", secret |-> Nil],
              s3 |-> [prefix |-> fromConfigMap("m"), region |-> given, endpointUrl |-> given,
                      customCA |-> ConfigMap("ca"), accessKeyId |-> s, accessKeySecret |-> s]]
gcsSpec == [type |-> "gcs", s3 |-> Nil, encryption |-> [method |-> "none", secret |-> Nil],
            gcs |-> [prefix |-> given, credentials |-> "g"]]

clusters == {"old", "new"}
configs == {"src", "dst"}
archiveOf == [c \in clusters |-> IF c = "old" THEN "src" ELSE "dst"]
recoveryOf == [c \in clusters |-> IF c = "old" THEN Nil ELSE "src"]
own == [k \in configs |-> k]
specs == [k \in configs |-> IF k = "src" THEN {s3Spec("s1"), s3Spec("s2")} ELSE {gcsSpec}]

start == { [k \in configs |-> IF k = "dst" THEN Nil ELSE s3Spec("s1")] }

(* The second of two backups has a finish time that cannot be parsed. *)
finish == <<1, Nil>>
finishLSN == <<1, 2>>
none == [backup |-> Nil, tli |-> Nil, time |-> Nil, lsn |-> Nil]
targets == {[none EXCEPT !.time = 2], [none EXCEPT !.lsn = 2], [none EXCEPT !.tli = 1],
            [none EXCEPT !.backup = 2]}
=============================================================================
