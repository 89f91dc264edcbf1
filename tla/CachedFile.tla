----------------------------- MODULE CachedFile -----------------------------
(***************************************************************************)
(* The file that holds the CA certificate or the service account key of a  *)
(* BackupConfig for wal-g, and the map that remembers what was written to  *)
(* it.  Goroutines of the operator (deletion worker, Backup reconciler,    *)
(* status workers) prefetch the Secret and build a wal-g configuration     *)
(* each on their own; the lock is held for a look-up or an assignment of   *)
(* the map, never for both or for the write between them.                  *)
(***************************************************************************)
EXTENDS Naturals

CONSTANTS
    Goroutines,
    MaxRotations,            \* bound: changes of the Secret
    MaxFailures              \* bound: failed writes

VARIABLES
    secret,                  \* the data in the Secret: its version
    file, cached,            \* the file's content, the map's entry
    pc, data,                \* each goroutine's place and its caCertData
    fails

vars == <<secret, file, cached, pc, data, fails>>

None == 0                    \* no file, no entry, nothing read
Torn == MaxRotations + 2     \* what a failed write leaves

Init ==
    /\ secret = 1 /\ file = None /\ cached = None /\ fails = 0
    /\ pc = [g \in Goroutines |-> "idle"]
    /\ data = [g \in Goroutines |-> None]

Rotate ==
    /\ secret < MaxRotations + 1
    /\ secret' = secret + 1
    /\ UNCHANGED <<file, cached, pc, data, fails>>

Goto(g, label) == pc' = [pc EXCEPT ![g] = label]

PrefetchSecretsData(g) ==
    /\ pc[g] = "idle"
    /\ Goto(g, "look")
    /\ data' = [data EXCEPT ![g] = secret]
    /\ UNCHANGED <<secret, file, cached, fails>>

(* ensureCachedFile, one action between two points where others may run. *)
LookUp(g) ==
    /\ pc[g] = "look"
    /\ Goto(g, IF cached = data[g] THEN "use" ELSE "write")
    /\ UNCHANGED <<secret, file, cached, data, fails>>

WriteFile(g) ==
    /\ pc[g] = "write"
    /\ file' = data[g]
    /\ Goto(g, "remember")
    /\ UNCHANGED <<secret, cached, data, fails>>

(* The configuration panics.  A reconciler's goroutine is recovered, and   *)
(* the map is left alone; any other takes the process down, and the        *)
(* container starts again without map and file.                            *)
WriteFails(g) ==
    /\ pc[g] = "write" /\ fails < MaxFailures
    /\ fails' = fails + 1
    /\ \/ file' \in {file, Torn} /\ Goto(g, "idle") /\ UNCHANGED <<cached, data>>
       \/ /\ file' = None /\ cached' = None
          /\ pc' = [h \in Goroutines |-> "idle"]
          /\ data' = [h \in Goroutines |-> None]
    /\ UNCHANGED secret

Remember(g) ==
    /\ pc[g] = "remember"
    /\ cached' = data[g]
    /\ Goto(g, "use")
    /\ UNCHANGED <<secret, file, data, fails>>

(* The wal-g command reads the file. *)
RunWalg(g) ==
    /\ pc[g] = "use"
    /\ Goto(g, "idle")
    /\ UNCHANGED <<secret, file, cached, data, fails>>

Step(g) ==
    PrefetchSecretsData(g) \/ LookUp(g) \/ WriteFile(g) \/ WriteFails(g) \/ Remember(g) \/ RunWalg(g)

Next == Rotate \/ \E g \in Goroutines : Step(g)

(* Goroutines run, and there are always further wal-g commands: the status *)
(* controller checks the storage of every config periodically.             *)
Spec == Init /\ [][Next]_vars /\ \A g \in Goroutines : WF_vars(Step(g))

-----------------------------------------------------------------------------
(* ensureCachedFile "ensures that a file at filePath exists and holds      *)
(* data": if no write fails and the Secret is rotated no more, the file    *)
(* comes to hold its current data.  Two calls around a rotation can write  *)
(* the file in one order and the map in the other; the map then vouches    *)
(* for data that is not in the file and no later call writes it (run       *)
(* cached_file).                                                           *)
CurrentDataWritten == [](fails = 0) => <>[](file = secret)
=============================================================================
