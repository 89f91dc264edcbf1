------------------------- MODULE MCBackupLifecycle -------------------------
(* Instances of BackupLifecycle for TLC.  Besides the empty start, a start *)
(* from a chain of backups each taken on top of the previous one, reached  *)
(* when they have all completed and the reconciler has caught up.          *)
EXTENDS BackupRefinement

CONSTANT Chain      \* a sequence of Backups, the oldest (the full one) first

Settled(i) == [st |-> "live", owned |-> TRUE, fin |-> TRUE, phase |-> "completed",
               meta |-> "typed", deps |-> { Chain[j] : j \in (i+1)..Len(Chain) }]

ChainInit ==
    /\ api = [b \in Backups |->
                IF \E i \in 1..Len(Chain) : Chain[i] = b
                  THEN Settled(CHOOSE i \in 1..Len(Chain) : Chain[i] = b)
                  ELSE NoObject("unborn")]
    /\ cfg = [st |-> "live", fin |-> ~IgnoreForBackupConfigDeletion, unwritable |-> FALSE]
    /\ cache = api /\ workq = {} /\ queue = <<>>
    /\ rpc = "idle" /\ rb = NoBase /\ rdel = FALSE /\ rcopy = NoObject("gone")
    /\ rlist = NoList /\ rtodo = {}
    /\ wpc = "idle" /\ wb = NoBase /\ wcopy = NoObject("gone")
    /\ phys = { Chain[i] : i \in 1..Len(Chain) }
    /\ parent = [b \in Backups |->
                   IF \E i \in 2..Len(Chain) : Chain[i] = b
                     THEN Chain[(CHOOSE i \in 2..Len(Chain) : Chain[i] = b) - 1]
                     ELSE NoBase]
    /\ perm = (phys \cap Manual) \cup UNION { BasesOf(b) : b \in phys \cap Manual }
    /\ push = [b \in Backups |-> IF b \in phys THEN "done" ELSE "idle"]
    /\ fails = 0

ChainSpec == ChainInit /\ [][Next]_vars
FairChainSpec == ChainSpec /\ Fairness

B1 == "b1"
B2 == "b2"
chain1 == <<B1>>
chain2 == <<B1, B2>>
backups2 == {B1, B2}
=============================================================================
