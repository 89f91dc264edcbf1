-------------------------- MODULE MCDependentSearch --------------------------
(* Lists of backups whose WAL ids are small numbers.  A delta starts after *)
(* its base; two backups may start in the same WAL segment.                *)
EXTENDS DependentSearch, Naturals

CONSTANT MaxWal

names == { BackupName(p[1], p[2]) :
             p \in { q \in (1..MaxWal) \X (0..MaxWal) : q[2] < q[1] } }
=============================================================================
