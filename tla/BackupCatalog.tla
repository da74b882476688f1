---------------------------- MODULE BackupCatalog ----------------------------
(***************************************************************************)
(* What mylvmbackup (src/57) promises to whoever keeps its backups: a      *)
(* catalogue of backups by id.  A backup holds what the server had         *)
(* committed when it was dumped, and names a binlog position from which    *)
(* nothing after it is missed; it is stored in the bucket only with its    *)
(* archive; once recorded it is never changed, once stored never removed,  *)
(* and losing the host costs those backups only that were not stored.      *)
(* Once after it is stored a backup is taken out of the catalogue, to be   *)
(* put back; whether it is, is not promised, other than by losing the      *)
(* host.  A restore gives a backup that is recorded, whole, or nothing.    *)
(*                                                                         *)
(* Snapshots, locks, files, failing commands and killed processes are      *)
(* MySqlBackup's business, which is shown to implement this module.        *)
(***************************************************************************)
EXTENDS Integers

CONSTANT Backups

VARIABLES
    committed,  \* transactions the server has committed
    catalog,    \* backups that can be asked for
    holds,      \* holds[b]: b's binlog position (-1 unknown), transactions dumped
    archived,   \* backups whose archive is in the bucket
    stored,     \* backups whose manifest is in the bucket
    reopening,  \* stored backups that are yet to be taken out, once
    delivered   \* {<<b, state>>}: what the last restore gave, {} if nothing

catalogVars == <<committed, catalog, holds, archived, stored, reopening, delivered>>

Content == [position : Int, dump : Nat]

CatalogInit ==
    /\ committed \in Nat
    /\ stored \subseteq Backups /\ catalog = stored /\ archived = stored
    /\ holds \in [Backups -> Content]
    /\ reopening = {} /\ delivered = {}

Commit ==
    /\ committed' = committed + 1
    /\ UNCHANGED <<catalog, holds, archived, stored, reopening, delivered>>

Record(b) ==
    /\ b \notin catalog \cup stored
    /\ catalog' = catalog \cup {b}
    /\ \E position \in -1..committed, dump \in 0..committed :
          /\ position <= dump
          /\ holds' = [holds EXCEPT ![b] = [position |-> position, dump |-> dump]]
    /\ UNCHANGED <<committed, archived, stored, reopening, delivered>>

Archive(b) ==
    /\ b \in catalog
    /\ archived' = archived \cup {b}
    /\ UNCHANGED <<committed, catalog, holds, stored, reopening, delivered>>

Store(b) ==
    /\ b \in (catalog \cap archived) \ stored
    /\ stored' = stored \cup {b}
    /\ reopening' = reopening \cup {b}
    /\ UNCHANGED <<committed, catalog, holds, archived, delivered>>

\* It is taken out of the catalogue, or is not after all.
Reopen(b) ==
    /\ b \in reopening
    /\ reopening' = reopening \ {b}
    /\ catalog' \in {catalog, catalog \ {b}}
    /\ UNCHANGED <<committed, holds, archived, stored, delivered>>

PutBack(b) ==
    /\ b \in stored \ (catalog \cup reopening)
    /\ catalog' = catalog \cup {b}
    /\ UNCHANGED <<committed, holds, archived, stored, reopening, delivered>>

LoseHost ==
    /\ catalog' = stored
    /\ UNCHANGED <<committed, holds, archived, stored, reopening, delivered>>

BeginRestore ==
    /\ delivered' = {}
    /\ UNCHANGED <<committed, catalog, holds, archived, stored, reopening>>

Deliver(b) ==
    /\ b \in catalog \cup stored /\ delivered = {}
    /\ delivered' = {<<b, "whole">>}
    /\ UNCHANGED <<committed, catalog, holds, archived, stored, reopening>>

CatalogNext ==
    \/ Commit \/ LoseHost \/ BeginRestore
    \/ \E b \in Backups : \/ Record(b) \/ Archive(b) \/ Store(b)
                          \/ Reopen(b) \/ PutBack(b) \/ Deliver(b)

CatalogSpec == CatalogInit /\ [][CatalogNext]_catalogVars
=============================================================================
