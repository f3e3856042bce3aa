------------------------------ MODULE ObjectMap ------------------------------
(***************************************************************************)
(* What MonoBucket's storage engine promises its callers, with no payload  *)
(* files, no reclamation log and no threads: a map from object keys to     *)
(* whole contents that only an acknowledged PUT or DELETE changes, each    *)
(* in one step, and backups that are copies of that map at one instant.    *)
(*                                                                         *)
(* `object[k]` is the content of key k, or None when k has no object.      *)
(* `backup[c]` is the copy the backup request c holds, or NoBackup.        *)
(***************************************************************************)
CONSTANTS Keys, Contents, Backups, None, NoBackup

VARIABLES object, backup

vars == <<object, backup>>

Init ==
    /\ object = [k \in Keys |-> None]
    /\ backup = [c \in Backups |-> NoBackup]

\* A PUT replaces the content of one key, whatever was there.
Put(k) ==
    /\ \E v \in Contents : object' = [object EXCEPT ![k] = v]
    /\ UNCHANGED backup

\* A DELETE removes one key.
Delete(k) ==
    /\ object' = [object EXCEPT ![k] = None]
    /\ UNCHANGED backup

\* A backup is the whole map at one instant.
TakeBackup(c) ==
    /\ backup' = [backup EXCEPT ![c] = object]
    /\ UNCHANGED object

\* A failed or superseded backup is dropped; a stopped process may drop several.
DropBackups ==
    /\ \E S \in SUBSET Backups :
          backup' = [c \in Backups |-> IF c \in S THEN NoBackup ELSE backup[c]]
    /\ UNCHANGED object

Next ==
    \/ \E k \in Keys : Put(k) \/ Delete(k)
    \/ \E c \in Backups : TakeBackup(c)
    \/ DropBackups

Spec == Init /\ [][Next]_vars

==============================================================================
