------------------------------- MODULE MCQuota -------------------------------
(***************************************************************************)
(* Three parts that share no state, checked in one run: the lots of        *)
(* questions of a device, the migration that invalidates them, and the     *)
(* account of which the desktop client keeps a snapshot.  A behaviour is   *)
(* one of a single part, chosen at its start; the others rest.             *)
(***************************************************************************)
EXTENDS MCQuotaLedger, QuotaMigration, OfficialClient

VARIABLE part

PartInit ==
  /\ Init /\ MigrationInit /\ OfficialInit
  /\ part \in {"lots", "migration", "account"}
  /\ part = "migration" \/ member = [d \in Members |-> None]

PartNext ==
  \/ part = "lots" /\ Next /\ UNCHANGED <<part, migrationVars, officialVars>>
  \/ part = "migration" /\ MigrationNext /\ UNCHANGED <<part, ledgerVars, officialVars>>
  \/ part = "account" /\ OfficialNext /\ UNCHANGED <<part, ledgerVars, migrationVars>>

PartSpec == PartInit /\ [][PartNext]_<<part, ledgerVars, migrationVars, officialVars>>
=============================================================================
