--------------------------------- MODULE ServingParts ---------------------------
(***************************************************************************)
(* The parts that serve and save: tuning, secrets and profiles,            *)
(* diagnostics, evidence, transfers of the stores and copies in the cloud. *)
(* What each is given stands in a record of its constants.                 *)
(***************************************************************************)
EXTENDS PartRegisters, Integers, FiniteSets, Sequences

CONSTANTS
  TuningGiven, SecretsGiven, DoctorGiven, VaultGiven, TransferGiven, CopiesGiven

(* What is given to a part: bounds are numbers, lists are sequences, and   *)
(* what the comment on a constant says of it holds.                        *)
ASSUME CopiesAssumption ==
  /\ CopiesGiven.MaxFaults \in Nat /\ CopiesGiven.MaxTurns \in Nat
  /\ \A l \in CopiesGiven.SensorLists \union CopiesGiven.Copies : IsList(l)
ASSUME TuningAssumption == TuningGiven.MaxTurns \in Nat
ASSUME SecretsAssumption == SecretsGiven.MaxTurns \in Nat \ {0}
ASSUME DoctorAssumption ==
  /\ DoctorGiven.MaxMoves \in Nat /\ DoctorGiven.LongBudget \in Nat \ {0}
  /\ \A c \in DoctorGiven.Chains :
       /\ c \in [source : BOOLEAN, sensor : BOOLEAN, stream : BOOLEAN, bound : BOOLEAN,
                 store : BOOLEAN, recording : STRING, rules : {c.rules}]
       /\ IsList(c.rules)
ASSUME VaultAssumption ==
  /\ VaultGiven.MaxDays \in Nat /\ VaultGiven.MaxTurns \in Nat /\ VaultGiven.MaxFaults \in Nat
  /\ VaultGiven.NoIncident \notin VaultGiven.Incidents
  /\ VaultGiven.Locks \in [VaultGiven.Incidents ->
                             [on : BOOLEAN, days : Nat, mode : {"", "GOVERNANCE", "COMPLIANCE"}]]
ASSUME TransferAssumption ==
  /\ IsFiniteSet(TransferGiven.Names) /\ TransferGiven.Projects \subseteq BOOLEAN
  /\ TransferGiven.MaxTurns \in Nat /\ TransferGiven.MaxFaults \in Nat

Tuning == INSTANCE TuningForms WITH
  view <- v1, maps <- v2, pods <- v3, form <- v4, req <- v5, rules <- v6,
  Users <- TuningGiven.Users, Rules <- TuningGiven.Rules, MaxTurns <- TuningGiven.MaxTurns
Secrets == INSTANCE SecretsProfiles WITH
  view <- v1, store <- v2, pods <- v3, db <- v4, live <- v5, req <- v6, world <- v7,
  Users <- SecretsGiven.Users, MaxTurns <- SecretsGiven.MaxTurns
Doctor == INSTANCE Diagnostics WITH
  view <- v1, world <- v2, walk <- v3, panel <- v4, runs <- v5, moves <- v6,
  Chains <- DoctorGiven.Chains, Tests <- DoctorGiven.Tests,
  LongBudget <- DoctorGiven.LongBudget, MaxMoves <- DoctorGiven.MaxMoves,
  MaxFaults <- DoctorGiven.MaxFaults
Vault == INSTANCE EvidenceReports WITH
  view <- v1, vault <- v2, page <- v3, dialog <- v4, db <- v5, wire <- v6, turns <- v7,
  faults <- v8, Incidents <- VaultGiven.Incidents, Locks <- VaultGiven.Locks,
  Spoken <- VaultGiven.Spoken, NoIncident <- VaultGiven.NoIncident,
  MaxDays <- VaultGiven.MaxDays, MaxTurns <- VaultGiven.MaxTurns,
  MaxFaults <- VaultGiven.MaxFaults
Transfer == INSTANCE StoreTransfer WITH
  view <- v1, config <- v2, pod <- v3, cloud <- v4, file <- v5, wrote <- v6, writers <- v7,
  job <- v8, reading <- v9, copy <- v10, health <- v11, turns <- v12, faults <- v13,
  Names <- TransferGiven.Names, Projects <- TransferGiven.Projects,
  MaxTurns <- TransferGiven.MaxTurns, MaxFaults <- TransferGiven.MaxFaults
Copies == INSTANCE CloudCopies WITH
  live <- v1, bucket <- v2, author <- v3, req <- v4, spent <- v5, Users <- CopiesGiven.Users,
  SensorLists <- CopiesGiven.SensorLists, Copies <- CopiesGiven.Copies,
  MaxFaults <- CopiesGiven.MaxFaults, MaxTurns <- CopiesGiven.MaxTurns
================================================================================
