-------------------------- MODULE Administration_proofs -------------------------
(***************************************************************************)
(* The composition that TLC explores is a union of the behaviours of seven *)
(* modules, of which one moves (part) and six stand still.  A behaviour of *)
(* it is therefore one of each module, and the type invariant it is        *)
(* checked against follows from those proved of the modules.               *)
(***************************************************************************)
EXTENDS MCAdministration, Records_proofs, Enrolment_proofs, Services_proofs

\* A behaviour of the composition is one of each of its components.
LEMMA RecordsCompose == MCSpec => AccountsSpec /\ EnrolmentSpec /\ DirectorySpec
<1>1. MCInit => AccountsInit /\ EnrolmentInit /\ DirectoryInit
  BY DEF MCInit
<1>2. [MCNext]_allVars =>
        /\ [AccountsNext]_accountsVars
        /\ [EnrolmentNext]_enrolmentVars
        /\ [DirectoryNext]_directoryVars
  BY Zenon DEF MCNext, RecordsNext, allVars, recordsVars
<1> QED
  BY <1>1, <1>2, PTL DEF MCSpec, AccountsSpec, EnrolmentSpec, DirectorySpec

LEMMA ServicesCompose ==
  MCSpec => LimiterSpec /\ MigrationsSpec /\ EvidenceSpec /\ RemindersSpec
<1>1. MCInit => LimiterInit /\ MigrationsInit /\ EvidenceInit /\ RemindersInit
  BY DEF MCInit
<1>2. [MCNext]_allVars =>
        /\ [LimiterNext]_limiterVars
        /\ [MigrationsNext]_migrationsVars
        /\ [EvidenceNext]_evidenceVars
        /\ [RemindersNext]_remindersVars
  BY Zenon DEF MCNext, ServicesNext, allVars, servicesVars
<1> QED
  BY <1>1, <1>2, PTL DEF MCSpec, LimiterSpec, MigrationsSpec, EvidenceSpec, RemindersSpec

\* Tables, handler locals and history of the seven modules have their types in
\* every run of the composition.
THEOREM AdministrationTypes == MCSpec => []AdministrationTypeOK
<1>1. AccountsTypeOK /\ EnrolmentTypeOK /\ DirectoryTypeOK /\ LimiterTypeOK
        /\ MigrationsTypeOK /\ EvidenceTypeOK /\ RemindersTypeOK
      => AdministrationTypeOK
  BY DEF AdministrationTypeOK
<1> QED
  BY <1>1, RecordsCompose, ServicesCompose, AccountTypes, EnrolmentTypes, DirectoryTypes,
     LimiterTypes, MigrationTypes, EvidenceTypes, ReminderTypes, PTL
================================================================================
