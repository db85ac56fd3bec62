------------------------- MODULE GatewayInstallProofs -------------------------
(***************************************************************************)
(* Proofs about GatewayInstall, for any number of groups.  The invariant   *)
(* is that samba-ad-dc is only ever enabled on a complete domain, and that *)
(* the provisioning, which destroys one, only runs while it is not.        *)
(***************************************************************************)
EXTENDS GatewayInstall, TLAPS

USE GroupsAssumption

\* The commands behind which the other Sambas are disabled.
Exclusive == {"wipe", "backup", "rmconf", "provision", "groups", "enable"}

\* While the domain is provisioned no service is enabled on it, and its parts
\* come in their order.
Progress ==
    /\ step \in Provisioning => ~ enabled
    /\ step \in Exclusive => ~ classic
    /\ step \in {"rmconf", "provision", "groups", "enable"} => backup # "none"
    /\ step \in {"backup", "rmconf", "provision"} => groups = 0
    /\ step \in {"groups", "enable"} => database = "domain" /\ smbconf = "domain"
    /\ step = "groups" => groups < Groups
    /\ step = "enable" => groups = Groups

\* An enabled service has a complete domain, whatever is run and fails.
Sound ==
    enabled => /\ ~ classic /\ database = "domain" /\ smbconf = "domain"
               /\ groups = Groups /\ backup # "none"

\* The commands behind the provisioning run on an enabled service, and on what
\* the commands before them have made.
Behind ==
    /\ step \in {"kerberos", "config", "network", "trust", "permit", "done"} => enabled
    /\ step \in {"network", "trust", "permit", "done"} => config # "none"
    /\ step \in {"trust", "permit", "done"} => network
    /\ installed => enabled

IInv == TypeOK /\ Progress /\ Sound /\ Behind

-----------------------------------------------------------------------------
\* The invariant holds initially.
LEMMA InitInv == Init => IInv
<1> SUFFICES ASSUME Init PROVE IInv
  OBVIOUS
<1>1. enabled = FALSE /\ installed = FALSE /\ enabled \in BOOLEAN /\ installed \in BOOLEAN
  BY DEF Init
<1> QED
  BY <1>1 DEF Init, IInv, TypeOK, Progress, Sound, Behind, Commands, Provisioning,
              Exclusive

\* A step preserves the invariant: one step of the proof per action.
LEMMA StepInv == IInv /\ [Next]_vars => IInv'
<1> SUFFICES ASSUME IInv, [Next]_vars PROVE IInv'
  OBVIOUS
<1> USE DEF IInv, TypeOK, Progress, Sound, Behind, Commands, Provisioning,
            Exclusive, Step, samba
<1>1. CASE Check
  BY <1>1 DEF Check
<1>2. CASE StopSamba
  <2>1. ~ classic' /\ classic' \in BOOLEAN
    BY <1>2, Zenon DEF StopSamba
  <2> QED BY <1>2, <2>1 DEF StopSamba
<1>3. CASE WipeDatabases
  BY <1>3 DEF WipeDatabases
<1>4. CASE BackupConfig
  BY <1>4 DEF BackupConfig
<1>5. CASE RmConfig
  BY <1>5 DEF RmConfig
<1>6. CASE Provision
  BY <1>6 DEF Provision
<1>7. CASE AddGroup
  BY <1>7 DEF AddGroup
<1>8. CASE EnableAD
  <2>1. enabled' /\ enabled' \in BOOLEAN
    BY <1>8, Zenon DEF EnableAD
  <2> QED BY <1>8, <2>1 DEF EnableAD
<1>9. CASE Kerberos \/ WriteConfig \/ TrustCA
  BY <1>9 DEF Kerberos, WriteConfig, TrustCA
<1>10. CASE StartNetwork
  <2>1. network' /\ network' \in BOOLEAN
    BY <1>10, Zenon DEF StartNetwork
  <2> QED BY <1>10, <2>1 DEF StartNetwork
<1>16. CASE SetPermissions
  <2>1. installed' /\ installed' \in BOOLEAN
    BY <1>16, Zenon DEF SetPermissions
  <2> QED BY <1>16, <2>1 DEF SetPermissions
<1>11. CASE Fails
  <2>1. step' = "failed" /\ classic' \in BOOLEAN /\ network' \in BOOLEAN
    BY <1>11, Zenon DEF Fails
  <2>2. ~ classic => ~ classic'
    BY <1>11, Zenon DEF Fails
  <2> QED BY <1>11, <2>1, <2>2 DEF Fails
<1>12. CASE Configure
  BY <1>12 DEF Configure
<1>13. CASE Remove \/ Deconfigure
  <2>0. DisableServices /\ step' \in {"removed", "failed"}
    BY <1>13 DEF Remove, Deconfigure
  <2>1. ~ installed' /\ installed' \in BOOLEAN
    BY <2>0, Zenon DEF DisableServices
  <2>2. enabled' \in BOOLEAN /\ (enabled' => enabled)
    <3>1. CASE enabled' = FALSE
      BY <3>1, Zenon
    <3>2. CASE UNCHANGED enabled
      BY <3>2, Zenon
    <3> QED BY <2>0, <3>1, <3>2, Zenon DEF DisableServices
  <2>3. network' \in BOOLEAN
    BY <2>0, Zenon DEF DisableServices
  <2> QED BY <2>0, <2>1, <2>2, <2>3 DEF DisableServices
<1>14. CASE Purge \/ Edit
  BY <1>14 DEF Purge, Edit
<1>15. CASE UNCHANGED vars
  BY <1>15 DEF vars
<1> QED
  BY <1>1, <1>2, <1>3, <1>4, <1>5, <1>6, <1>7, <1>8, <1>9, <1>10, <1>11, <1>12,
     <1>13, <1>14, <1>15, <1>16 DEF Next, PostInst

-----------------------------------------------------------------------------
\* The inductive invariant holds of every behaviour.
THEOREM InvariantHolds == Spec => []IInv
BY InitInv, StepInv, PTL DEF Spec

\* Every variable keeps its type.
THEOREM TypeCorrect == Spec => []TypeOK
<1>1. IInv => TypeOK
  BY DEF IInv
<1> QED BY InvariantHolds, <1>1, PTL

\* An installation that ends well leaves a complete domain and the network
\* services, whatever happened to the attempts before it.
THEOREM InstallsDomain == Spec => []DoneMeansDomain
<1>1. IInv => DoneMeansDomain
  BY DEF IInv, Sound, Behind, DoneMeansDomain
<1> QED BY InvariantHolds, <1>1, PTL

\* The domain of an installation is kept at least until prerm is told something
\* else than "upgrade" and disables the service that stands for it.
THEOREM KeepsDomain == Spec => []DomainKept
<1>1. IInv => DomainKept
  BY DEF IInv, Sound, Behind, DomainKept
<1> QED BY InvariantHolds, <1>1, PTL

\* An edited configuration is kept by everything but a purge.
THEOREM KeepsConfig == Spec => ConfigKept
<1>1. [Next]_vars =>
        [config = "edited" /\ step # "removed" => config' = "edited"]_vars
  <2> SUFFICES ASSUME [Next]_vars, config = "edited", step # "removed"
               PROVE  config' = "edited"
    OBVIOUS
  <2> QED
    BY DEF Next, PostInst, Check, StopSamba, WipeDatabases, BackupConfig,
           RmConfig, Provision, AddGroup, EnableAD, Kerberos, WriteConfig,
           StartNetwork, TrustCA, SetPermissions, Fails, Configure, Remove,
           Deconfigure, DisableServices, Purge, Edit, Step, samba, vars
<1> QED BY <1>1, PTL DEF Spec, ConfigKept
=============================================================================
