---------------------------- MODULE GatewayInstall ----------------------------
(***************************************************************************)
(* The package of the lab's gateway: its maintainer scripts make Samba the *)
(* Active Directory domain controller, with the lab's groups, and write    *)
(* the configuration that the network services are generated from.  The    *)
(* script of the installation ends at the first command that fails, and is *)
(* run again by every upgrade, reconfiguration and repeated attempt; it    *)
(* looks at no argument.                                                   *)
(***************************************************************************)
EXTENDS Naturals

CONSTANT Groups  \* number of AD groups the lab needs; 2 in the code

ASSUME GroupsAssumption == Groups \in Nat \ {0}

VARIABLES
    step,      \* the command of postinst that is next; or "removed", "failed"
               \* or "done"
    classic,   \* are smbd, nmbd and winbind enabled?
    enabled,   \* is samba-ad-dc enabled?
    database,  \* Samba's databases: "none", "distro", "partial" or "domain"
    groups,    \* groups in them
    smbconf,   \* /etc/samba/smb.conf: "none", "distro" or "domain"
    backup,    \* smb.conf.shaka-lab.orig: the same, or "partial"
    config,    \* config.yaml: "none", "partial", "generated" or "edited"
    network,   \* are named and isc-dhcp-server enabled?
    installed  \* history: has an installation ended well since the services
               \* were last disabled?

samba == <<classic, enabled, database, groups, smbconf, backup>>
vars == <<step, classic, enabled, database, groups, smbconf, backup, config,
          network, installed>>

\* The part of postinst that is left out when samba-ad-dc is enabled.
Provisioning ==
    {"stop", "wipe", "backup", "rmconf", "provision", "groups", "enable"}

Commands == Provisioning \cup
            {"check", "kerberos", "config", "network", "trust", "permit"}

TypeOK ==
    /\ step \in Commands \cup {"removed", "failed", "done"}
    /\ classic \in BOOLEAN
    /\ enabled \in BOOLEAN
    /\ database \in {"none", "distro", "partial", "domain"}
    /\ groups \in 0 .. Groups
    /\ smbconf \in {"none", "distro", "domain"}
    /\ backup \in {"none", "partial", "distro", "domain"}
    /\ config \in {"none", "partial", "generated", "edited"}
    /\ network \in BOOLEAN
    /\ installed \in BOOLEAN

Init ==
    /\ step = "removed"
    /\ classic \in BOOLEAN
    /\ enabled = FALSE
    /\ database = "distro"
    /\ groups = 0
    /\ smbconf = "distro"
    /\ backup = "none"
    /\ config = "none"
    /\ network \in BOOLEAN
    /\ installed = FALSE

-----------------------------------------------------------------------------
(* postinst, a command at a time.                                          *)

Step(from, to) == step = from /\ step' = to

\* systemctl is-enabled samba-ad-dc
Check ==
    /\ Step("check", IF enabled THEN "config" ELSE "stop")
    /\ UNCHANGED <<samba, config, network, installed>>

StopSamba ==
    /\ Step("stop", "wipe")
    /\ classic' = FALSE
    /\ UNCHANGED <<enabled, database, groups, smbconf, backup, config, network,
                   installed>>

\* xargs runs rm even if there is nothing to remove, and rm then fails.
WipeDatabases ==
    /\ Step("wipe", IF database = "none" THEN "failed" ELSE "backup")
    /\ database' = "none"
    /\ groups' = 0
    /\ UNCHANGED <<classic, enabled, smbconf, backup, config, network, installed>>

\* backup_config(): cp fails if there is no smb.conf.
BackupConfig ==
    /\ Step("backup", IF backup = "none" /\ smbconf = "none" THEN "failed"
                      ELSE "rmconf")
    /\ backup' = IF backup = "none" THEN smbconf ELSE backup
    /\ UNCHANGED <<classic, enabled, database, groups, smbconf, config, network,
                   installed>>

\* rm without -f
RmConfig ==
    /\ Step("rmconf", IF smbconf = "none" THEN "failed" ELSE "provision")
    /\ smbconf' = "none"
    /\ UNCHANGED <<classic, enabled, database, groups, backup, config, network,
                   installed>>

\* Mutated: the service is enabled before its groups are there.
ProvisionEnabled ==
    /\ Step("provision", "groups")
    /\ database' = "domain"
    /\ smbconf' = "domain"
    /\ enabled' = TRUE
    /\ UNCHANGED <<classic, groups, backup, config, network, installed>>

\* samba-tool domain provision
Provision ==
    /\ Step("provision", "groups")
    /\ database' = "domain"
    /\ smbconf' = "domain"
    /\ UNCHANGED <<classic, enabled, groups, backup, config, network, installed>>

\* Mutated: one group too many.
AddGroups ==
    /\ Step("groups", IF groups < Groups THEN "groups" ELSE "enable")
    /\ groups' = groups + 1
    /\ UNCHANGED <<classic, enabled, database, smbconf, backup, config, network,
                   installed>>

\* samba-tool group add and addunixattrs: one group after the other.
AddGroup ==
    /\ Step("groups", IF groups + 1 < Groups THEN "groups" ELSE "enable")
    /\ groups' = groups + 1
    /\ UNCHANGED <<classic, enabled, database, smbconf, backup, config, network,
                   installed>>

EnableAD ==
    /\ Step("enable", "kerberos")
    /\ enabled' = TRUE
    /\ UNCHANGED <<classic, database, groups, smbconf, backup, config, network,
                   installed>>

Kerberos ==
    /\ Step("kerberos", "config")
    /\ UNCHANGED <<samba, config, network, installed>>

\* Mutated: without the test for the file.
OverwriteConfig ==
    /\ Step("config", "network")
    /\ config' = "generated"
    /\ UNCHANGED <<samba, network, installed>>

WriteConfig ==
    /\ Step("config", "network")
    /\ config' = IF config = "none" THEN "generated" ELSE config
    /\ UNCHANGED <<samba, network, installed>>

\* named and isc-dhcp-server are enabled; total-perspective-vortex generates
\* the files of all services and restarts them.
StartNetwork ==
    /\ Step("network", "trust")
    /\ network' = TRUE
    /\ UNCHANGED <<samba, config, installed>>

\* The certificate appears within a minute; if not, cp fails.
TrustCA ==
    /\ Step("trust", "permit")
    /\ UNCHANGED <<samba, config, network, installed>>

SetPermissions ==
    /\ Step("permit", "done")
    /\ installed' = TRUE
    /\ UNCHANGED <<samba, config, network>>

\* set -e: a command fails, or the machine does, and leaves half of its work.
Fails ==
    /\ step \in Commands /\ step' = "failed"
    /\ IF step = "stop" THEN classic' \in {classic, FALSE} ELSE UNCHANGED classic
    /\ \/ step = "wipe" /\ database' \in {database, "partial"}
                        /\ groups' \in {groups, 0} /\ UNCHANGED smbconf
       \/ step = "provision" /\ database' \in {"none", "partial"}
                             /\ smbconf' \in {smbconf, "domain"} /\ UNCHANGED groups
       \/ /\ step \notin {"wipe", "provision"}
          /\ UNCHANGED <<database, groups, smbconf>>
    /\ IF step = "backup" /\ backup = "none" THEN backup' \in {"none", "partial"}
       ELSE UNCHANGED backup
    /\ IF step = "config" /\ config = "none" THEN config' \in {"none", "partial"}
       ELSE UNCHANGED config
    /\ IF step = "network" THEN network' \in {network, TRUE} ELSE UNCHANGED network
    /\ UNCHANGED <<enabled, installed>>

-----------------------------------------------------------------------------
(* The package and its administrator.                                      *)

\* Mutated: prerm does not look at its argument.
ConfigureDisabled ==
    /\ step \in {"removed", "failed", "done"}
    /\ step' = "check"
    /\ enabled' = FALSE
    /\ network' = FALSE
    /\ UNCHANGED <<classic, database, groups, smbconf, backup, config, installed>>

\* postinst is called: by an installation, an upgrade, before which prerm was
\* told "upgrade" and did nothing, a reconfiguration or another attempt.
Configure ==
    /\ step \in {"removed", "failed", "done"}
    /\ step' = "check"
    /\ UNCHANGED <<samba, config, network, installed>>

\* prerm, told anything but "upgrade"; it goes on when a command fails.
DisableServices ==
    /\ step \in {"failed", "done"}
    /\ enabled' = FALSE \/ UNCHANGED enabled
    /\ network' = FALSE \/ UNCHANGED network
    /\ installed' = FALSE
    /\ UNCHANGED <<classic, database, groups, smbconf, backup, config>>

\* "remove"
Remove == DisableServices /\ step' = "removed"

\* "deconfigure", for the sake of another package, "failed-upgrade", or a
\* "remove" that fails in the end: the package stays, to be configured again.
Deconfigure == DisableServices /\ step' = "failed"

\* postrm purge
Purge ==
    /\ step = "removed"
    /\ config' = "none"
    /\ UNCHANGED <<step, samba, network, installed>>

\* The administrator edits config.yaml.
Edit ==
    /\ step \in {"failed", "done"} /\ config # "none"
    /\ config' = "edited"
    /\ UNCHANGED <<step, samba, network, installed>>

-----------------------------------------------------------------------------
PostInst == \/ Check \/ StopSamba \/ WipeDatabases \/ BackupConfig \/ RmConfig
            \/ Provision \/ AddGroup \/ EnableAD \/ Kerberos \/ WriteConfig
            \/ StartNetwork \/ TrustCA \/ SetPermissions

Next == \/ PostInst \/ Fails \/ Configure
        \/ Remove \/ Deconfigure \/ Purge \/ Edit

Spec == Init /\ [][Next]_vars

-----------------------------------------------------------------------------
(* Properties.                                                             *)

\* An installation that ends well leaves a domain with all of its groups and no
\* other Samba beside it, however many attempts before it ended wherever, and
\* though later attempts skip the provisioning (postinst:89-130).
DoneMeansDomain ==
    step = "done" =>
        /\ enabled /\ ~ classic /\ network
        /\ database = "domain" /\ smbconf = "domain" /\ groups = Groups
        /\ backup # "none" /\ config # "none"

\* The domain of an installation, and with it every user of the lab, outlives
\* upgrades that go well, reconfigurations, and failures of postinst wherever they
\* happen.  It may only be lost once prerm was told anything but "upgrade", which
\* takes no removal: the installation after a "deconfigure" or "failed-upgrade"
\* wipes it too (postinst:86-89, prerm:22-30).
DomainKept == installed => database = "domain" /\ groups = Groups

\* What the administrator has written is lost to nothing but a purge
\* (postinst:139-142, postrm:22-32).
ConfigKept ==
    [][config = "edited" /\ step # "removed" => config' = "edited"]_vars
=============================================================================
