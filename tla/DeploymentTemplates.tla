------------------------- MODULE DeploymentTemplates -------------------------
(***************************************************************************)
(* The GCP Deployment Manager (DM) templates of installation/gcp/dm and DM *)
(* creating what they generate.  vmclarity.py lists seven template         *)
(* resources; DM expands each with GenerateConfig(context), where           *)
(* context.env.name is the template resource's name and context.properties *)
(* its "properties", and then creates the base resources in parallel, a    *)
(* resource waiting for every resource it names in a "$(ref.NAME.FIELD)".  *)
(*                                                                         *)
(* Names built by f-strings are tuples <<stem, suffix>>, the stem d       *)
(* standing for f"vmclarity-{d}": every suffix used is a fixed literal and *)
(* none is a suffix of another, so two names are equal as strings iff      *)
(* their tuples are.  sha1(deployment)[:10] is Hash(d), taken to be        *)
(* injective on the deployments of a project and never itself a            *)
(* deployment name.                                                        *)
(* network.py, static-ip.py and service-account.py are not in this tree;  *)
(* each is taken to create one base resource named context.env.name.       *)
(***************************************************************************)
EXTENDS FiniteSets, Sequences

CONSTANTS
    Deployments     \* deployment names that may be installed in one project

ASSUME DeploymentsAssumption == Deployments # {}

VARIABLES
    deployment,     \* context.env["deployment"] of this deployment
    serverDefaults, \* keys vmclarity-server.py.schema (not in this tree) defaults
    phase,          \* "expanding", "creating", "done" or "failed"
    created,        \* base resources created so far (indices into Base)
    failed          \* base resources whose creation failed

vars == <<deployment, serverDefaults, phase, created, failed>>

Input == "input"                                 \* an opaque property value
Ref(n, f) == <<"ref", n, f>>                     \* the string "$(ref.n.f)"
Name(stem, suffix) == <<stem, suffix>>
Hash(d) == <<"sha1", d>>
Props(keys, named) == [k \in keys \cup DOMAIN named |->
                          IF k \in DOMAIN named THEN named[k] ELSE Input]
NoNamed == [k \in {} |-> Input]

\* Keys vmclarity.py reads from the deployment's properties with [] and
\* forwards to the server template; and those it reads with .get(k, "").
ServerInputs == {"machineType", "zone", "sshPublicKey", "region",
    "scannerMachineType", "scannerSourceImage", "databaseToUse",
    "apiserverContainerImage", "orchestratorContainerImage",
    "uiContainerImage", "uibackendContainerImage", "scannerContainerImage",
    "exploitDBServerContainerImage", "trivyServerContainerImage",
    "grypeServerContainerImage", "freshclamMirrorContainerImage",
    "postgresqlContainerImage", "assetScanDeletePolicy"}
OptionalInputs == {"postgresDBPassword", "externalDBName", "externalDBUsername",
    "externalDBPassword", "externalDBHost", "externalDBPort"}

NetworkName(d)  == Name(d, "-network")
StaticIpName(d) == Name(d, "-static-ip")
ServerName(d)   == Name(d, "-server")
RouterName(d)   == Name(d, "-cloud-router")
SAName(d)       == Name(Hash(d), "-sa")

\* Mutant: the service account passed to the server with the deployment
\* prefix, as the other names are, while the template creates the hash name.
ServerTemplatePrefixSA(d) ==
    [name |-> ServerName(d), type |-> "vmclarity-server.py",
     props |-> Props(ServerInputs \cup OptionalInputs,
                     [network |-> NetworkName(d),
                      staticIp |-> Ref(StaticIpName(d), "address"),
                      serviceAccount |-> Name(d, "-sa")])]

\* vmclarity.py GenerateConfig: the server template resource and the
\* deployment properties it forwards.
ServerTemplate(d) ==
    [name |-> ServerName(d), type |-> "vmclarity-server.py",
     props |-> Props(ServerInputs \cup OptionalInputs,
                     [network |-> NetworkName(d),
                      staticIp |-> Ref(StaticIpName(d), "address"),
                      serviceAccount |-> SAName(d)])]

\* vmclarity.py GenerateConfig: the template resources, in list order.
VMClarityResources(d) == <<
    [name |-> NetworkName(d), type |-> "network.py", props |-> NoNamed],
    [name |-> StaticIpName(d), type |-> "static-ip.py",
     props |-> Props({"region"}, NoNamed)],
    [name |-> "firewallRules", type |-> "firewall-rules.py",
     props |-> Props({}, [network |-> NetworkName(d)])],
    [name |-> SAName(d), type |-> "service-account.py", props |-> NoNamed],
    [name |-> "roles", type |-> "roles.py",
     props |-> Props({}, [serviceAccount |-> SAName(d)])],
    [name |-> RouterName(d), type |-> "cloud-router.py",
     props |-> Props({"region"}, [network |-> NetworkName(d)])],
    ServerTemplate(d) >>

\* vmclarity.py GenerateConfig: outputs.
Outputs(d) == {Ref(StaticIpName(d), "address")}

\* openclarity_install_script.py GenerateInstallScript: keys read with [].
InstallScriptReads == {"databaseToUse", "scannerContainerImage",
    "assetScanDeletePolicy", "apiserverContainerImage",
    "orchestratorContainerImage", "uiContainerImage", "uibackendContainerImage",
    "exploitDBServerContainerImage", "trivyServerContainerImage",
    "grypeServerContainerImage", "freshclamMirrorContainerImage",
    "yaraRuleServerContainerImage", "postgresqlContainerImage", "zone",
    "region", "network", "scannerMachineType", "scannerSourceImage"}

\* Keys each template reads with context.properties[...].
Reads(type) ==
    CASE type = "firewall-rules.py"   -> {"network"}
      [] type = "roles.py"            -> {"serviceAccount"}
      [] type = "cloud-router.py"     -> {"network", "region"}
      [] type = "vmclarity-server.py" ->
            {"zone", "machineType", "network", "staticIp", "serviceAccount",
             "sshPublicKey"} \cup InstallScriptReads
      [] OTHER                        -> {}

Res(name, type, refs, needs) ==
    [name |-> name, type |-> type, refs |-> refs, needs |-> needs]

\* firewall-rules.py GenerateConfig.
FirewallRules(d, p) ==
    << Res(Name(d, "-allow-ssh"), "compute.v1.firewall",
           {<<p["network"], "selfLink">>}, {}),
       Res(Name(d, "-allow-scanner-to-control-plane"), "compute.v1.firewall",
           {<<p["network"], "selfLink">>}, {}) >>

\* Mutant: the role prefix without the deployment hash.
RolePrefixUnhashed(d) == <<"vmclarity">>

\* roles.py: prefix = f"vmclarity-{deployment_name_hash}".
RolePrefix(d) == Hash(d)

DiscovererRoleName(d) == Name(RolePrefix(d), "-discoverer-snapshotter")

\* Mutant: the scanner role given the discoverer role's name.
ScannerRoleNameCopy(d) == Name(RolePrefix(d), "-discoverer-snapshotter")

ScannerRoleName(d) == Name(RolePrefix(d), "-scanner")

\* roles.py GenerateConfig: two custom roles and a binding of each to the
\* service account.  A binding names its role by the string
\* projects/{project}/roles/{roleId}, which DM does not see as a
\* dependency: "needs" holds it, "refs" only the $(ref) to the account.
Roles(d, p) ==
    LET disc == DiscovererRoleName(d)
        scan == ScannerRoleName(d)
        sa   == {<<p["serviceAccount"], "email">>}
    IN << Res(disc, "iam.role", {}, {}),
          Res(scan, "iam.role", {}, {}),
          Res(Name(RolePrefix(d), "-discoverer-snapshotter-role-binding"),
              "iam.binding", sa, {disc}),
          Res(Name(RolePrefix(d), "-scanner-role-binding"),
              "iam.binding", sa, {scan}) >>

\* cloud-router.py GenerateConfig.
CloudRouter(n, p) ==
    << Res(n, "compute.v1.router", {<<p["network"], "selfLink">>}, {}) >>

\* vmclarity-server.py GenerateConfig: natIP is the "$(ref...)" string
\* vmclarity.py passed as staticIp, which DM resolves in place; the
\* startup script from GenerateInstallScript carries no reference.
Server(n, p) ==
    << Res(n, "compute.v1.instance",
           {<<p["network"], "selfLink">>, <<p["serviceAccount"], "email">>}
              \cup {<<p["staticIp"][2], p["staticIp"][3]>>}, {}) >>

\* Expansion of one template resource t of deployment d.
Expand(d, t) ==
    CASE t.type = "network.py"         -> << Res(t.name, "compute.v1.network", {}, {}) >>
      [] t.type = "static-ip.py"       -> << Res(t.name, "compute.v1.address", {}, {}) >>
      [] t.type = "service-account.py" -> << Res(t.name, "iam.serviceAccount", {}, {}) >>
      [] t.type = "firewall-rules.py"  -> FirewallRules(d, t.props)
      [] t.type = "roles.py"           -> Roles(d, t.props)
      [] t.type = "cloud-router.py"    -> CloudRouter(t.name, t.props)
      [] t.type = "vmclarity-server.py" -> Server(t.name, t.props)

\* Fields a created resource offers to $(ref.NAME.FIELD).
Exports(type) ==
    CASE type = "compute.v1.network" -> {"selfLink"}
      [] type = "compute.v1.address" -> {"address", "selfLink"}
      [] type = "iam.serviceAccount" -> {"email"}
      [] OTHER                       -> {"selfLink"}

\* The base resources of deployment d, indexed <<template, child>>.
Tmpl(d) == VMClarityResources(d)
BaseIdx(d) == UNION {{<<i, j>> : j \in DOMAIN Expand(d, Tmpl(d)[i])} : i \in DOMAIN Tmpl(d)}
Base(d, x) == Expand(d, Tmpl(d)[x[1]])[x[2]]

\* Keys a template finds although its parent did not pass them: the
\* defaults of its .schema file.
Defaults(type) == IF type = "vmclarity-server.py" THEN serverDefaults ELSE {}

\* Every context.properties[k] of every template finds k: no KeyError.
ExpansionOK(d) ==
    \A i \in DOMAIN Tmpl(d) :
        Reads(Tmpl(d)[i].type) \subseteq DOMAIN Tmpl(d)[i].props \cup Defaults(Tmpl(d)[i].type)

NameOf(x) == Base(deployment, x).name
CreatedNames == {NameOf(y) : y \in created}

Phases == {"expanding", "creating", "done", "failed"}

Init ==
    /\ deployment \in Deployments
    /\ serverDefaults \in SUBSET {"yaraRuleServerContainerImage"}
    /\ phase = "expanding"
    /\ created = {}
    /\ failed = {}

\* DM runs every GenerateConfig; a KeyError fails the whole deployment.
ExpandTemplates ==
    /\ phase = "expanding"
    /\ phase' = IF ExpansionOK(deployment) THEN "creating" ELSE "failed"
    /\ UNCHANGED <<deployment, serverDefaults, created, failed>>

\* DM creates base resource x once every resource x names in a $(ref) is
\* created.  The API call fails when a resource x needs (a custom role
\* named by string) does not exist yet, and the deployment fails.
Create(x) ==
    /\ phase = "creating"
    /\ x \in BaseIdx(deployment) \ (created \cup failed)
    /\ \A r \in Base(deployment, x).refs : r[1] \in CreatedNames
    /\ IF Base(deployment, x).needs \subseteq CreatedNames
         THEN /\ created' = created \cup {x}
              /\ UNCHANGED <<phase, failed>>
         ELSE /\ failed' = failed \cup {x}
              /\ phase' = "failed"
              /\ UNCHANGED created
    /\ UNCHANGED <<deployment, serverDefaults>>

\* Every base resource exists: the deployment is done.
Finish ==
    /\ phase = "creating"
    /\ created = BaseIdx(deployment)
    /\ phase' = "done"
    /\ UNCHANGED <<deployment, serverDefaults, created, failed>>

Next ==
    \/ ExpandTemplates
    \/ \E x \in BaseIdx(deployment) : Create(x)
    \/ Finish

Spec == Init /\ [][Next]_vars

-----------------------------------------------------------------------------
\* No two base resources of a deployment share a name (DM rejects a
\* config with duplicate names): roles.py, firewall-rules.py and
\* vmclarity.py each build names from their own prefix and suffixes.
NamesUnique ==
    \A x, y \in BaseIdx(deployment) : x # y => NameOf(x) # NameOf(y)

\* Every $(ref.NAME.FIELD) in a resource or an output, whichever template
\* builds it from which forwarded name, names a base resource of the
\* deployment that offers FIELD.
RefsResolve ==
    LET Offers(n, f) == \E y \in BaseIdx(deployment) :
                           NameOf(y) = n /\ f \in Exports(Base(deployment, y).type)
    IN  /\ \A x \in BaseIdx(deployment) :
             \A r \in Base(deployment, x).refs : Offers(r[1], r[2])
        /\ \A o \in Outputs(deployment) : Offers(o[2], o[3])

\* This deployment creates no resource with the name of one another
\* deployment in the project creates, so the project-wide custom roles and
\* service account of one installation never clash with another's.
InstallsDisjoint ==
    \A other \in Deployments \ {deployment} :
        \A x \in BaseIdx(deployment), y \in BaseIdx(other) :
            NameOf(x) # Base(other, y).name

\* The templates expand: a deployment fails, if at all, only when a
\* resource cannot be created (vmclarity.py: "Creates VMClarity").
ExpandsCleanly == phase = "failed" => failed # {}

\* No resource creation fails: every IAM binding in roles.py is created
\* after the custom role it grants.
CreationSucceeds == failed = {}
=============================================================================
