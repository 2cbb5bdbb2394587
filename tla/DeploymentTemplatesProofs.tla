---------------------- MODULE DeploymentTemplatesProofs ----------------------
(***************************************************************************)
(* Proofs that the names the GCP templates generate are unique within a   *)
(* deployment and disjoint across deployments, and that every $(ref) they  *)
(* write resolves, for every deployment name.  They rest on ExpandTable:   *)
(* what Deployment Manager's expansion of each of vmclarity.py's seven     *)
(* template resources yields.                                              *)
(***************************************************************************)
EXTENDS DeploymentTemplates, Naturals, TLAPS

NetRef(d) == <<NetworkName(d), "selfLink">>
SARef(d)  == <<SAName(d), "email">>
IpRef(d)  == <<StaticIpName(d), "address">>

\* The expansion of each template resource, as the templates compute it.
Expansion(d) == <<
    << Res(NetworkName(d), "compute.v1.network", {}, {}) >>,
    << Res(StaticIpName(d), "compute.v1.address", {}, {}) >>,
    << Res(Name(d, "-allow-ssh"), "compute.v1.firewall", {NetRef(d)}, {}),
       Res(Name(d, "-allow-scanner-to-control-plane"), "compute.v1.firewall",
           {NetRef(d)}, {}) >>,
    << Res(SAName(d), "iam.serviceAccount", {}, {}) >>,
    << Res(DiscovererRoleName(d), "iam.role", {}, {}),
       Res(ScannerRoleName(d), "iam.role", {}, {}),
       Res(Name(Hash(d), "-discoverer-snapshotter-role-binding"),
           "iam.binding", {SARef(d)}, {DiscovererRoleName(d)}),
       Res(Name(Hash(d), "-scanner-role-binding"),
           "iam.binding", {SARef(d)}, {ScannerRoleName(d)}) >>,
    << Res(RouterName(d), "compute.v1.router", {NetRef(d)}, {}) >>,
    << Res(ServerName(d), "compute.v1.instance", {NetRef(d), SARef(d), IpRef(d)}, {}) >> >>

\* DM's expansion of vmclarity.py's i-th template resource is Expansion(d)[i].
LEMMA ExpandTable ==
    ASSUME NEW d, NEW i \in 1..7
    PROVE  Expand(d, Tmpl(d)[i]) = Expansion(d)[i]
<1> USE DEF Tmpl, VMClarityResources, ServerTemplate, Expansion
<1>1. Expand(d, Tmpl(d)[1]) = Expansion(d)[1]
  BY DEF Expand
<1>2. Expand(d, Tmpl(d)[2]) = Expansion(d)[2]
  BY DEF Expand
<1>3. Expand(d, Tmpl(d)[3]) = Expansion(d)[3]
  <2>1. Expand(d, Tmpl(d)[3]) = FirewallRules(d, Props({}, [network |-> NetworkName(d)]))
    BY DEF Expand
  <2>2. Props({}, [network |-> NetworkName(d)])["network"] = NetworkName(d)
    BY DEF Props
  <2>. QED  BY <2>1, <2>2 DEF FirewallRules, NetRef
<1>4. Expand(d, Tmpl(d)[4]) = Expansion(d)[4]
  BY DEF Expand
<1>5. Expand(d, Tmpl(d)[5]) = Expansion(d)[5]
  <2>1. Expand(d, Tmpl(d)[5]) = Roles(d, Props({}, [serviceAccount |-> SAName(d)]))
    BY DEF Expand
  <2>2. Props({}, [serviceAccount |-> SAName(d)])["serviceAccount"] = SAName(d)
    BY DEF Props
  <2>. QED  BY <2>1, <2>2 DEF Roles, SARef, RolePrefix
<1>6. Expand(d, Tmpl(d)[6]) = Expansion(d)[6]
  <2>1. Expand(d, Tmpl(d)[6]) = CloudRouter(RouterName(d), Props({"region"}, [network |-> NetworkName(d)]))
    BY DEF Expand
  <2>2. Props({"region"}, [network |-> NetworkName(d)])["network"] = NetworkName(d)
    BY DEF Props
  <2>. QED  BY <2>1, <2>2 DEF CloudRouter, NetRef
<1>7. Expand(d, Tmpl(d)[7]) = Expansion(d)[7]
  <2> DEFINE named == [network |-> NetworkName(d),
                      staticIp |-> Ref(StaticIpName(d), "address"),
                      serviceAccount |-> SAName(d)]
             p == Props(ServerInputs \cup OptionalInputs, named)
  <2>1. Expand(d, Tmpl(d)[7]) = Server(ServerName(d), p)
    BY DEF Expand
  <2>2. /\ p["network"] = NetworkName(d)
        /\ p["serviceAccount"] = SAName(d)
        /\ p["staticIp"] = Ref(StaticIpName(d), "address")
    BY DEF Props
  <2>3. p["staticIp"][2] = StaticIpName(d) /\ p["staticIp"][3] = "address"
    BY <2>2 DEF Ref
  <2>. QED  BY <2>1, <2>2, <2>3 DEF Server, NetRef, SARef, IpRef
<1>8. i \in {1, 2, 3, 4, 5, 6, 7}
  OBVIOUS
<1>. QED  BY ONLY <1>1, <1>2, <1>3, <1>4, <1>5, <1>6, <1>7, <1>8

\* The eleven base resources, indexed <<template, child>>.
Idx == {<<1, 1>>, <<2, 1>>, <<3, 1>>, <<3, 2>>, <<4, 1>>,
        <<5, 1>>, <<5, 2>>, <<5, 3>>, <<5, 4>>, <<6, 1>>, <<7, 1>>}

LEMMA BaseIdxTable ==
    ASSUME NEW d
    PROVE  BaseIdx(d) = Idx
<1>1. DOMAIN Tmpl(d) = 1..7
  BY DEF Tmpl, VMClarityResources
<1>2. \A i \in 1..7 : Expand(d, Tmpl(d)[i]) = Expansion(d)[i]
  BY ExpandTable
<1>3. BaseIdx(d) = UNION {{<<i, j>> : j \in DOMAIN Expansion(d)[i]} : i \in 1..7}
  BY <1>1, <1>2 DEF BaseIdx
<1>. QED  BY <1>3 DEF Expansion, Idx

\* The base resource at each index is the table's entry.
LEMMA BaseTable ==
    ASSUME NEW d
    PROVE  \A x \in Idx : Base(d, x) = Expansion(d)[x[1]][x[2]]
<1>1. \A x \in Idx : x[1] \in 1..7 /\ Base(d, x) = Expand(d, Tmpl(d)[x[1]])[x[2]]
  BY DEF Idx, Base
<1>2. \A i \in 1..7 : Expand(d, Tmpl(d)[i]) = Expansion(d)[i]
  BY ExpandTable
<1>. QED  BY <1>1, <1>2

\* Suffix(x): the literal suffix of the name of base resource x.
SuffixTable == <<
    << "-network" >>, << "-static-ip" >>,
    << "-allow-ssh", "-allow-scanner-to-control-plane" >>,
    << "-sa" >>,
    << "-discoverer-snapshotter", "-scanner",
       "-discoverer-snapshotter-role-binding", "-scanner-role-binding" >>,
    << "-cloud-router" >>, << "-server" >> >>
Suffix(x) == SuffixTable[x[1]][x[2]]

\* Stem(d, x): the stem of that name, d itself or sha1(d)[:10].
Stem(d, x) == IF x[1] \in {4, 5} THEN Hash(d) ELSE d

\* The templates' names, template by template: the network, the static
\* IP, the two firewall rules, the router and the server carry the
\* deployment name; the account, the custom roles and their bindings
\* carry its hash; every name has a suffix of its own.
LEMMA NameTable ==
    ASSUME NEW d
    PROVE  \A x \in Idx : Base(d, x).name = <<Stem(d, x), Suffix(x)>>
<1> SUFFICES ASSUME NEW x \in Idx PROVE Base(d, x).name = <<Stem(d, x), Suffix(x)>>
  OBVIOUS
<1>1. Base(d, x) = Expansion(d)[x[1]][x[2]]
  BY BaseTable
<1> USE DEF Expansion, Stem, Suffix, SuffixTable, Res, Name, NetworkName, StaticIpName,
           SAName, RouterName, ServerName, DiscovererRoleName, ScannerRoleName, RolePrefix
<1>2. CASE x = <<1, 1>>
  BY <1>1, <1>2
<1>3. CASE x = <<2, 1>>
  BY <1>1, <1>3
<1>4. CASE x = <<3, 1>>
  BY <1>1, <1>4
<1>5. CASE x = <<3, 2>>
  BY <1>1, <1>5
<1>6. CASE x = <<4, 1>>
  BY <1>1, <1>6
<1>7. CASE x = <<5, 1>>
  BY <1>1, <1>7
<1>8. CASE x = <<5, 2>>
  BY <1>1, <1>8
<1>9. CASE x = <<5, 3>>
  BY <1>1, <1>9
<1>10. CASE x = <<5, 4>>
  BY <1>1, <1>10
<1>11. CASE x = <<6, 1>>
  BY <1>1, <1>11
<1>12. CASE x = <<7, 1>>
  BY <1>1, <1>12
<1>. QED  BY <1>2, <1>3, <1>4, <1>5, <1>6, <1>7, <1>8, <1>9, <1>10, <1>11, <1>12 DEF Idx

LEMMA SuffixInjective ==
    \A x, y \in Idx : x # y => Suffix(x) # Suffix(y)
BY DEF Idx, Suffix, SuffixTable

\* NamesUnique for any deployment name.
LEMMA NamesUniqueFor ==
    ASSUME NEW d
    PROVE  \A x, y \in BaseIdx(d) : x # y => Base(d, x).name # Base(d, y).name
BY BaseIdxTable, NameTable, SuffixInjective

\* InstallsDisjoint for any two distinct deployment names: a name of one
\* shares its suffix only with the same resource of the other, whose stem
\* is the other deployment's name or hash.
LEMMA InstallsDisjointFor ==
    ASSUME NEW d, NEW e, d # e
    PROVE  \A x \in BaseIdx(d), y \in BaseIdx(e) : Base(d, x).name # Base(e, y).name
<1> SUFFICES ASSUME NEW x \in Idx, NEW y \in Idx
             PROVE  Base(d, x).name # Base(e, y).name
  BY BaseIdxTable
<1>1. Base(d, x).name = <<Stem(d, x), Suffix(x)>> /\ Base(e, y).name = <<Stem(e, y), Suffix(y)>>
  BY NameTable
<1>2. CASE x # y
  BY <1>1, <1>2, SuffixInjective
<1>3. CASE x = y
  <2>1. Stem(d, x) # Stem(e, x)
    BY DEF Stem, Hash
  <2>. QED  BY <1>1, <1>3, <2>1
<1>. QED  BY <1>2, <1>3

\* RefsResolve for any deployment name: each reference a template writes
\* is to the network's selfLink, the account's email or the static IP's
\* address, and those resources offer them.
LEMMA RefsResolveFor ==
    ASSUME NEW d
    PROVE  LET Offers(n, f) == \E y \in BaseIdx(d) :
                                  Base(d, y).name = n /\ f \in Exports(Base(d, y).type)
           IN  /\ \A x \in BaseIdx(d) : \A r \in Base(d, x).refs : Offers(r[1], r[2])
               /\ \A o \in Outputs(d) : Offers(o[2], o[3])
<1> DEFINE Offers(n, f) == \E y \in BaseIdx(d) :
                              Base(d, y).name = n /\ f \in Exports(Base(d, y).type)
<1>1. \A x \in Idx : Base(d, x) = Expansion(d)[x[1]][x[2]]
  BY BaseTable
<1>2. /\ Offers(NetworkName(d), "selfLink")
      /\ Offers(SAName(d), "email")
      /\ Offers(StaticIpName(d), "address")
  <2>1. <<1, 1>> \in BaseIdx(d) /\ <<4, 1>> \in BaseIdx(d) /\ <<2, 1>> \in BaseIdx(d)
    BY BaseIdxTable DEF Idx
  <2>2. /\ Base(d, <<1, 1>>) = Res(NetworkName(d), "compute.v1.network", {}, {})
        /\ Base(d, <<4, 1>>) = Res(SAName(d), "iam.serviceAccount", {}, {})
        /\ Base(d, <<2, 1>>) = Res(StaticIpName(d), "compute.v1.address", {}, {})
    BY <1>1 DEF Idx, Expansion
  <2>. QED  BY <2>1, <2>2 DEF Res, Exports
<1>3. ASSUME NEW x \in BaseIdx(d) PROVE Base(d, x).refs \subseteq {NetRef(d), SARef(d), IpRef(d)}
  <2>1. x \in Idx
    BY BaseIdxTable
  <2>. QED  BY <1>1, <2>1 DEF Idx, Expansion, Res
<1>4. \A o \in Outputs(d) : o[2] = StaticIpName(d) /\ o[3] = "address"
  BY DEF Outputs, Ref
<1>. QED  BY <1>2, <1>3, <1>4 DEF NetRef, SARef, IpRef
-----------------------------------------------------------------------------
\* DM never sees two base resources of one deployment with the same name,
\* whatever the deployment is called (NamesUnique).
THEOREM NamesUniqueHolds == Spec => []NamesUnique
<1>1. NamesUnique
  BY NamesUniqueFor DEF NamesUnique, NameOf
<1>. QED  BY <1>1, PTL

\* Every $(ref) of every base resource and the deployment's output resolve
\* to a resource that offers the field (RefsResolve).
THEOREM RefsResolveHolds == Spec => []RefsResolve
<1>1. RefsResolve
  BY RefsResolveFor DEF RefsResolve, NameOf
<1>. QED  BY <1>1, PTL

\* Two installations of VMClarity in one project never create a resource
\* of the same name, the project-wide custom roles and service account
\* included (InstallsDisjoint).
THEOREM InstallsDisjointHolds == Spec => []InstallsDisjoint
<1>1. InstallsDisjoint
  <2> SUFFICES ASSUME NEW other \in Deployments \ {deployment},
                      NEW x \in BaseIdx(deployment), NEW y \in BaseIdx(other)
               PROVE  NameOf(x) # Base(other, y).name
    BY DEF InstallsDisjoint
  <2>. QED  BY InstallsDisjointFor DEF NameOf
<1>. QED  BY <1>1, PTL
=============================================================================
