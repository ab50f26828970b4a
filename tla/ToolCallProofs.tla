--------------------------- MODULE ToolCallProofs ---------------------------
(***************************************************************************)
(* Theorems about ToolCall, for every number of tool calls and every       *)
(* choice of groups, over the table of tools as it is.                     *)
(***************************************************************************)
EXTENDS ToolCall, FiniteSetTheorems, SequenceTheorems, TLAPS

(***************************************************************************)
(* The table.                                                              *)
(***************************************************************************)

\* The names in each table file, and in all of them.
TableNames ==
    << {"publishers", "publisher_upgrade_profiles", "local_brokers", "private_apps",
        "private_app_tags", "npa_policy_rules", "npa_policy_groups"},
       {"url_lists", "custom_categories", "destination_profiles", "network_profiles",
        "service_profiles", "dns_profiles", "remote_proxies", "domain_frontings",
        "realtime_policy_rules", "realtime_policy_groups"},
       {"scim_users", "scim_groups"},
       {"reports"},
       {"ipsec_tunnels", "gre_tunnels"},
       {"dlp_profiles", "dlp_rules", "dlp_file_profiles", "dlp_data_identifiers"},
       {"watchlists", "incident_update"},
       {"device_classification_rules", "device_classification_tags"},
       {"ips_status", "ips_allowlist", "ips_signature_overrides"},
       {"aig_ai_providers", "aig_mcp_servers", "aig_rate_limits", "aig_token_groups"},
       {"url_recategorizations", "cci_apps"} >>

ResourceNames == UNION {TableNames[k] : k \in 1..11}

\* What every row of the table has in common: update is a verb that replaces or
\* edits, a shared slice is named where it is used, and there is more to do with
\* a resource than to delete it.
Row ==
    {r \in [name : ResourceNames, group : Groups, slice : {"crud", "deployable", "own"},
            actions : SUBSET Actions, update : {"PUT", "PATCH"}, singleton : BOOLEAN] :
        /\ r.slice = "crud" => r.actions = crud
        /\ r.slice = "deployable" => r.actions = deployable
        /\ r.actions \ {"delete"} # {}}

\* Each constructor of the table makes rows.
LEMMA SlicesOfActions ==
  /\ crud \in SUBSET Actions /\ crud \ {"delete"} # {}
  /\ deployable \in SUBSET Actions /\ deployable \ {"delete"} # {}
BY DEF crud, deployable, Actions

LEMMA CrudRow ==
  ASSUME NEW name \in ResourceNames, NEW group \in Groups, NEW update \in {"PUT", "PATCH"}
  PROVE  Crud(name, group, update) \in Row
BY SlicesOfActions DEF Crud, Resource, Row

LEMMA DeployableRow ==
  ASSUME NEW name \in ResourceNames, NEW update \in {"PUT", "PATCH"}
  PROVE  Deployable(name, update) \in Row
<1>1. "policy" \in Groups
  BY DEF Groups, DefaultGroups
<1> QED
  BY <1>1, SlicesOfActions DEF Deployable, Resource, Row

LEMMA OwnRow ==
  ASSUME NEW name \in ResourceNames, NEW group \in Groups, NEW acts \in SUBSET Actions,
         acts \ {"delete"} # {}, NEW update \in {"PUT", "PATCH"}
  PROVE  Own(name, group, acts, update) \in Row
BY DEF Own, Resource, Row

LEMMA SingletonRow ==
  ASSUME NEW name \in ResourceNames, NEW group \in Groups, NEW acts \in SUBSET Actions,
         acts \ {"delete"} # {}, NEW update \in {"PUT", "PATCH"}
  PROVE  Singleton(name, group, acts, update) \in Row
BY DEF Singleton, Resource, Row

\* Every table file holds rows.
LEMMA TablesAreRows ==
  /\ npaResources      \in Seq(Row)
  /\ policyResources   \in Seq(Row)
  /\ scimResources     \in Seq(Row)
  /\ reportingResources \in Seq(Row)
  /\ steeringResources \in Seq(Row)
  /\ dlpResources      \in Seq(Row)
  /\ incidentResources \in Seq(Row)
  /\ deviceResources   \in Seq(Row)
  /\ ipsResources      \in Seq(Row)
  /\ aigResources      \in Seq(Row)
  /\ intelResources    \in Seq(Row)
<1>0. /\ \A g \in {"npa", "policy", "scim", "reporting", "steering", "dlp", "incidents",
                  "devices", "ips", "aig", "intel", "internetaccess"} : g \in Groups
      /\ \A acts \in {crud \ {"get"}, crud \union {"deploy"}, {"list", "get"}, {"update"},
                     {"get", "update"}, {"list", "get", "create"}, {"get"}, {"list"}} :
            acts \in SUBSET Actions /\ acts \ {"delete"} # {}
  BY DEF Groups, DefaultGroups, crud, Actions
<1>n. \A k \in 1..11 : \A name \in TableNames[k] : name \in ResourceNames
  BY DEF ResourceNames
<1>1. npaResources \in Seq(Row)
  <2>0. \A name \in TableNames[1] : name \in ResourceNames
    BY <1>n
  <2>1. /\ Crud("publishers", "npa", "PUT") \in Row
        /\ Crud("publisher_upgrade_profiles", "npa", "PUT") \in Row
        /\ Crud("local_brokers", "npa", "PUT") \in Row
        /\ Crud("private_apps", "npa", "PATCH") \in Row
        /\ Own("private_app_tags", "npa", crud \ {"get"}, "PUT") \in Row
        /\ Crud("npa_policy_rules", "npa", "PATCH") \in Row
        /\ Crud("npa_policy_groups", "npa", "PATCH") \in Row
    BY <1>0, CrudRow, OwnRow, <2>0 DEF TableNames
  <2> QED
    BY <2>1 DEF npaResources
<1>2. policyResources \in Seq(Row)
  <2>0. \A name \in TableNames[2] : name \in ResourceNames
    BY <1>n
  <2>1. /\ Own("url_lists", "policy", crud \union {"deploy"}, "PUT") \in Row
        /\ Deployable("custom_categories", "PATCH") \in Row
        /\ Deployable("destination_profiles", "PATCH") \in Row
        /\ Deployable("network_profiles", "PATCH") \in Row
        /\ Deployable("service_profiles", "PATCH") \in Row
        /\ Own("dns_profiles", "policy", crud \union {"deploy"}, "PATCH") \in Row
        /\ Deployable("remote_proxies", "PATCH") \in Row
        /\ Crud("domain_frontings", "policy", "PATCH") \in Row
        /\ Own("realtime_policy_rules", "internetaccess", {"list", "get"}, "PUT") \in Row
        /\ Own("realtime_policy_groups", "internetaccess", {"list", "get"}, "PUT") \in Row
    BY <1>0, CrudRow, DeployableRow, OwnRow, <2>0 DEF TableNames
  <2> QED
    BY <2>1 DEF policyResources
<1>3. scimResources \in Seq(Row)
  <2>0. \A name \in TableNames[3] : name \in ResourceNames
    BY <1>n
  <2>1. /\ Crud("scim_users", "scim", "PATCH") \in Row
        /\ Crud("scim_groups", "scim", "PATCH") \in Row
    BY <1>0, CrudRow, <2>0 DEF TableNames
  <2> QED
    BY <2>1 DEF scimResources
<1>4. reportingResources \in Seq(Row)
  <2>0. \A name \in TableNames[4] : name \in ResourceNames
    BY <1>n
  <2>1. Own("reports", "reporting", {"list"}, "PUT") \in Row
    BY <1>0, OwnRow, <2>0 DEF TableNames
  <2> QED
    BY <2>1 DEF reportingResources
<1>5. steeringResources \in Seq(Row)
  <2>0. \A name \in TableNames[5] : name \in ResourceNames
    BY <1>n
  <2>1. /\ Crud("ipsec_tunnels", "steering", "PATCH") \in Row
        /\ Crud("gre_tunnels", "steering", "PATCH") \in Row
    BY <1>0, CrudRow, <2>0 DEF TableNames
  <2> QED
    BY <2>1 DEF steeringResources
<1>6. dlpResources \in Seq(Row)
  <2>0. \A name \in TableNames[6] : name \in ResourceNames
    BY <1>n
  <2>1. /\ Own("dlp_profiles", "dlp", crud \union {"deploy"}, "PUT") \in Row
        /\ Crud("dlp_rules", "dlp", "PUT") \in Row
        /\ Crud("dlp_file_profiles", "dlp", "PUT") \in Row
        /\ Crud("dlp_data_identifiers", "dlp", "PUT") \in Row
    BY <1>0, CrudRow, OwnRow, <2>0 DEF TableNames
  <2> QED
    BY <2>1 DEF dlpResources
<1>7. incidentResources \in Seq(Row)
  <2>0. \A name \in TableNames[7] : name \in ResourceNames
    BY <1>n
  <2>1. /\ Crud("watchlists", "incidents", "PATCH") \in Row
        /\ Singleton("incident_update", "incidents", {"update"}, "PATCH") \in Row
    BY <1>0, CrudRow, SingletonRow, <2>0 DEF TableNames
  <2> QED
    BY <2>1 DEF incidentResources
<1>8. deviceResources \in Seq(Row)
  <2>0. \A name \in TableNames[8] : name \in ResourceNames
    BY <1>n
  <2>1. /\ Crud("device_classification_rules", "devices", "PUT") \in Row
        /\ Crud("device_classification_tags", "devices", "PUT") \in Row
    BY <1>0, CrudRow, <2>0 DEF TableNames
  <2> QED
    BY <2>1 DEF deviceResources
<1>9. ipsResources \in Seq(Row)
  <2>0. \A name \in TableNames[9] : name \in ResourceNames
    BY <1>n
  <2>1. /\ Singleton("ips_status", "ips", {"get", "update"}, "PATCH") \in Row
        /\ Singleton("ips_allowlist", "ips", {"get", "update"}, "PATCH") \in Row
        /\ Singleton("ips_signature_overrides", "ips", {"get", "update"}, "PUT") \in Row
    BY <1>0, SingletonRow, <2>0 DEF TableNames
  <2> QED
    BY <2>1 DEF ipsResources
<1>10. aigResources \in Seq(Row)
  <2>0. \A name \in TableNames[10] : name \in ResourceNames
    BY <1>n
  <2>1. /\ Crud("aig_ai_providers", "aig", "PATCH") \in Row
        /\ Crud("aig_mcp_servers", "aig", "PATCH") \in Row
        /\ Crud("aig_rate_limits", "aig", "PATCH") \in Row
        /\ Crud("aig_token_groups", "aig", "PATCH") \in Row
    BY <1>0, CrudRow, <2>0 DEF TableNames
  <2> QED
    BY <2>1 DEF aigResources
<1>11. intelResources \in Seq(Row)
  <2>0. \A name \in TableNames[11] : name \in ResourceNames
    BY <1>n
  <2>1. /\ Own("url_recategorizations", "intel", {"list", "get", "create"}, "PUT") \in Row
        /\ Singleton("cci_apps", "intel", {"get"}, "PUT") \in Row
    BY <1>0, OwnRow, SingletonRow, <2>0 DEF TableNames
  <2> QED
    BY <2>1 DEF intelResources
<1> QED
  BY <1>1, <1>2, <1>3, <1>4, <1>5, <1>6, <1>7, <1>8, <1>9, <1>10, <1>11

\* The rows of a table.
Rows(table) == {table[i] : i \in 1..Len(table)}

\* No two rows of a set have the same name.
NamedApart(rows) == \A r, s \in rows : r.name = s.name => r = s

\* The rows of a table are named apart, with names from a set.
Named(table, names) ==
    NamedApart(Rows(table)) /\ \A r \in Rows(table) : r.name \in names

\* The table files, in the order the table has them.
Tables == << npaResources, policyResources, scimResources, reportingResources,
             steeringResources, dlpResources, incidentResources, deviceResources,
             ipsResources, aigResources, intelResources >>

\* No name is in two tables.
LEMMA TablesApart ==
  ASSUME NEW j \in 1..11, NEW k \in 1..11, NEW name,
         name \in TableNames[j], name \in TableNames[k]
  PROVE  j = k
BY DEF TableNames


\* Within a table file no two rows have the same name.
LEMMA TablesNamed == \A k \in 1..11 : Named(Tables[k], TableNames[k])
<1>1. Named(npaResources, TableNames[1])
  <2>1. /\ Len(npaResources) = 7
        /\ npaResources[1].name = "publishers"
        /\ npaResources[2].name = "publisher_upgrade_profiles"
        /\ npaResources[3].name = "local_brokers"
        /\ npaResources[4].name = "private_apps"
        /\ npaResources[5].name = "private_app_tags"
        /\ npaResources[6].name = "npa_policy_rules"
        /\ npaResources[7].name = "npa_policy_groups"
    BY DEF npaResources, Crud, Own, Resource
  <2> QED
    BY <2>1 DEF Named, NamedApart, Rows, TableNames
<1>2. Named(policyResources, TableNames[2])
  <2>1. /\ Len(policyResources) = 10
        /\ policyResources[1].name = "url_lists"
        /\ policyResources[2].name = "custom_categories"
        /\ policyResources[3].name = "destination_profiles"
        /\ policyResources[4].name = "network_profiles"
        /\ policyResources[5].name = "service_profiles"
        /\ policyResources[6].name = "dns_profiles"
        /\ policyResources[7].name = "remote_proxies"
        /\ policyResources[8].name = "domain_frontings"
        /\ policyResources[9].name = "realtime_policy_rules"
        /\ policyResources[10].name = "realtime_policy_groups"
    BY DEF policyResources, Crud, Deployable, Own, Resource
  <2> QED
    BY <2>1 DEF Named, NamedApart, Rows, TableNames
<1>3. Named(scimResources, TableNames[3])
  <2>1. /\ Len(scimResources) = 2
        /\ scimResources[1].name = "scim_users"
        /\ scimResources[2].name = "scim_groups"
    BY DEF scimResources, Crud, Resource
  <2> QED
    BY <2>1 DEF Named, NamedApart, Rows, TableNames
<1>4. Named(reportingResources, TableNames[4])
  <2>1. /\ Len(reportingResources) = 1
        /\ reportingResources[1].name = "reports"
    BY DEF reportingResources, Own, Resource
  <2> QED
    BY <2>1 DEF Named, NamedApart, Rows, TableNames
<1>5. Named(steeringResources, TableNames[5])
  <2>1. /\ Len(steeringResources) = 2
        /\ steeringResources[1].name = "ipsec_tunnels"
        /\ steeringResources[2].name = "gre_tunnels"
    BY DEF steeringResources, Crud, Resource
  <2> QED
    BY <2>1 DEF Named, NamedApart, Rows, TableNames
<1>6. Named(dlpResources, TableNames[6])
  <2>1. /\ Len(dlpResources) = 4
        /\ dlpResources[1].name = "dlp_profiles"
        /\ dlpResources[2].name = "dlp_rules"
        /\ dlpResources[3].name = "dlp_file_profiles"
        /\ dlpResources[4].name = "dlp_data_identifiers"
    BY DEF dlpResources, Crud, Own, Resource
  <2> QED
    BY <2>1 DEF Named, NamedApart, Rows, TableNames
<1>7. Named(incidentResources, TableNames[7])
  <2>1. /\ Len(incidentResources) = 2
        /\ incidentResources[1].name = "watchlists"
        /\ incidentResources[2].name = "incident_update"
    BY DEF incidentResources, Crud, Singleton, Resource
  <2> QED
    BY <2>1 DEF Named, NamedApart, Rows, TableNames
<1>8. Named(deviceResources, TableNames[8])
  <2>1. /\ Len(deviceResources) = 2
        /\ deviceResources[1].name = "device_classification_rules"
        /\ deviceResources[2].name = "device_classification_tags"
    BY DEF deviceResources, Crud, Resource
  <2> QED
    BY <2>1 DEF Named, NamedApart, Rows, TableNames
<1>9. Named(ipsResources, TableNames[9])
  <2>1. /\ Len(ipsResources) = 3
        /\ ipsResources[1].name = "ips_status"
        /\ ipsResources[2].name = "ips_allowlist"
        /\ ipsResources[3].name = "ips_signature_overrides"
    BY DEF ipsResources, Singleton, Resource
  <2> QED
    BY <2>1 DEF Named, NamedApart, Rows, TableNames
<1>10. Named(aigResources, TableNames[10])
  <2>1. /\ Len(aigResources) = 4
        /\ aigResources[1].name = "aig_ai_providers"
        /\ aigResources[2].name = "aig_mcp_servers"
        /\ aigResources[3].name = "aig_rate_limits"
        /\ aigResources[4].name = "aig_token_groups"
    BY DEF aigResources, Crud, Resource
  <2> QED
    BY <2>1 DEF Named, NamedApart, Rows, TableNames
<1>11. Named(intelResources, TableNames[11])
  <2>1. /\ Len(intelResources) = 2
        /\ intelResources[1].name = "url_recategorizations"
        /\ intelResources[2].name = "cci_apps"
    BY DEF intelResources, Own, Singleton, Resource
  <2> QED
    BY <2>1 DEF Named, NamedApart, Rows, TableNames
<1> QED
  BY <1>1, <1>2, <1>3, <1>4, <1>5, <1>6, <1>7, <1>8, <1>9, <1>10, <1>11 DEF Tables

\* The rows of two tables, one after the other.
LEMMA RowsOfConcat ==
  ASSUME NEW S, NEW s \in Seq(S), NEW t \in Seq(S)
  PROVE  s \o t \in Seq(S) /\ Rows(s \o t) = Rows(s) \union Rows(t)
<1>1. /\ s \o t \in Seq(S) /\ Len(s \o t) = Len(s) + Len(t)
      /\ \A i \in 1..(Len(s) + Len(t)) :
            (s \o t)[i] = IF i <= Len(s) THEN s[i] ELSE t[i - Len(s)]
      /\ Len(s) \in Nat /\ Len(t) \in Nat
  BY ConcatProperties
<1> DEFINE u == s \o t
<1>2. ASSUME NEW r \in Rows(u) PROVE r \in Rows(s) \union Rows(t)
  <2>1. PICK i \in 1..(Len(s) + Len(t)) : r = u[i]
    BY <1>1 DEF Rows
  <2>2. CASE i <= Len(s)
    BY <1>1, <2>1, <2>2 DEF Rows
  <2>3. CASE i > Len(s)
    <3>1. i - Len(s) \in 1..Len(t) /\ r = t[i - Len(s)]
      BY <1>1, <2>1, <2>3
    <3> QED
      BY <3>1 DEF Rows
  <2> QED
    BY <1>1, <2>2, <2>3
<1>3. ASSUME NEW r \in Rows(s) PROVE r \in Rows(u)
  BY <1>1 DEF Rows
<1>4. ASSUME NEW r \in Rows(t) PROVE r \in Rows(u)
  <2>1. PICK i \in 1..Len(t) : r = t[i]
    BY DEF Rows
  <2>2. i + Len(s) \in 1..(Len(s) + Len(t)) /\ u[i + Len(s)] = r
    BY <1>1, <2>1
  <2> QED
    BY <1>1, <2>2 DEF Rows
<1> QED
  BY <1>1, <1>2, <1>3, <1>4

\* The whole table is made of rows, and they are those of the table files.
LEMMA TableOfRows == All \in Seq(Row) /\ Rows(All) = UNION {Rows(Tables[k]) : k \in 1..11}
<1> DEFINE A2 == npaResources \o policyResources
           A3 == A2 \o scimResources
           A4 == A3 \o reportingResources
           A5 == A4 \o steeringResources
           A6 == A5 \o dlpResources
           A7 == A6 \o incidentResources
           A8 == A7 \o deviceResources
           A9 == A8 \o ipsResources
           A10 == A9 \o aigResources
           A11 == A10 \o intelResources
<1>1. A2 \in Seq(Row) /\ Rows(A2) = Rows(npaResources) \union Rows(policyResources)
  BY TablesAreRows, RowsOfConcat
<1> HIDE DEF A2
<1>2. A3 \in Seq(Row) /\ Rows(A3) = Rows(A2) \union Rows(scimResources)
  BY <1>1, TablesAreRows, RowsOfConcat DEF A3
<1> HIDE DEF A3
<1>3. A4 \in Seq(Row) /\ Rows(A4) = Rows(A3) \union Rows(reportingResources)
  BY <1>2, TablesAreRows, RowsOfConcat DEF A4
<1> HIDE DEF A4
<1>4. A5 \in Seq(Row) /\ Rows(A5) = Rows(A4) \union Rows(steeringResources)
  BY <1>3, TablesAreRows, RowsOfConcat DEF A5
<1> HIDE DEF A5
<1>5. A6 \in Seq(Row) /\ Rows(A6) = Rows(A5) \union Rows(dlpResources)
  BY <1>4, TablesAreRows, RowsOfConcat DEF A6
<1> HIDE DEF A6
<1>6. A7 \in Seq(Row) /\ Rows(A7) = Rows(A6) \union Rows(incidentResources)
  BY <1>5, TablesAreRows, RowsOfConcat DEF A7
<1> HIDE DEF A7
<1>7. A8 \in Seq(Row) /\ Rows(A8) = Rows(A7) \union Rows(deviceResources)
  BY <1>6, TablesAreRows, RowsOfConcat DEF A8
<1> HIDE DEF A8
<1>8. A9 \in Seq(Row) /\ Rows(A9) = Rows(A8) \union Rows(ipsResources)
  BY <1>7, TablesAreRows, RowsOfConcat DEF A9
<1> HIDE DEF A9
<1>9. A10 \in Seq(Row) /\ Rows(A10) = Rows(A9) \union Rows(aigResources)
  BY <1>8, TablesAreRows, RowsOfConcat DEF A10
<1> HIDE DEF A10
<1>10. A11 \in Seq(Row) /\ Rows(A11) = Rows(A10) \union Rows(intelResources)
  BY <1>9, TablesAreRows, RowsOfConcat DEF A11
<1>11. All = A11
  BY DEF All, A11, A10, A9, A8, A7, A6, A5, A4, A3, A2
<1>12. UNION {Rows(Tables[k]) : k \in 1..11} =
         Rows(npaResources) \union Rows(policyResources) \union Rows(scimResources)
         \union Rows(reportingResources) \union Rows(steeringResources) \union Rows(dlpResources)
         \union Rows(incidentResources) \union Rows(deviceResources) \union Rows(ipsResources)
         \union Rows(aigResources) \union Rows(intelResources)
  BY DEF Tables
<1> QED
  BY <1>1, <1>2, <1>3, <1>4, <1>5, <1>6, <1>7, <1>8, <1>9, <1>10, <1>11, <1>12

\* The names of the tools that are not resources.
LEMMA SpecialNames ==
  SpecialTools = {"tenant_info", "api", "event_search", "alert_search", "url_lookup"}
BY DEF SpecialTools, SpecialGroup

\* No two rows of the whole table have the same name, nor a row that of a
\* special tool: each tool registered is its own.
LEMMA RowsNamedApart ==
  NamedApart(Rows(All)) /\ \A r \in Rows(All) : r.name \notin SpecialTools
<1>1. ASSUME NEW r \in Rows(All)
      PROVE  \E k \in 1..11 : r \in Rows(Tables[k]) /\ r.name \in TableNames[k]
  BY TableOfRows, TablesNamed DEF Named
<1>2. ASSUME NEW r \in Rows(All), NEW s \in Rows(All), r.name = s.name PROVE r = s
  <2>1. PICK j \in 1..11 : r \in Rows(Tables[j]) /\ r.name \in TableNames[j]
    BY <1>1
  <2>2. PICK k \in 1..11 : s \in Rows(Tables[k]) /\ s.name \in TableNames[k]
    BY <1>1
  <2>3. j = k
    BY <1>2, <2>1, <2>2, TablesApart
  <2> QED
    BY <1>2, <2>1, <2>2, <2>3, TablesNamed DEF Named, NamedApart
<1>3. ASSUME NEW k \in 1..11, NEW name \in TableNames[k] PROVE name \notin SpecialTools
  BY SpecialNames DEF TableNames
<1> QED
  BY <1>1, <1>2, <1>3 DEF NamedApart

\* A row is found by its name.
LEMMA FoundByName ==
  ASSUME NEW i \in 1..Len(All)
  PROVE  ByName(All[i].name) = All[i] /\ All[i] \in Row /\ All[i].name \notin SpecialTools
<1>1. All[i] \in Rows(All)
  BY DEF Rows
<1>2. ByName(All[i].name) = CHOOSE r \in Rows(All) : r.name = All[i].name
  BY DEF ByName, Rows
<1>3. ByName(All[i].name) \in Rows(All) /\ ByName(All[i].name).name = All[i].name
  BY <1>1, <1>2
<1> QED
  BY <1>1, <1>3, TableOfRows, RowsNamedApart DEF NamedApart

(***************************************************************************)
(* Routes.                                                                 *)
(***************************************************************************)

\* Where a resource's route leads: only a delete is sent as a DELETE, only a
\* write changes anything, and what removes, replaces or reverts names an
\* object, except for a setting without an id and the ids a path cleans away.
LeadsRight(r, action, id, rt) ==
    /\ rt.kind = IF Write(action) THEN "write" ELSE "read"
    /\ rt.verb = "DELETE" => action = "delete"
    /\ rt.verb \in {"DELETE", "PUT", "PATCH"} \/ action = "revert" =>
          rt.target = "item" \/ r.singleton \/ id \in {"dot", "dotdot"}

LEMMA RoutesOfResources ==
  ASSUME NEW r \in Row, NEW action \in Actions, NEW id \in Ids,
         NEW body \in BOOLEAN, route(r, action, id, body) # NoRoute
  PROVE  LeadsRight(r, action, id, route(r, action, id, body))
<1> USE DEF LeadsRight, route, itemPath, Route, NoRoute, Write
<1>0. r.update \in {"PUT", "PATCH"}
  BY DEF Row
<1>1. CASE action \in {"list", "get"}
  BY <1>1
<1>2. CASE action = "create"
  BY <1>2
<1>3. CASE action = "update"
  BY <1>0, <1>3
<1>4. CASE action = "deploy"
  BY <1>4
<1>5. CASE action = "revert"
  BY <1>5
<1>6. CASE action = "delete"
  BY <1>6
<1> QED
  BY <1>1, <1>2, <1>3, <1>4, <1>5, <1>6 DEF Actions

\* And every action of a resource has a route, once it is given an id and a body.
LEMMA EveryActionHasARoute ==
  ASSUME NEW r \in Row, NEW action \in Actions
  PROVE  \E id \in Ids, body \in BOOLEAN : route(r, action, id, body) # NoRoute
<1>0. r.update \in {"PUT", "PATCH"} /\ r.singleton \in BOOLEAN
  BY DEF Row
<1>1. route(r, action, "name", TRUE) # NoRoute
  <2> USE DEF route, itemPath, Route, NoRoute
  <2>1. CASE action \in {"list", "get", "create", "deploy", "revert", "delete"}
    BY <2>1, <1>0
  <2>2. CASE action = "update"
    BY <2>2, <1>0
  <2> QED
    BY <2>1, <2>2 DEF Actions
<1> QED
  BY <1>1 DEF Ids

\* The routes of the other tools read, or look something up.
LEMMA RoutesOfOthers ==
  ASSUME NEW rt,
         \E t \in SpecialTools \ {"api"}, valid \in BOOLEAN : rt = specialRoute(t, valid),
         rt # NoRoute
  PROVE  rt.verb \in {"GET", "POST"} /\ rt.kind \in {"read", "lookup"}
BY SpecialNames DEF specialRoute, probe, lookupURLs, searchEvents, Route, NoRoute

\* So do those of netskope_api, when the tenant serves what the path spells;
\* otherwise their verb is all that is known.
LEMMA RoutesOfAPI ==
  ASSUME NEW method \in Methods, NEW p \in Paths, NEW rt,
         rt = apiRequest(method, p), rt # NoRoute
  PROVE  /\ rt.verb \in {"GET", "POST"}
         /\ p.said = rt.target => rt.kind \in {"read", "lookup"}
<1>1. p \in [said : ApiPaths, served : ApiPaths]
  BY DEF Paths
<1> QED
  BY <1>1 DEF apiRequest, apiPath, KindOf, Route, NoRoute, Methods, ApiPaths

(***************************************************************************)
(* The inductive invariant.                                                *)
(***************************************************************************)

\* Every registered tool is a resource of the table, with those of its actions
\* the operator allows; the shared slices are as they were.
ToolsInv ==
    /\ options \in [destructive : BOOLEAN, groups : GroupChoices]
    /\ position \in 1..(Len(All) + 1)
    /\ slices = [crud |-> crud, deployable |-> deployable]
    /\ \A t \in DOMAIN tools :
          /\ \E i \in 1..Len(All) : All[i].name = t
          /\ tools[t] = Kept(ByName(t).actions)
          /\ tools[t] # {}
          /\ tools[t] \subseteq Actions
          /\ "delete" \in tools[t] => options.destructive

\* What a request of a resource's tool may be.
FromResource(q) ==
    /\ q.tool \in DOMAIN tools
    /\ q.action \in tools[q.tool]
    /\ q.kind = IF Write(q.action) THEN "write" ELSE "read"
    /\ q.verb = "DELETE" => q.action = "delete"
    /\ q.verb \in {"DELETE", "PUT", "PATCH"} \/ q.action = "revert" =>
          \/ q.target = "item"
          \/ ByName(q.tool).singleton
          \/ q.arg \in {"dot", "dotdot"}

\* And one of any other tool.
FromOther(q) ==
    /\ q.tool \in SpecialTools
    /\ q.tool \in Tools
    /\ q.action = "none"
    /\ q.verb \in {"GET", "POST"}
    /\ AsSpelled(q) => q.kind \in {"read", "lookup"}

\* Requests are made once the tools are registered, by one of them.
RequestInv ==
    /\ DOMAIN request = Calls
    /\ \A c \in Calls : request[c] # NoRequest =>
          Registered /\ (FromResource(request[c]) \/ FromOther(request[c]))

\* What a call of the client has done, and what it said of it.
ClientInv ==
    /\ DOMAIN verb = Calls /\ DOMAIN effects = Calls /\ DOMAIN verdict = Calls
    /\ \A c \in Calls :
          /\ verb[c] = "none" => effects[c] = {}
          /\ verdict[c] = "ok" => effects[c] # {}
          /\ verb[c] \in OnceVerbs => effects[c] = {} \/ \E e \in Effects : effects[c] = {e}

\* The audited calls are writes the client said yes to.
AuditInv ==
    /\ DOMAIN reply = Calls
    /\ \A c \in Calls : reply[c] \in {"none", "ok", "error"}
    /\ audit \subseteq Calls
    /\ \A c \in audit : verdict[c] = "ok" /\ request[c].kind = "write"

ToolCallInv == ToolsInv /\ RequestInv /\ ClientInv /\ AuditInv

\* Nothing is registered and nothing was called in the first state.
LEMMA InitInvariant == Init => ToolCallInv
<1> SUFFICES ASSUME Init PROVE ToolCallInv
  OBVIOUS
<1>1. Len(All) \in Nat
  BY TableOfRows
<1>2. ToolsInv
  BY <1>1 DEF Init, ToolsInv
<1>3. RequestInv
  BY DEF Init, RequestInv
<1>4. ClientInv
  BY DEF Init, Client!Init, ClientInv
<1>5. AuditInv
  BY DEF Init, AuditInv
<1> QED
  BY <1>2, <1>3, <1>4, <1>5 DEF ToolCallInv

\* Register keeps the invariant: what it keeps of a resource's actions has no
\* delete in it unless the operator allows it, and nobody has called yet.
LEMMA RegisterKeeps == ToolCallInv /\ Register => ToolCallInv'
<1> SUFFICES ASSUME ToolCallInv, Register PROVE ToolCallInv'
  OBVIOUS
<1> DEFINE r == All[position]
<1>1. Len(All) \in Nat /\ position \in 1..Len(All) /\ r \in Row
  BY TableOfRows DEF ToolCallInv, ToolsInv, Register, Registered
<1>2. Field(r) = r.actions /\ r.actions \subseteq Actions
  <2>1. slices["crud"] = crud /\ slices["deployable"] = deployable
    BY DEF ToolCallInv, ToolsInv
  <2> QED
    BY <1>1, <2>1 DEF Field, Row
<1>3. Kept(Field(r)) \subseteq Actions /\ Kept(Field(r)) = Kept(ByName(r.name).actions)
  BY <1>1, <1>2, FoundByName DEF Kept
<1>4. "delete" \in Kept(Field(r)) => options.destructive
  BY DEF Kept, Destructive
<1>5. ToolsInv'
  <2>1. /\ UNCHANGED <<options, slices>>
        /\ position' = position + 1
    BY DEF Register, registerResource
  <2>2. CASE tools' = tools
    BY <1>1, <2>1, <2>2 DEF ToolCallInv, ToolsInv, Kept
  <2>3. CASE /\ Kept(Field(r)) # {}
             /\ tools' = [t \in DOMAIN tools \union {r.name} |->
                             IF t = r.name THEN Kept(Field(r)) ELSE tools[t]]
    <3>1. ASSUME NEW t \in DOMAIN tools'
          PROVE  /\ \E i \in 1..Len(All) : All[i].name = t
                 /\ tools'[t] = Kept(ByName(t).actions)
                 /\ tools'[t] # {}
                 /\ tools'[t] \subseteq Actions
                 /\ "delete" \in tools'[t] => options.destructive
      <4>1. CASE t = r.name
        <5>1. All[position].name = t
          BY <4>1
        <5>2. tools'[t] = Kept(Field(r))
          BY <2>3, <4>1
        <5> QED
          BY <1>1, <1>3, <1>4, <2>3, <4>1, <5>1, <5>2
      <4>2. CASE t # r.name
        BY <2>3, <4>2 DEF ToolCallInv, ToolsInv
      <4> QED
        BY <4>1, <4>2
    <3> QED
      BY <1>1, <2>1, <3>1 DEF ToolCallInv, ToolsInv, Kept
  <2> QED
    BY <2>2, <2>3 DEF Register, registerResource
<1>6. RequestInv'
  BY DEF Register, ToolCallInv, RequestInv
<1>7. ClientInv'
  BY DEF Register, ToolCallInv, ClientInv
<1>8. AuditInv'
  BY DEF Register, ToolCallInv, AuditInv
<1> QED
  BY <1>5, <1>6, <1>7, <1>8 DEF ToolCallInv

\* A handler that answers with an error before it calls anybody.
LEMMA RefuseKeeps ==
  ASSUME ToolCallInv, NEW c \in Calls, Refuse(c)
  PROVE  ToolCallInv'
<1>1. ToolsInv' /\ ClientInv'
  BY DEF Refuse, ToolCallInv, ToolsInv, Kept, ClientInv
<1>2. RequestInv'
  BY DEF Refuse, ToolCallInv, RequestInv, Registered, FromResource, FromOther, Tools,
         enabled
<1>3. AuditInv'
  BY DEF Refuse, ToolCallInv, AuditInv
<1> QED
  BY <1>1, <1>2, <1>3 DEF ToolCallInv

\* A handler that calls the client with a request of the right kind.
LEMMA DispatchKeeps ==
  ASSUME ToolCallInv, Registered, NEW c \in Calls, Idle(c), NEW t, NEW action, NEW arg, NEW rt,
         Dispatch(c, t, action, arg, rt),
         LET q == [tool |-> t, action |-> action, arg |-> arg,
                   verb |-> rt.verb, target |-> rt.target, kind |-> rt.kind]
         IN  FromResource(q) \/ FromOther(q)
  PROVE  ToolCallInv'
<1>1. ToolsInv'
  BY DEF Dispatch, ToolCallInv, ToolsInv, Kept
<1>2. RequestInv'
  BY DEF Dispatch, ToolCallInv, RequestInv, Registered, FromResource, FromOther, Tools,
         enabled
<1>3. ClientInv'
  BY DEF Dispatch, Client!Begin, ToolCallInv, ClientInv
<1>4. AuditInv'
  BY DEF Dispatch, Client!Begin, Idle, NoRequest, ToolCallInv, AuditInv, RequestInv
<1> QED
  BY <1>1, <1>2, <1>3, <1>4 DEF ToolCallInv

\* The handler of a resource: an action outside its own list is refused, so
\* the verb of a delete is sent by those alone who kept the action.
LEMMA CallResourceKeeps ==
  ASSUME ToolCallInv, NEW c \in Calls, NEW t \in DOMAIN tools,
         NEW action \in Actions \union {""}, NEW id \in Ids, NEW body \in BOOLEAN,
         CallResource(c, t, action, id, body)
  PROVE  ToolCallInv'
<1> DEFINE rt == route(ByName(t), action, id, body)
           q  == [tool |-> t, action |-> action, arg |-> id,
                  verb |-> rt.verb, target |-> rt.target, kind |-> rt.kind]
<1>1. CASE Refuse(c)
  BY <1>1, RefuseKeeps
<1>2. CASE action \in tools[t] /\ rt # NoRoute /\ Dispatch(c, t, action, id, rt)
  <2>1. ByName(t) \in Row
    <3>1. PICK i \in 1..Len(All) : All[i].name = t
      BY DEF ToolCallInv, ToolsInv
    <3> QED
      BY <3>1, FoundByName
  <2>2. action \in Actions
    BY <1>2 DEF ToolCallInv, ToolsInv
  <2>3. LeadsRight(ByName(t), action, id, rt)
    BY <1>2, <2>1, <2>2, RoutesOfResources
  <2>4. FromResource(q)
    <3> HIDE DEF rt
    <3> QED
      BY <1>2, <2>3 DEF FromResource, LeadsRight
  <2> QED
    BY <1>2, <2>4, DispatchKeeps DEF CallResource
<1> QED
  BY <1>1, <1>2 DEF CallResource

\* The handler of netskope_api.
LEMMA CallAPIKeeps ==
  ASSUME ToolCallInv, NEW c \in Calls, NEW method \in Methods, NEW p \in Paths,
         CallAPI(c, method, p)
  PROVE  ToolCallInv'
<1> DEFINE rt == apiRequest(method, p)
           q  == [tool |-> "api", action |-> "none", arg |-> p.said,
                  verb |-> rt.verb, target |-> rt.target, kind |-> rt.kind]
<1>1. CASE Refuse(c)
  BY <1>1, RefuseKeeps
<1>2. CASE rt # NoRoute /\ Dispatch(c, "api", "none", p.said, rt)
  <2>1. /\ rt.verb \in {"GET", "POST"}
        /\ p.said = rt.target => rt.kind \in {"read", "lookup"}
    BY <1>2, RoutesOfAPI
  <2>2. "api" \in SpecialTools /\ "api" \in Tools
    BY SpecialNames DEF CallAPI
  <2>3. FromOther(q)
    <3> HIDE DEF rt
    <3> QED
      BY <2>1, <2>2 DEF FromOther, AsSpelled
  <2> QED
    BY <1>2, <2>3, DispatchKeeps DEF CallAPI
<1> QED
  BY <1>1, <1>2 DEF CallAPI

\* The handlers of the other special tools.
LEMMA CallSpecialKeeps ==
  ASSUME ToolCallInv, NEW c \in Calls, NEW t \in Tools \intersect (SpecialTools \ {"api"}),
         NEW valid \in BOOLEAN, CallSpecial(c, t, valid)
  PROVE  ToolCallInv'
<1> DEFINE rt == specialRoute(t, valid)
           q  == [tool |-> t, action |-> "none", arg |-> "none",
                  verb |-> rt.verb, target |-> rt.target, kind |-> rt.kind]
<1>1. CASE Refuse(c)
  BY <1>1, RefuseKeeps
<1>2. CASE rt # NoRoute /\ Dispatch(c, t, "none", "none", rt)
  <2>1. FromOther(q)
    BY <1>2, RoutesOfOthers DEF FromOther
  <2> QED
    BY <1>2, <2>1, DispatchKeeps DEF CallSpecial
<1> QED
  BY <1>1, <1>2 DEF CallSpecial

\* A handler that has its answer: it audits a resource's write that the client
\* said ok to.
LEMMA FinishKeeps ==
  ASSUME ToolCallInv, NEW c \in Calls, Finish(c)
  PROVE  ToolCallInv'
<1>1. ToolsInv' /\ ClientInv'
  BY DEF Finish, ToolCallInv, ToolsInv, Kept, ClientInv
<1>2. RequestInv'
  BY DEF Finish, ToolCallInv, RequestInv, Registered, FromResource, FromOther, Tools,
         enabled
<1>3. audit' # audit =>
        audit' = audit \union {c} /\ verdict[c] = "ok" /\ request[c].kind = "write"
  BY DEF Finish, Calling, ToolCallInv, RequestInv, FromResource, FromOther
<1>4. AuditInv'
  BY <1>3 DEF Finish, ToolCallInv, AuditInv
<1> QED
  BY <1>1, <1>2, <1>4 DEF ToolCallInv

\* The client keeps what it promises.
LEMMA ClientKeeps ==
  ASSUME ToolCallInv, NEW c \in Calls, ClientStep(c)
  PROVE  ToolCallInv'
<1> USE DEF toolVars
<1>1. ToolsInv'
  BY DEF ClientStep, ToolCallInv, ToolsInv, Kept
<1>2. RequestInv'
  BY DEF ClientStep, ToolCallInv, RequestInv, Registered, FromResource, FromOther, Tools,
         enabled
<1>3. ASSUME NEW e \in Effects, Client!TakeEffect(c, e)
      PROVE  ClientInv' /\ AuditInv'
  <2>1. ClientInv'
    BY <1>3 DEF Client!TakeEffect, ToolCallInv, ClientInv
  <2>2. AuditInv'
    BY <1>3 DEF ClientStep, Client!TakeEffect, ToolCallInv, AuditInv
  <2> QED
    BY <2>1, <2>2
<1>4. ASSUME NEW v \in Client!Verdicts, Client!Conclude(c, v)
      PROVE  ClientInv' /\ AuditInv'
  <2>1. ClientInv'
    BY <1>4 DEF Client!Conclude, ToolCallInv, ClientInv
  <2>2. AuditInv'
    BY <1>4 DEF ClientStep, Client!Conclude, ToolCallInv, AuditInv
  <2> QED
    BY <2>1, <2>2
<1> QED
  BY <1>1, <1>2, <1>3, <1>4 DEF ClientStep, ToolCallInv

\* Every step keeps the invariant.
LEMMA StepInvariant == ToolCallInv /\ [Next]_vars => ToolCallInv'
<1> SUFFICES ASSUME ToolCallInv, [Next]_vars PROVE ToolCallInv'
  OBVIOUS
<1>1. CASE UNCHANGED vars
  BY <1>1 DEF vars, toolVars, ToolCallInv, ToolsInv, Kept, RequestInv, ClientInv, AuditInv,
              Registered, FromResource, FromOther, Tools, enabled
<1> QED
  BY <1>1, RegisterKeeps, CallResourceKeeps, CallAPIKeeps, CallSpecialKeeps,
     FinishKeeps, ClientKeeps DEF Next

\* The invariant holds in every reachable state.
THEOREM Invariant == Spec => []ToolCallInv
BY InitInvariant, StepInvariant, PTL DEF Spec

(***************************************************************************)
(* What follows.                                                           *)
(***************************************************************************)

\* Every variable keeps its type: in particular the shared slices are never
\* left with a zeroed element, whatever is filtered.
THEOREM TypeCorrect == Spec => []TypeOK
<1>1. ToolCallInv => TypeOK
  BY DEF ToolCallInv, ToolsInv, AuditInv, TypeOK, crud, deployable, Actions
<1> QED
  BY <1>1, Invariant, PTL

\* A tool does what its description lists: whatever was filtered for the
\* resources registered before it, it has all of its row's actions the operator
\* allows, and each of them leads somewhere.
THEOREM AllWork == Spec => []EveryActionWorks
<1>1. ToolCallInv => EveryActionWorks
  <2> SUFFICES ASSUME ToolCallInv, NEW t \in DOMAIN tools
               PROVE  /\ tools[t] # {}
                      /\ tools[t] = Kept(ByName(t).actions)
                      /\ \A action \in tools[t] :
                            \E id \in Ids, body \in BOOLEAN :
                               route(ByName(t), action, id, body) # NoRoute
    BY DEF EveryActionWorks
  <2>1. /\ tools[t] # {}
        /\ tools[t] = Kept(ByName(t).actions)
        /\ tools[t] \subseteq Actions
    BY DEF ToolCallInv, ToolsInv
  <2>2. ByName(t) \in Row
    <3>1. PICK i \in 1..Len(All) : All[i].name = t
      BY DEF ToolCallInv, ToolsInv
    <3> QED
      BY <3>1, FoundByName
  <2> QED
    BY <2>1, <2>2, EveryActionHasARoute
<1> QED
  BY <1>1, Invariant, PTL

\* For every number of calls and every choice of groups: no DELETE without
\* --allow-destructive, and nothing from a tool that is not enabled.
THEOREM Allowed == Spec => []OnlyWhatIsAllowed
<1>1. ToolCallInv => OnlyWhatIsAllowed
  <2> SUFFICES ASSUME ToolCallInv, NEW c \in Calls, request[c] # NoRequest
               PROVE  /\ request[c].verb = "DELETE" => options.destructive
                      /\ request[c].tool \in Tools
    BY DEF OnlyWhatIsAllowed
  <2>1. CASE FromResource(request[c])
    BY <2>1 DEF FromResource, Tools, ToolCallInv, ToolsInv
  <2>2. CASE FromOther(request[c])
    BY <2>2 DEF FromOther
  <2> QED
    BY <2>1, <2>2 DEF ToolCallInv, RequestInv
<1> QED
  BY <1>1, Invariant, PTL

\* What is advertised as read-only reads, wherever the tenant serves the path that
\* was spelled: no change, no cursor consumed, no credential fetched.
THEOREM ReadOnly == Spec => []ReadOnlyIsReadOnly
<1>1. ToolCallInv => ReadOnlyIsReadOnly
  <2> SUFFICES ASSUME ToolCallInv, NEW c \in Calls, request[c] # NoRequest,
                      ReadOnlyHint(request[c].tool), AsSpelled(request[c])
               PROVE  request[c].kind \in {"read", "lookup"}
    BY DEF ReadOnlyIsReadOnly
  <2>1. CASE FromResource(request[c])
    <3>1. PICK i \in 1..Len(All) : All[i].name = request[c].tool
      BY <2>1 DEF FromResource, ToolCallInv, ToolsInv
    <3>2. request[c].tool \notin SpecialTools
      BY <3>1, FoundByName
    <3> QED
      BY <2>1, <3>2 DEF FromResource, ReadOnlyHint
  <2>2. CASE FromOther(request[c])
    BY <2>2 DEF FromOther
  <2> QED
    BY <2>1, <2>2 DEF ToolCallInv, RequestInv
<1> QED
  BY <1>1, Invariant, PTL

\* What removes, replaces or reverts names one object, unless its id is one that
\* the path cleans away.
THEOREM OneObject == Spec => []NoCollectionWideChange
<1>1. ToolCallInv => NoCollectionWideChange
  <2> SUFFICES ASSUME ToolCallInv, NEW c \in Calls,
                      \/ request[c].verb \in {"DELETE", "PUT", "PATCH"}
                      \/ request[c].action = "revert"
               PROVE  \/ request[c].target = "item"
                      \/ ByName(request[c].tool).singleton
                      \/ request[c].arg \in {"dot", "dotdot"}
    BY DEF NoCollectionWideChange
  <2>1. request[c] # NoRequest
    BY DEF NoRequest
  <2> QED
    BY <2>1 DEF ToolCallInv, RequestInv, FromResource, FromOther
<1> QED
  BY <1>1, Invariant, PTL

\* The audit log tells the truth about every call.
THEOREM Audited == Spec => []AuditIsTrue
<1>1. ToolCallInv => AuditIsTrue
  <2> SUFFICES ASSUME ToolCallInv, NEW c \in audit
               PROVE  /\ effects[c] # {}
                      /\ request[c].kind = "write"
                      /\ verb[c] \in OnceVerbs => Cardinality(effects[c]) = 1
    BY DEF AuditIsTrue
  <2>1. c \in Calls /\ verdict[c] = "ok" /\ request[c].kind = "write"
    BY DEF ToolCallInv, AuditInv
  <2>2. effects[c] # {}
    BY <2>1 DEF ToolCallInv, ClientInv
  <2>3. ASSUME verb[c] \in OnceVerbs PROVE Cardinality(effects[c]) = 1
    <3>1. PICK e \in Effects : effects[c] = {e}
      BY <2>1, <2>2, <2>3 DEF ToolCallInv, ClientInv
    <3> QED
      BY <3>1, FS_Singleton
  <2> QED
    BY <2>1, <2>2, <2>3
<1> QED
  BY <1>1, Invariant, PTL
=============================================================================
