----------------------------- MODULE ToolTable -----------------------------
(***************************************************************************)
(* The tools of netskope-mcp as data (internal/tools/table_*.go): for each *)
(* collection the group that gates it, the actions it supports and how it  *)
(* departs from the usual shape.  Descriptions and paths are left out; a   *)
(* tool is known by its name without the netskope_ prefix.                 *)
(***************************************************************************)
EXTENDS Sequences

Actions == {"list", "get", "create", "update", "delete", "deploy", "revert"}

\* The two slices the tables share, and the others by what they hold.
crud       == {"list", "get", "create", "update", "delete"}
deployable == crud \union {"deploy", "revert"}

(***************************************************************************)
(* A resource: which slice its Actions field is and what that holds, the   *)
(* verb of update, and whether it is one object without an id.             *)
(***************************************************************************)
Resource(name, group, slice, actions, update, singleton) ==
    [name |-> name, group |-> group, slice |-> slice, actions |-> actions,
     update |-> update, singleton |-> singleton]

Crud(name, group, update)       == Resource(name, group, "crud", crud, update, FALSE)
Deployable(name, update)        == Resource(name, "policy", "deployable", deployable, update, FALSE)
Own(name, group, acts, update)  == Resource(name, group, "own", acts, update, FALSE)
Singleton(name, group, acts, update) == Resource(name, group, "own", acts, update, TRUE)

npaResources == <<
    Crud("publishers", "npa", "PUT"),
    Crud("publisher_upgrade_profiles", "npa", "PUT"),
    Crud("local_brokers", "npa", "PUT"),
    Crud("private_apps", "npa", "PATCH"),
    Own("private_app_tags", "npa", crud \ {"get"}, "PUT"),
    Crud("npa_policy_rules", "npa", "PATCH"),
    Crud("npa_policy_groups", "npa", "PATCH") >>

policyResources == <<
    Own("url_lists", "policy", crud \union {"deploy"}, "PUT"),
    Deployable("custom_categories", "PATCH"),
    Deployable("destination_profiles", "PATCH"),
    Deployable("network_profiles", "PATCH"),
    Deployable("service_profiles", "PATCH"),
    Own("dns_profiles", "policy", crud \union {"deploy"}, "PATCH"),
    Deployable("remote_proxies", "PATCH"),
    Crud("domain_frontings", "policy", "PATCH"),
    Own("realtime_policy_rules", "internetaccess", {"list", "get"}, "PUT"),
    Own("realtime_policy_groups", "internetaccess", {"list", "get"}, "PUT") >>

scimResources == <<
    Crud("scim_users", "scim", "PATCH"),
    Crud("scim_groups", "scim", "PATCH") >>

reportingResources == << Own("reports", "reporting", {"list"}, "PUT") >>

steeringResources == <<
    Crud("ipsec_tunnels", "steering", "PATCH"),
    Crud("gre_tunnels", "steering", "PATCH") >>

dlpResources == <<
    Own("dlp_profiles", "dlp", crud \union {"deploy"}, "PUT"),
    Crud("dlp_rules", "dlp", "PUT"),
    Crud("dlp_file_profiles", "dlp", "PUT"),
    Crud("dlp_data_identifiers", "dlp", "PUT") >>

incidentResources == <<
    Crud("watchlists", "incidents", "PATCH"),
    Singleton("incident_update", "incidents", {"update"}, "PATCH") >>

deviceResources == <<
    Crud("device_classification_rules", "devices", "PUT"),
    Crud("device_classification_tags", "devices", "PUT") >>

ipsResources == <<
    Singleton("ips_status", "ips", {"get", "update"}, "PATCH"),
    Singleton("ips_allowlist", "ips", {"get", "update"}, "PATCH"),
    Singleton("ips_signature_overrides", "ips", {"get", "update"}, "PUT") >>

aigResources == <<
    Crud("aig_ai_providers", "aig", "PATCH"),
    Crud("aig_mcp_servers", "aig", "PATCH"),
    Crud("aig_rate_limits", "aig", "PATCH"),
    Crud("aig_token_groups", "aig", "PATCH") >>

intelResources == <<
    Own("url_recategorizations", "intel", {"list", "get", "create"}, "PUT"),
    Singleton("cci_apps", "intel", {"get"}, "PUT") >>

All == npaResources \o policyResources \o scimResources \o reportingResources
       \o steeringResources \o dlpResources \o incidentResources
       \o deviceResources \o ipsResources \o aigResources \o intelResources

\* The tools that are not resources, and their groups.
SpecialGroup ==
    [tenant_info  |-> "core",   api          |-> "core",
     event_search |-> "events", alert_search |-> "events",
     url_lookup   |-> "intel"]
SpecialTools == DOMAIN SpecialGroup

DefaultGroups == {"core", "npa", "policy", "events", "scim", "reporting",
                  "steering", "incidents", "intel"}
Groups == DefaultGroups \union {"internetaccess", "dlp", "devices", "ips", "aig"}
============================================================================
