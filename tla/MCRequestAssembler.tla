------------------------- MODULE MCRequestAssembler -------------------------
(***************************************************************************)
(* One submit of the add-cluster page.  A behaviour starts from a filled   *)
(* form and a secretId; in YAML mode the editor is opened on the preview   *)
(* of the form and may be left holding text that does not parse; then     *)
(* the request is built once.  The page that calls the mapper is not part  *)
(* of the repository: the harness follows spec.md 4.4, which passes        *)
(* customExtraVars only for a YAML submit.                                 *)
(***************************************************************************)
EXTENDS RequestAssembler

CONSTANTS
    Forms,          \* the form values of this run
    IS_YAML_ENABLED,  \* the build flag that, with IS_EXPERT_MODE, shows the YAML tab
    SecretIds,      \* NoSecret or the id of a stored secret
    NoDoc,          \* the YAML editor has not been opened
    NoRequest       \* nothing submitted yet

VARIABLES
    values,         \* the form values
    secretId,       \* the secretId passed to the mapper
    doc,            \* the document of the YAML editor (the object it parses to)
    request         \* the request built by the submit

vars == <<values, secretId, doc, request>>

ProjectId == 1
SecretsInfo == [AWS_ACCESS_KEY_ID |-> "AKIA1", AWS_SECRET_ACCESS_KEY |-> "",
                name |-> "aws-secret"]

-----------------------------------------------------------------------------
(* Input domains.                                                          *)

Server(ip) == [ip |-> ip, hostname |-> "db-" \o ip, location |-> "dc1",
               isPostgresqlExists |-> FALSE]

\* The fields every run fixes to one value.
Fixed == [postgresVersion |-> {"16"}, clusterName |-> {"pg-cluster"},
          environment |-> {1}, description |-> {"prod", Undefined},
          instanceType |-> {"small"}, serverType |-> {Undefined},
          instanceConfig |-> {"m5.large"}, regionConfig |-> {"eu-1"},
          instancesAmount |-> {3}, storageAmount |-> {100},
          sshPublicKey |-> {"ssh-ed25519 AAA"}, cloudImage |-> {[image |-> "ubuntu-24"]},
          clusterVIPAddress |-> {""}, isHaproxyLoadBalancer |-> {FALSE},
          isUseDefinedSecret |-> {FALSE}, username |-> {"ops"},
          password |-> {"secret-pw"}, sshPrivateKey |-> {"key"},
          databaseServers |-> {<<Server("10.0.0.1"), Server("10.0.0.2")>>},
          isDeployNewCluster |-> {TRUE}, dcsType |-> {"etcd"},
          isDeployToDbServers |-> {TRUE}, dcsDatabases |-> {<<>>},
          lbIsDeployToDatabaseServers |-> {TRUE}, loadBalancerDatabases |-> {<<>>},
          dataDirectory |-> {"/pgdata"},
          fileSystemType |-> {"ext4"}, volumeType |-> {"gp3"}, isDbPublicAccess |-> {FALSE},
          isCloudLoadBalancer |-> {FALSE}, isSpotInstances |-> {TRUE}, serverNetwork |-> {""},
          names |-> {<<"app", "reports">>},
          extensions |-> {<<[name |-> "timescaledb", db |-> <<0>>, isThirdParty |-> TRUE]>>},
          databases |-> {<<[name |-> "app", user |-> "app", encoding |-> "UTF8",
                            locale |-> "en_US", password |-> "app-pw"]>>},
          isConnectionPoolerEnabled |-> {TRUE},
          pools |-> {<<[name |-> "app", size |-> 20, mode |-> "transaction"]>>},
          isNetdataMonitoring |-> {FALSE},
          backupStartTime |-> {1}, backupRetention |-> {4}, backupConfig |-> {""},
          accessKey |-> {"ak"}, secretKey |-> {"sk"},
          postgresParameters |-> {"work_mem=4MB"}, kernelParameters |-> {""},
          syncStandbyNodes |-> {0}, isSyncModeStrict |-> {FALSE}]

\* The fields the runs vary.
Varied(auth) == [creationType |-> {"form", "yaml"}, provider |-> {"local", "aws", "gcp"},
                 isClusterExists |-> BOOLEAN, authenticationMethod |-> auth,
                 isBackupsEnabled |-> {FALSE}, backupMethod |-> {Undefined}]

\* The records whose field f ranges over D[f].
RECURSIVE RecordsOf(_)
RecordsOf(D) ==
    IF DOMAIN D = {} THEN {EmptyObj}
    ELSE LET f == CHOOSE f \in DOMAIN D : TRUE
         IN UNION {{(f :> x) @@ r : r \in RecordsOf([g \in DOMAIN D \ {f} |-> D[g]])} : x \in D[f]}

StandardForms == RecordsOf(Varied({"ssh", "password"}) @@ Fixed)

\* Extensions values over two extensions and the two databases of names:
\* none, one entry with zero to two database indexes, and two entries in
\* both orders with and without a database.
ExtensionEntries ==
    [name : {"postgis", "timescaledb"}, db : BoundedSeq(0..1, 2), isThirdParty : BOOLEAN]
MCExtensionValues ==
    {<<>>} \cup {<<e>> : e \in ExtensionEntries}
           \cup {<<e, f>> : e \in {x \in ExtensionEntries : x.name = "timescaledb"},
                             f \in [name : {"postgis"}, db : {<<>>, <<0>>}, isThirdParty : {FALSE}]}
           \cup {<<[name |-> "postgis", db |-> <<1>>, isThirdParty |-> FALSE],
                  [name |-> "timescaledb", db |-> <<0>>, isThirdParty |-> TRUE]>>}

\* Expert mode, both backup tools, SSH authentication (password
\* authentication with a saved secret is the subject of its own run).
ExpertForms == RecordsOf([Varied({"ssh"}) EXCEPT !.isBackupsEnabled = BOOLEAN,
                                                 !.backupMethod = {"pgbackrest", "wal_g"}]
                         @@ Fixed)

\* Expert mode, password authentication: the forms of the saved-secret run.
ExpertPasswordForms == RecordsOf(Varied({"password"}) @@ Fixed)

\* Expert forms of an AWS cluster with every extensions value.
ExtensionForms ==
    {[f EXCEPT !.extensions = x] :
        f \in {g \in ExpertForms : g.provider = "aws" /\ ~g.isClusterExists
                                  /\ g.backupMethod = "wal_g" /\ g.description = "prod"},
        x \in MCExtensionValues}

ExpertAssemblerForms == ExpertForms \cup ExtensionForms

-----------------------------------------------------------------------------
Init ==
    /\ values \in Forms
    /\ secretId \in SecretIds
    /\ doc = NoDoc
    /\ request = NoRequest

\* The YAML tab, rendered only when IS_EXPERT_MODE && IS_YAML_ENABLED,
\* shows the preview of the form; its text parses back to the preview
\* without the keys that hold undefined.
OpenYamlEditor ==
    /\ IS_EXPERT_MODE /\ IS_YAML_ENABLED
    /\ values.creationType = "yaml"
    /\ doc = NoDoc
    /\ doc' = DropUndefined(mapFormValuesToYamlEditor(values))
    /\ UNCHANGED <<values, secretId, request>>

\* The user leaves the editor holding text that does not parse.
BreakYaml ==
    /\ doc \notin {NoDoc, InvalidYaml}
    /\ doc' = InvalidYaml
    /\ UNCHANGED <<values, secretId, request>>

\* The submit: a YAML submit passes the parsed document, whose
\* environment_id and description the mapper deletes.
Submit ==
    /\ request = NoRequest
    /\ values.creationType = "yaml" => doc # NoDoc
    /\ LET isYaml == values.creationType = "yaml"
           custom == IF isYaml THEN getParsedYamlEditorValues(doc) ELSE Undefined
           result == mapFormValuesToRequestFields(values, secretId, ProjectId, SecretsInfo, custom)
       IN /\ request' = result.request
          /\ doc' = IF custom = Undefined THEN doc ELSE result.customExtraVars
    /\ UNCHANGED <<values, secretId>>

Next == OpenYamlEditor \/ BreakYaml \/ Submit

Spec == Init /\ [][Next]_vars

-----------------------------------------------------------------------------
Submitted == request # NoRequest
RequestKeys == {"name", "environment_id", "description", "project_id", "envs", "extra_vars"}

TypeOK ==
    /\ values \in Forms
    /\ secretId \in SecretIds
    /\ Submitted =>
          /\ RequestKeys \subseteq DOMAIN request
          /\ DOMAIN request \subseteq RequestKeys \cup {"auth_info", "existing_cluster"}
          /\ DOMAIN request.envs \subseteq SecretFieldNames \cup {"SSH_PRIVATE_KEY_CONTENT", "ANSIBLE_INVENTORY_JSON"}
          /\ "existing_cluster" \in DOMAIN request => request.existing_cluster \in BOOLEAN

\* The request a form submit of the same values would send.
FormRequest ==
    mapFormValuesToRequestFields([values EXCEPT !.creationType = "form"], secretId,
                                 ProjectId, SecretsInfo, Undefined).request

\* Submitting the unedited YAML preview sends the request the form submit
\* sends: the same name, environment, project, secret, target path, envs
\* and existing_cluster flag, and the form's extra_vars less the two keys
\* promoted to the request (mapFormValuesToRequestFields with
\* mapFormValuesToYamlEditor).
YamlSubmitAgreesWithForm ==
    Submitted /\ values.creationType = "yaml" /\ doc # InvalidYaml =>
        /\ DropUndefined(Omit(request, {"extra_vars"}))
              = DropUndefined(Omit(FormRequest, {"extra_vars"}))
        /\ request.extra_vars
              = DropUndefined(Omit(FormRequest.extra_vars, {"environment_id", "description"}))

\* spec.md 4.1: the inline SSH password is sent in extra_vars only when no
\* saved secret exists (getLocalMachineExtraVars).
NoInlinePasswordWithSavedSecret ==
    Submitted /\ secretId # NoSecret => "ansible_ssh_pass" \notin DOMAIN request.extra_vars

\* spec.md 4.2: entries with no database are dropped; each database index
\* of the others resolves to {ext, db: name}; a third-party entry adds
\* enable_<name>: true.
ExtensionsSpec(names, exts) ==
    LET kept == SelectSeq(exts, LAMBDA e : e.db # <<>>)
        refs(e) == [i \in DOMAIN e.db |-> [ext |-> e.name, db |-> names[e.db[i] + 1]]]
    IN  [db |-> FlattenSeq([j \in DOMAIN kept |-> refs(kept[j])]),
         extraVars |-> [k \in {"enable_" \o kept[j].name : j \in {j \in DOMAIN kept : kept[j].isThirdParty}}
                          |-> TRUE]]

\* Every request carries the extensions of the form as spec.md 4.2 resolves
\* them: postgresql_extensions lists, in the entries' order, one {ext, db}
\* per database index of each entry that has one (the key is absent when
\* none has), and an enable_<name> flag is set exactly for the third-party
\* entries that have a database (getExtensions, spread by
\* getBaseClusterExtraVars into the form's extra_vars and into the YAML
\* preview a YAML submit sends).
ExtensionsResolvedAsSpecified ==
    Submitted /\ IS_EXPERT_MODE =>
        LET ev   == request.extra_vars
            want == ExtensionsSpec(values.names, values.extensions)
        IN  /\ IF want.db = <<>> THEN "postgresql_extensions" \notin DOMAIN ev
                                 ELSE Get(ev, "postgresql_extensions") = want.db
            /\ {k \in DOMAIN ev : Len(k) > 7 /\ SubSeq(k, 1, 7) = "enable_"} = DOMAIN want.extraVars
            /\ \A k \in DOMAIN want.extraVars : ev[k] = TRUE

=============================================================================
