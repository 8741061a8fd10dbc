----------------------------- MODULE ExtraVars -----------------------------
(***************************************************************************)
(* The extra_vars builders of                                              *)
(* src/console/ui/src/shared/lib/clusterValuesTransformFunctions.ts:       *)
(* getCommonExtraVars, getCloudProviderExtraVars, getLocalMachineExtraVars,*)
(* getExtensions and getBaseClusterExtraVars, as operators over one value  *)
(* v of the cluster form.  v is a record whose fields are the form fields  *)
(* the code reads; the provider object is abstracted to its code and the   *)
(* selected region/instance objects to their codes.  Free-text parameter   *)
(* blocks and SSH keys are carried as opaque texts here; their parsing is  *)
(* modelled in ParamParser.                                                *)
(***************************************************************************)
EXTENDS JsValues

CONSTANTS
    IS_EXPERT_MODE,   \* the build flag read from the environment
    NoSecret          \* the absent secretId argument (falsy)

ASSUME IS_EXPERT_MODE \in BOOLEAN

\* Providers for which spot instances are offered, and the S3-compatible
\* providers whose backups need explicit access keys.
SpotProviders == {"aws", "gcp", "azure"}
S3KeyProviders == {"digitalocean", "hetzner"}

\* PROVIDER_CODE_TO_ANSIBLE_USER_MAP[code] (a static table outside src/).
DefaultAnsibleUser(code) == [defaultUserOf |-> code]

\* convertModalParametersToArray(text) and the ssh_public_keys conversion:
\* their result, kept opaque in this module.
ParametersOf(text) == [parametersOf |-> text]
SshPublicKeysOf(text) == [quotedLinesOf |-> text]

getCommonExtraVars(v) ==
    [postgresql_version |-> v.postgresVersion, patroni_cluster_name |-> v.clusterName]

getCloudProviderExtraVars(v) ==
    SpreadAll(<<
        getCommonExtraVars(v),
        [cloud_provider |-> v.provider,
         server_type |-> IF v.instanceType = "custom" THEN v.serverType ELSE v.instanceConfig,
         server_location |-> v.regionConfig,
         server_count |-> v.instancesAmount,
         volume_size |-> v.storageAmount,
         ansible_user |-> DefaultAnsibleUser(v.provider)],
        When(v.sshPublicKey # "", [ssh_public_keys |-> SshPublicKeysOf(v.sshPublicKey)]),
        v.cloudImage,
        When(IS_EXPERT_MODE, SpreadAll(<<
            [postgresql_data_dir_mount_fstype |-> v.fileSystemType,
             volume_type |-> v.volumeType,
             database_public_access |-> v.isDbPublicAccess,
             cloud_load_balancer |-> v.isCloudLoadBalancer],
            When(v.provider \in SpotProviders /\ v.isSpotInstances, [server_spot |-> TRUE]),
            When(v.serverNetwork # "", [server_network |-> v.serverNetwork]) >>)) >>)

\* The inline credentials are sent only when no secret is used.
InlineCredentials(v, secretId) ==
    /\ secretId = NoSecret
    /\ ~v.isUseDefinedSecret
    /\ v.authenticationMethod = "password"

\* The connection data of an existing DCS cluster (expert mode only).
ExistingDcsExtraVars(v) ==
    Spread([dcs_exists |-> TRUE],
           IF v.dcsType = "etcd"
           THEN [patroni_etcd_hosts |->
                    [i \in DOMAIN v.dcsDatabases |->
                        [host |-> v.dcsDatabases[i].ip, port |-> v.dcsDatabases[i].port]]]
           ELSE [consul_join |-> [i \in DOMAIN v.dcsDatabases |-> v.dcsDatabases[i].ip],
                 consul_ports_serf_lan |-> 8301])

getLocalMachineExtraVars(v, secretId) ==
    SpreadAll(<<
        getCommonExtraVars(v),
        When(v.clusterVIPAddress # "", [cluster_vip |-> v.clusterVIPAddress]),
        When(v.isHaproxyLoadBalancer, [with_haproxy_load_balancing |-> TRUE]),
        When(v.isClusterExists, [existing_cluster |-> TRUE]),
        When(InlineCredentials(v, secretId),
             [ansible_user |-> v.username, ansible_ssh_pass |-> v.password]),
        When(IS_EXPERT_MODE, SpreadAll(<<
            [dcs_type |-> v.dcsType],
            When(~v.isDeployNewCluster, ExistingDcsExtraVars(v)),
            [postgresql_data_dir |-> v.dataDirectory] >>)) >>)

\* Mutant: the third-party flag added for an entry with no database.
getExtensionsFlagWithoutDb(v) ==
    LET step(acc, e) ==
            [db |-> acc.db \o [i \in DOMAIN e.db |-> [ext |-> e.name, db |-> At(v.names, e.db[i])]],
             extraVars |-> IF e.isThirdParty
                           THEN Spread(acc.extraVars, ("enable_" \o e.name) :> TRUE)
                           ELSE acc.extraVars]
    IN FoldLeft(step, [db |-> <<>>, extraVars |-> EmptyObj], v.extensions)

\* Object.entries(extensions).reduce(...): extensions is the sequence of
\* entries in key order; each entry's db lists 0-based database indexes.
getExtensions(v) ==
    LET step(acc, e) ==
            IF Len(e.db) > 0
            THEN [db |-> acc.db \o [i \in DOMAIN e.db |-> [ext |-> e.name, db |-> At(v.names, e.db[i])]],
                  extraVars |-> IF e.isThirdParty
                                THEN Spread(acc.extraVars, ("enable_" \o e.name) :> TRUE)
                                ELSE acc.extraVars]
            ELSE acc
    IN FoldLeft(step, [db |-> <<>>, extraVars |-> EmptyObj], v.extensions)

\* The backup branch of getBaseClusterExtraVars.
BackupExtraVars(v) ==
    IF v.isBackupsEnabled /\ v.backupMethod # Undefined
    THEN IF v.backupMethod = "pgbackrest"
         THEN SpreadAll(<<
                [pgbackrest_install |-> TRUE,
                 pgbackrest_backup_hour |-> v.backupStartTime,
                 pgbackrest_retention_full |-> v.backupRetention,
                 pgbackrest_retention_full_type |-> "time"],
                When(v.backupConfig # "",
                     [pgbackrest_auto_conf |-> FALSE,
                      pgbackrest_conf |-> [global |-> ParametersOf(v.backupConfig)]]),
                When(v.provider \in S3KeyProviders,
                     [pgbackrest_s3_key |-> v.accessKey, pgbackrest_s3_key_secret |-> v.secretKey]) >>)
         ELSE SpreadAll(<<
                [wal_g_install |-> TRUE,
                 wal_g_backup_hour |-> v.backupStartTime,
                 wal_g_retention_full |-> v.backupRetention],
                When(v.backupConfig # "",
                     [wal_g_auto_conf |-> FALSE, wal_g_json |-> ParametersOf(v.backupConfig)]),
                When(v.provider \in S3KeyProviders,
                     [wal_g_aws_access_key_id |-> v.accessKey,
                      wal_g_aws_secret_access_key |-> v.secretKey]) >>)
    ELSE [pgbackrest_install |-> FALSE, pgbackrest_auto_conf |-> FALSE]

\* The database, user and pool definitions of expert mode.
DatabasesExtraVars(v) ==
    [postgresql_databases |->
        [i \in DOMAIN v.databases |->
            [db |-> v.databases[i].name, owner |-> v.databases[i].user,
             encoding |-> v.databases[i].encoding,
             lc_ctype |-> v.databases[i].locale, lc_collate |-> v.databases[i].locale]],
     postgresql_users |->
        [i \in DOMAIN v.databases |->
            [name |-> v.databases[i].user, password |-> v.databases[i].password]],
     pgbouncer_install |-> v.isConnectionPoolerEnabled,
     netdata_install |-> v.isNetdataMonitoring]

PoolsExtraVars(v) ==
    [pgbouncer_pools |->
        [i \in DOMAIN v.pools |->
            [name |-> v.pools[i].name, dbname |-> v.pools[i].name,
             pool_parameters |-> [pool_size |-> v.pools[i].size, pool_mode |-> v.pools[i].mode]]]]

getBaseClusterExtraVars(v) ==
    LET baseExtraVars == [environment_id |-> v.environment, description |-> v.description]
        extensions == getExtensions(v)
    IN IF ~IS_EXPERT_MODE THEN baseExtraVars
       ELSE SpreadAll(<<
            baseExtraVars,
            DatabasesExtraVars(v),
            When(v.isConnectionPoolerEnabled, PoolsExtraVars(v)),
            When(Len(extensions.db) > 0, [postgresql_extensions |-> extensions.db]),
            extensions.extraVars,
            BackupExtraVars(v),
            When(v.postgresParameters # "",
                 [local_postgresql_parameters |-> ParametersOf(v.postgresParameters)]),
            When(v.kernelParameters # "",
                 [sysctl_set |-> TRUE,
                  sysctl_conf |-> [postgres_cluster |-> ParametersOf(v.kernelParameters)]]),
            When(v.syncStandbyNodes # 0,
                 Spread([synchronous_mode |-> TRUE, synchronous_node_count |-> v.syncStandbyNodes],
                        When(v.isSyncModeStrict, [synchronous_mode_strict |-> TRUE]))) >>)

=============================================================================
