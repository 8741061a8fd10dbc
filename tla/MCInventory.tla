---------------------------- MODULE MCInventory ----------------------------
(***************************************************************************)
(* Model-checking harness for the local-machine inventory.  A behaviour   *)
(* picks one submitted form value and secretId (the inputs the page can    *)
(* hold) and then performs the single call the submit handler makes:       *)
(* getLocalMachineEnvs together with getLocalMachineExtraVars, the two     *)
(* halves of a local-machine request.  Forms is chosen per run in the cfg. *)
(***************************************************************************)
EXTENDS Inventory, FiniteSets

CONSTANTS
    Forms,          \* the form values of this run
    SecretIds,      \* NoSecret or the id of a stored secret
    IPs             \* addresses the servers are given

VARIABLES
    values,         \* the submitted form values
    secretId,       \* the secretId argument
    envs,           \* getLocalMachineEnvs(values, secretId), once called
    extraVars       \* getLocalMachineExtraVars(values, secretId), once called

vars == <<values, secretId, envs, extraVars>>

-----------------------------------------------------------------------------
(* Input domains.                                                          *)

MaxDbServers == 3
MaxDcsServers == 2

DbServer(flags) == [ip : IPs, hostname : {"db-host"}, location : {"dc1"},
                    isPostgresqlExists : flags]
DcsServer == [ip : IPs, hostname : {"dcs-host"}, port : {"2379"}]
LbServer == [ip : IPs]

SeqsOf(S, lo, hi) == UNION {[1..n -> S] : n \in lo..hi}

\* The fields every run fixes to one value.
Fixed == [postgresVersion |-> {"16"}, clusterName |-> {"pg-cluster"},
          clusterVIPAddress |-> {"", "10.0.0.9"},
          username |-> {"ops"}, password |-> {"secret-pw"}, sshPrivateKey |-> {"key"},
          dataDirectory |-> {"/pgdata"}]

FormsOf(D) ==
    [postgresVersion : D.postgresVersion, clusterName : D.clusterName,
     clusterVIPAddress : D.clusterVIPAddress, username : D.username,
     password : D.password, sshPrivateKey : D.sshPrivateKey,
     dataDirectory : D.dataDirectory,
     isHaproxyLoadBalancer : D.isHaproxyLoadBalancer,
     isClusterExists : D.isClusterExists,
     isUseDefinedSecret : D.isUseDefinedSecret,
     authenticationMethod : D.authenticationMethod,
     dcsType : D.dcsType, isDeployNewCluster : D.isDeployNewCluster,
     isDeployToDbServers : D.isDeployToDbServers, dcsDatabases : D.dcsDatabases,
     databaseServers : D.databaseServers,
     lbIsDeployToDatabaseServers : D.lbIsDeployToDatabaseServers,
     loadBalancerDatabases : D.loadBalancerDatabases]

\* Expert mode: every DCS and balancer topology, with SSH authentication.
ExpertTopologies == FormsOf([Fixed EXCEPT !.clusterVIPAddress = {""}] @@
    [isHaproxyLoadBalancer |-> BOOLEAN, isClusterExists |-> {FALSE},
     isUseDefinedSecret |-> {FALSE}, authenticationMethod |-> {"ssh"},
     dcsType |-> {"etcd", "consul", Undefined}, isDeployNewCluster |-> BOOLEAN,
     isDeployToDbServers |-> BOOLEAN, dcsDatabases |-> SeqsOf(DcsServer, 0, MaxDcsServers),
     databaseServers |-> SeqsOf(DbServer({TRUE, Undefined}), 1, MaxDbServers),
     lbIsDeployToDatabaseServers |-> BOOLEAN, loadBalancerDatabases |-> SeqsOf(LbServer, 0, 1)])

\* Standard mode: the DCS and balancer fields keep the values the form
\* starts with (CLUSTER_FORM_DEFAULT_VALUES sets none of them).
StandardForms == FormsOf(Fixed @@
    [isHaproxyLoadBalancer |-> BOOLEAN, isClusterExists |-> BOOLEAN,
     isUseDefinedSecret |-> BOOLEAN, authenticationMethod |-> {"ssh", "password"},
     dcsType |-> {Undefined}, isDeployNewCluster |-> {FALSE},
     isDeployToDbServers |-> {FALSE}, dcsDatabases |-> {<<>>},
     databaseServers |-> SeqsOf(DbServer({Undefined}), 1, MaxDbServers),
     lbIsDeployToDatabaseServers |-> {FALSE}, loadBalancerDatabases |-> {<<>>}])

-----------------------------------------------------------------------------
Init ==
    /\ values \in Forms
    /\ secretId \in SecretIds
    /\ envs = Undefined
    /\ extraVars = Undefined

\* The local-machine branch of the submit: both builders called once.
BuildLocalRequest ==
    /\ envs = Undefined
    /\ envs' = getLocalMachineEnvs(values, secretId)
    /\ extraVars' = getLocalMachineExtraVars(values, secretId)
    /\ UNCHANGED <<values, secretId>>

Next == BuildLocalRequest

Spec == Init /\ [][Next]_vars

-----------------------------------------------------------------------------
Built == envs # Undefined
Inv == envs.ANSIBLE_INVENTORY_JSON.all
Children == Inv.children
Servers == values.databaseServers
ServerIPs == {Servers[i].ip : i \in DOMAIN Servers}
DistinctServerIPs == Cardinality(ServerIPs) = Len(Servers)
GroupHosts(g) == IF g \in DOMAIN Children THEN DOMAIN Children[g].hosts ELSE {}

TypeOK ==
    /\ values \in Forms
    /\ secretId \in SecretIds
    /\ Built => /\ DOMAIN envs \subseteq {"SSH_PRIVATE_KEY_CONTENT", "ANSIBLE_INVENTORY_JSON"}
                /\ {"balancers", "master", "postgres_cluster"} \subseteq DOMAIN Children

\* When every database server has its own address, the first server is
\* the only member of the master group, every other server is a member of
\* the replica group, the replica group exists exactly when there are
\* other servers, and no host is in both groups (getLocalMachineEnvs).
MasterReplicaPartition ==
    Built /\ DistinctServerIPs =>
        /\ GroupHosts("master") = {Servers[1].ip}
        /\ ("replica" \in DOMAIN Children) <=> Len(Servers) > 1
        /\ GroupHosts("replica") = ServerIPs \ {Servers[1].ip}

\* When the DCS cluster already exists (extra_vars carry dcs_exists), the
\* inventory deploys no etcd member and every consul host it lists is a
\* client on a database server; when a new consul cluster is deployed on
\* dedicated servers, each of them is a consul server, whatever database
\* server shares its address (constructDcsEnvs and
\* getLocalMachineExtraVars together).
DcsInventoryAgreesWithExtraVars ==
    Built =>
        LET consul == IF "consul_instances" \in DOMAIN Children
                      THEN Children.consul_instances.hosts ELSE EmptyObj
            dcs == values.dcsDatabases
        IN /\ Get(extraVars, "dcs_exists") = TRUE =>
                 /\ GroupHosts("etcd_cluster") = {}
                 /\ \A h \in DOMAIN consul : consul[h].consul_node_role = "client"
                                             /\ h \in ServerIPs
           /\ (values.dcsType = "consul" /\ values.isDeployNewCluster
                 /\ ~values.isDeployToDbServers) =>
                 \A i \in DOMAIN dcs : /\ dcs[i].ip \in DOMAIN consul
                                       /\ consul[dcs[i].ip].consul_node_role = "server"
                                       /\ "hostname" \in DOMAIN consul[dcs[i].ip]

\* spec.md 4.3: in standard mode the DCS is always etcd deployed on the
\* database servers themselves (constructDcsEnvs).
StandardModeEtcdOnDbServers ==
    Built /\ ~IS_EXPERT_MODE => GroupHosts("etcd_cluster") = ServerIPs

\* With password authentication the inventory gives Ansible the user's
\* password as the SSH password (getLocalMachineEnvs, all.vars).
PasswordAuthUsesPassword ==
    Built /\ values.authenticationMethod = "password" =>
        Inv.vars.ansible_ssh_pass = values.password

=============================================================================
