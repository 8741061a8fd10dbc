----------------------------- MODULE Inventory -----------------------------
(***************************************************************************)
(* The Ansible inventory builders of                                       *)
(* src/console/ui/src/shared/lib/clusterValuesTransformFunctions.ts:       *)
(* configureHosts, constructDcsEnvs, constructBalancersEnvs and            *)
(* getLocalMachineEnvs.  A server of databaseServers, dcsDatabases or      *)
(* loadBalancerDatabases is a record; its IP address is the key of the     *)
(* host maps, so two servers with the same address collide and the later   *)
(* one wins, as in the object spread of the code.                          *)
(***************************************************************************)
EXTENDS ExtraVars

CONSTANT NoRole     \* configureHosts called without a role

\* servers.reduce((acc, server) => ({...acc, [server.ip]: {ansible_host: server.ip}}), {})
AnsibleHosts(servers) ==
    SpreadAll([i \in DOMAIN servers |-> servers[i].ip :> [ansible_host |-> servers[i].ip]])

configureHosts(v, role, shouldAddHostname, isDbServers) ==
    LET servers == IF isDbServers THEN v.databaseServers ELSE v.dcsDatabases
        \* only the DCS keys name a hostname field
        hasHostnameKey == ~isDbServers
        Entry(s) == SpreadAll(<<
            [ansible_host |-> s.ip],
            When(shouldAddHostname /\ hasHostnameKey, [hostname |-> s.hostname]),
            When(role # NoRole, [consul_node_role |-> role]) >>)
    IN SpreadAll([i \in DOMAIN servers |-> servers[i].ip :> Entry(servers[i])])

NoHosts == [hosts |-> EmptyObj]

\* Mutant: the DCS servers are added first, so a database server at the
\* same address turns its entry into a client.
ConsulHostsServersFirst(v) ==
    Spread(configureHosts(v, "server", TRUE, FALSE),
           configureHosts(v, "client", FALSE, TRUE))

\* A new consul cluster on dedicated servers: the database servers join as
\* clients, then the DCS servers are added as servers.
ConsulHostsOnOwnServers(v) ==
    Spread(configureHosts(v, "client", FALSE, TRUE),
           configureHosts(v, "server", TRUE, FALSE))

\* Returns undefined when neither branch applies.
constructDcsEnvs(v) ==
    IF v.isDeployNewCluster
    THEN IF ~IS_EXPERT_MODE
         THEN [etcd_cluster |-> [hosts |-> configureHosts(v, NoRole, FALSE, TRUE)],
               consul_instances |-> NoHosts]
         ELSE CASE v.dcsType = "etcd" ->
                    [etcd_cluster |->
                        [hosts |-> configureHosts(v, NoRole, ~v.isDeployToDbServers,
                                                  v.isDeployToDbServers)],
                     consul_instances |-> NoHosts]
                [] v.dcsType = "consul" ->
                    [etcd_cluster |-> NoHosts,
                     consul_instances |->
                        [hosts |-> IF v.isDeployToDbServers
                                   THEN configureHosts(v, "server", FALSE, TRUE)
                                   ELSE ConsulHostsOnOwnServers(v)]]
                [] OTHER -> [etcd_cluster |-> NoHosts, consul_instances |-> NoHosts]
    ELSE IF IS_EXPERT_MODE /\ v.dcsType = "consul"
         THEN [consul_instances |-> [hosts |-> configureHosts(v, "client", FALSE, TRUE)]]
         ELSE Undefined

\* Mutant: the balancers group is left out when HAProxy is disabled.
BalancersOnlyWithHaproxy(v) ==
    IF ~v.isHaproxyLoadBalancer THEN EmptyObj
    ELSE [balancers |-> [hosts |->
            IF IS_EXPERT_MODE /\ ~v.lbIsDeployToDatabaseServers
            THEN AnsibleHosts(v.loadBalancerDatabases)
            ELSE AnsibleHosts(v.databaseServers)]]

constructBalancersEnvs(v) ==
    LET balancerHosts ==
            IF ~v.isHaproxyLoadBalancer THEN EmptyObj
            ELSE IF IS_EXPERT_MODE /\ ~v.lbIsDeployToDatabaseServers
                 THEN AnsibleHosts(v.loadBalancerDatabases)
                 ELSE AnsibleHosts(v.databaseServers)
    IN [balancers |-> [hosts |-> balancerHosts]]

\* The entry of a database server in the master and replica groups.
DbHostEntry(v, s) ==
    [hostname |-> s.hostname, ansible_host |-> s.ip, server_location |-> s.location,
     postgresql_exists |-> IF IS_EXPERT_MODE THEN s.isPostgresqlExists ELSE v.isClusterExists]

\* Mutant: slice(0) in place of slice(1); the master is listed as a replica.
ReplicaServersFromFirst(v) == v.databaseServers

\* Every database server after the first: the replicas.
ReplicaServers(v) == SliceFrom1(v.databaseServers)

getLocalMachineEnvs(v, secretId) ==
    LET master == v.databaseServers[1]
        Entry(s) == DbHostEntry(v, s)
    IN Spread(
        When(v.authenticationMethod = "ssh" /\ ~v.isUseDefinedSecret /\ secretId = NoSecret,
             [SSH_PRIVATE_KEY_CONTENT |-> v.sshPrivateKey]),
        [ANSIBLE_INVENTORY_JSON |-> [all |-> [
            vars |-> Spread([ansible_user |-> v.username],
                            When(v.authenticationMethod = "password",
                                 [ansible_ssh_pass |-> v.username,
                                  ansible_sudo_pass |-> v.password])),
            children |-> SpreadAll(<<
                constructBalancersEnvs(v),
                constructDcsEnvs(v),
                [master |-> [hosts |-> master.ip :> Entry(master)]],
                When(Len(v.databaseServers) > 1,
                     [replica |-> [hosts |-> LET r == ReplicaServers(v)
                                            IN SpreadAll([i \in DOMAIN r |-> r[i].ip :> Entry(r[i])])]]),
                [postgres_cluster |-> [children |-> [master |-> EmptyObj, replica |-> EmptyObj]]]
              >>)]]])

=============================================================================
