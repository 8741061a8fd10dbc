------------------------- MODULE AddClusterInstances -------------------------
(***************************************************************************)
(* The add-cluster page composed with the instance type selector it       *)
(* renders.  The page's effect resets instanceConfig from the deployments *)
(* answer (index.tsx line 77) and keeps instanceType; the user works the  *)
(* selector while the form is shown, with the instance types of the       *)
(* provider the form holds (none before the first reset writes one).      *)
(***************************************************************************)
EXTENDS AddClusterPage, InstanceSelector

CONSTANT
    Volumes             \* providers[0].volumes: <<[volume_type, is_default]>>

VARIABLE
    volumeType          \* the storage block's volumeType field (expert mode)

allVars == <<vars, selVars, volumeType>>

\* watchProvider?.instance_types ?? {}: the form holds no provider until the
\* reset writes providers[0]; a provider the user picks is one of the same
\* deployments answer.
ProviderInstanceTypes == IF form["provider"] = DefaultValue THEN EmptyObj ELSE InstanceTypes

\* The user can act on what is shown, once pending effects have run.
Interactive == Visible /\ ~EffectPending

-----------------------------------------------------------------------------
\* CLUSTER_FORM_DEFAULT_VALUES (constants.ts line 70) sets instanceType to
\* 'small' and leaves instanceConfig and volumeType unset.
InitInstances ==
    /\ Init
    /\ instanceType = "small"
    /\ instanceConfig = Undefined
    /\ volumeType = Undefined

\* volumes?.find(v => v?.is_default)?.volume_type ?? volumes?.[0]?.volume_type
DefaultVolumeType(vs) ==
    LET d == SelectInSeq(vs, LAMBDA v : v.is_default)
    IN  CASE d > 0       -> vs[d].volume_type
          [] Len(vs) > 0 -> vs[1].volume_type
          [] OTHER       -> Undefined

\* The page's effect; its reset also writes instanceConfig and, in expert
\* mode, the volume type; ...values keeps them otherwise.
EffectInstances ==
    /\ Effect
    /\ IF Ready(data) THEN ResetInstanceConfig ELSE UNCHANGED selVars
    /\ volumeType' = IF Ready(data) /\ IS_EXPERT_MODE THEN DefaultVolumeType(Volumes)
                                                      ELSE volumeType

SelectInstanceType(t) ==
    /\ Interactive
    /\ ChangeInstanceType(ProviderInstanceTypes, t)
    /\ UNCHANGED <<vars, volumeType>>

SelectInstanceConfig(c) ==
    /\ Interactive
    /\ ChangeInstanceConfig(ProviderInstanceTypes, c)
    /\ UNCHANGED <<vars, volumeType>>

\* PostgresVersionBox (postgres-version-block index.tsx): the Select lists
\* the versions of the query's data and its onChange writes the field.
SelectPostgresVersion ==
    /\ UserEdit("postgresVersion")
    /\ UNCHANGED <<selVars, volumeType>>

InstanceNames == DOMAIN InstanceTypes \cup {"custom"}
ConfigCodes == UNION {PanelConfigs(InstanceTypes, t) : t \in DOMAIN InstanceTypes}

NextInstances ==
    \/ \E q \in Queries : (QueryResolves(q) \/ Refetch(q)) /\ UNCHANGED <<selVars, volumeType>>
    \/ EffectInstances
    \/ ResetSettled /\ UNCHANGED <<selVars, volumeType>>
    \/ \E f \in Fields \ {"postgresVersion"} : UserEdit(f) /\ UNCHANGED <<selVars, volumeType>>
    \/ SelectPostgresVersion
    \/ \E t \in InstanceNames : SelectInstanceType(t)
    \/ \E c \in ConfigCodes : SelectInstanceConfig(c)

SpecInstances == InitInstances /\ [][NextInstances]_allVars /\ Fairness

\* A provider answering two small configs, one medium and no large list.
MCInstanceTypes == [small |-> <<"s-1", "s-2">>, medium |-> <<"m-1">>, large |-> NoList]

\* Two volume types, the second one the provider's default.
MCVolumes == <<[volume_type |-> "gp2", is_default |-> FALSE],
               [volume_type |-> "gp3", is_default |-> TRUE]>>

\* The custom server type the form holds: CLUSTER_FORM_DEFAULT_VALUES
\* (constants.ts line 81) in expert mode.
SERVER_TYPE == ""

-----------------------------------------------------------------------------
\* Whenever the user can submit a catalog instance type of the provider the
\* page's reset chose, exactly one box of the panel the selector shows is
\* drawn active (isActive, instances-block line 83), and it is the config
\* getCloudProviderExtraVars sends as server_type: what the user sees
\* selected is what is sent (handleInstanceTypeChange with the reset of
\* line 77).  A provider the user picks is written by the provider block,
\* which is not part of the repository, and is left out.
ServerTypeOfShownType ==
    Interactive /\ form["provider"] \in Nat /\ instanceType # "custom"
        => ActiveConfigs(ProviderInstanceTypes) = {ServerType(Undefined)}

\* The page and the selector together keep the form's fields in their types.
TypeOKInstances ==
    /\ TypeOK
    /\ instanceType \in InstanceNames
    /\ \/ TypeofIsString(instanceConfig) /\ instanceConfig \in ConfigCodes
       \/ instanceConfig \in {Undefined, EmptyObj}
    /\ volumeType \in {Undefined} \cup {Volumes[i].volume_type : i \in DOMAIN Volumes}

\* Whenever the user can submit with the provider the page's reset chose,
\* the server_type getCloudProviderExtraVars reads (lines 99-102) is an
\* instance config code of that provider or, on the custom tab, the custom
\* server type: it neither throws on instanceConfig.code nor sends the
\* {} of the reset's fallback, whatever tabs and boxes the user clicked
\* before or after the reset (handleInstanceTypeChange writes element 0
\* of the new tab, the reset writes element 0 of small).
ServerTypeSubmittable ==
    Interactive /\ form["provider"] \in Nat
        => \/ instanceType = "custom" /\ ServerType(SERVER_TYPE) = SERVER_TYPE
           \/ TypeofIsString(ServerType(SERVER_TYPE)) /\ ServerType(SERVER_TYPE) \in ConfigCodes

=============================================================================
