-------------------------- MODULE InstanceSelector --------------------------
(***************************************************************************)
(* The instance type selector of the cloud form,                           *)
(* src/console/ui/src/entities/cluster/instances-block/ui/index.tsx: one  *)
(* tab per instance type of the selected provider (plus "custom" in       *)
(* expert mode), and in the panel of the selected tab one box per         *)
(* instance config.  The form fields it writes are instanceType and       *)
(* instanceConfig; getCloudProviderExtraVars turns them into server_type. *)
(*                                                                         *)
(* An instance config is abstracted to its code.  The provider's          *)
(* instance_types is a function from type name to a sequence of codes, or *)
(* to NoList for a type the provider answers null for.                    *)
(***************************************************************************)
EXTENDS JsValues

CONSTANTS
    IS_EXPERT_MODE,     \* the build-time expert mode flag
    InstanceTypes,      \* providers[0].instance_types of the deployments answer
    NoList,             \* an instance type the provider has no list for
    CustomPanel,        \* the <CustomInstance /> element of the custom tab
    TypeError           \* reading .code of undefined throws

VARIABLES
    instanceType,       \* the instanceType form field
    instanceConfig      \* the instanceConfig form field: a code, {} or undefined

selVars == <<instanceType, instanceConfig>>

-----------------------------------------------------------------------------
(* pit is watchProvider?.instance_types ?? {}: the provider's instance     *)
(* types once the form holds a provider, {} before.                        *)

\* IS_EXPERT_MODE ? {...providerInstanceTypes, custom: <CustomInstance/>}
\*                : providerInstanceTypes
Instances(pit) == IF IS_EXPERT_MODE THEN ("custom" :> CustomPanel) @@ pit ELSE pit

\* The tabs: Object.entries(instances) with a truthy value.
Tabs(pit) == {k \in DOMAIN Instances(pit) : Instances(pit)[k] # NoList}

\* Whether instances[t] is an array of configs.
IsList(pit, t) == t \in DOMAIN Instances(pit) /\ Instances(pit)[t] \notin {NoList, CustomPanel}

\* Mutant: the second config of the tab (an off-by-one on [0]).
FirstConfigSecond(pit, t) == IF IsList(pit, t) THEN At(Instances(pit)[t], 1) ELSE Undefined

\* instances?.[value]?.[0]: the custom element and an empty list have no
\* element 0.
FirstConfig(pit, t) == IF IsList(pit, t) THEN At(Instances(pit)[t], 0) ELSE Undefined

\* The boxes of the panel of tab t: Array.isArray(configs) ? configs : [].
PanelConfigs(pit, t) == IF IsList(pit, t) THEN ToSet(Instances(pit)[t]) ELSE {}

\* The boxes of the shown panel drawn active: isActive is
\* value?.code === config.code, false for an undefined or {} value.
ActiveConfigs(pit) ==
    {c \in PanelConfigs(pit, instanceType) : TypeofIsString(instanceConfig) /\ c = instanceConfig}

\* handleInstanceTypeChange: TabList calls onChange only for a tab other
\* than the selected one; onChange(value) and then
\* setValue(INSTANCE_CONFIG, instances?.[value]?.[0]).
ChangeInstanceType(pit, t) ==
    /\ t \in Tabs(pit)
    /\ t # instanceType
    /\ instanceType' = t
    /\ instanceConfig' = FirstConfig(pit, t)

\* handleInstanceConfigChange: a box of the shown panel is clicked.
ChangeInstanceConfig(pit, c) ==
    /\ c \in PanelConfigs(pit, instanceType)
    /\ instanceConfig' = c
    /\ UNCHANGED instanceType

\* The page's reset (add-cluster index.tsx line 77) writes
\* providers[0]?.instance_types?.small?.[0] ?? {} and keeps instanceType
\* through ...values.
ResetInstanceConfig ==
    /\ instanceConfig' = LET small == Get(InstanceTypes, "small")
                         IN IF small \in {Undefined, NoList} \/ At(small, 0) = Undefined
                            THEN EmptyObj ELSE At(small, 0)
    /\ UNCHANGED instanceType

\* server_type of getCloudProviderExtraVars (lines 99-102) for the custom
\* server type st: values[INSTANCE_CONFIG].code throws on undefined and is
\* undefined on {}.
ServerType(st) ==
    CASE instanceType = "custom"          -> st
      [] TypeofIsString(instanceConfig)   -> instanceConfig
      [] instanceConfig = Undefined       -> TypeError
      [] OTHER                            -> Undefined

=============================================================================
