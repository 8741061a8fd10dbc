-------------------------- MODULE RequestAssembler --------------------------
(***************************************************************************)
(* The request assembler of clusterValuesTransformFunctions.ts             *)
(* (convertObjectValueToBase64Format, getRequestCloudParams,               *)
(* getRequestLocalMachineParams, mapFormValuesToRequestFields) and the     *)
(* YAML preview of widgets/yaml-editor-form/lib/functions.ts               *)
(* (mapFormValuesToYamlEditor, getParsedYamlEditorValues).                 *)
(*                                                                         *)
(* The envs array of "key=value" strings is modelled as the function from *)
(* key to value part (its keys come from an object, so they are distinct; *)
(* no property depends on their order).  base64 and JSON.stringify are    *)
(* injective encodings, modelled as tagged records.                        *)
(***************************************************************************)
EXTENDS Inventory

CONSTANTS
    SecretFieldNames,   \* the keys of SECRET_MODAL_CONTENT_BODY_FORM_FIELDS
    InvalidYaml         \* the editor holds text YAML.parse rejects

Base64(text) == [base64 |-> text]
JsonStringify(value) == [json |-> value]

\* `${key}=${btoa(typeof value === 'string' ? value : JSON.stringify(value))}`
convertObjectValueToBase64Format(object) ==
    [k \in DOMAIN object |->
        Base64(IF TypeofIsString(object[k]) THEN object[k] ELSE JsonStringify(object[k]))]

\* A secret field value is a string or undefined.
Truthy(x) == x # Undefined /\ x # ""

getRequestCloudParams(v, secretsInfo, customExtraVars) ==
    LET secretsObject == [k \in {k \in DOMAIN secretsInfo : k \in SecretFieldNames
                                                         /\ Truthy(secretsInfo[k])}
                            |-> secretsInfo[k]]
    IN [envs |-> IF v.provider = "gcp"
                 THEN convertObjectValueToBase64Format(secretsObject)
                 ELSE secretsObject,
        extra_vars |-> IF customExtraVars # Undefined THEN customExtraVars
                       ELSE Spread(getBaseClusterExtraVars(v), getCloudProviderExtraVars(v))]

\* x?.toString() === 'true' for the scalars a YAML document holds.
ToStringIsTrue(x) == ToString(x) \in {"TRUE", "\"true\""}

\* Mutant: existing_cluster passed on from the document as it is.
LocalParamsRawExistingCluster(v, secretId, customExtraVars) ==
    [envs |-> convertObjectValueToBase64Format(getLocalMachineEnvs(v, secretId)),
     extra_vars |-> IF customExtraVars # Undefined THEN customExtraVars
                    ELSE Spread(getBaseClusterExtraVars(v), getLocalMachineExtraVars(v, secretId)),
     existing_cluster |-> IF v.creationType = "yaml"
                          THEN Get(customExtraVars, "existing_cluster")
                          ELSE v.isClusterExists]

getRequestLocalMachineParams(v, secretId, customExtraVars) ==
    [envs |-> convertObjectValueToBase64Format(getLocalMachineEnvs(v, secretId)),
     extra_vars |-> IF customExtraVars # Undefined THEN customExtraVars
                    ELSE Spread(getBaseClusterExtraVars(v), getLocalMachineExtraVars(v, secretId)),
     existing_cluster |-> IF v.creationType = "yaml"
                          THEN ToStringIsTrue(Get(customExtraVars, "existing_cluster"))
                          ELSE v.isClusterExists]

\* (creationType === YAML && customExtraVars?.cloud_provider) ||
\* (creationType === FORM && provider?.code !== PROVIDERS.LOCAL)
IsCloudTarget(v, custom) ==
    \/ v.creationType = "yaml" /\ Truthy(Get(custom, "cloud_provider"))
    \/ v.creationType = "form" /\ v.provider # "local"

\* Mutant: the two keys are deleted before baseObject reads them.
MapDeleteBeforeBase(v, secretId, projectId, secretsInfo, customExtraVars) ==
    LET custom == IF IsEmptyObj(customExtraVars) THEN customExtraVars
                  ELSE Omit(customExtraVars, {"environment_id", "description"})
        isYaml == v.creationType = "yaml"
        baseObject == SpreadAll(<<
            IF isYaml
            THEN [name |-> Get(custom, "patroni_cluster_name"),
                  environment_id |-> Get(custom, "environment_id"),
                  description |-> Get(custom, "description")]
            ELSE [name |-> v.clusterName, environment_id |-> v.environment,
                  description |-> v.description],
            When(secretId # NoSecret, [auth_info |-> [secret_id |-> secretId]]),
            [project_id |-> projectId] >>)
        isCloud == IsCloudTarget(v, custom)
    IN [request |-> Spread(baseObject,
                           IF isCloud THEN getRequestCloudParams(v, secretsInfo, custom)
                           ELSE getRequestLocalMachineParams(v, secretId, custom)),
        customExtraVars |-> custom]

\* The call returns the request and leaves customExtraVars without its
\* environment_id and description (deleted in place).
mapFormValuesToRequestFields(v, secretId, projectId, secretsInfo, customExtraVars) ==
    LET isYaml == v.creationType = "yaml"
        baseObject == SpreadAll(<<
            IF isYaml
            THEN [name |-> Get(customExtraVars, "patroni_cluster_name"),
                  environment_id |-> Get(customExtraVars, "environment_id"),
                  description |-> Get(customExtraVars, "description")]
            ELSE [name |-> v.clusterName, environment_id |-> v.environment,
                  description |-> v.description],
            When(secretId # NoSecret, [auth_info |-> [secret_id |-> secretId]]),
            [project_id |-> projectId] >>)
        custom == IF IsEmptyObj(customExtraVars) THEN customExtraVars
                  ELSE Omit(customExtraVars, {"environment_id", "description"})
        isCloud == IsCloudTarget(v, custom)
    IN [request |-> Spread(baseObject,
                           IF isCloud THEN getRequestCloudParams(v, secretsInfo, custom)
                           ELSE getRequestLocalMachineParams(v, secretId, custom)),
        customExtraVars |-> custom]

\* The preview is built without a secretId.
mapFormValuesToYamlEditor(v) ==
    Spread(getBaseClusterExtraVars(v),
           IF v.provider # "local" THEN getCloudProviderExtraVars(v)
           ELSE getLocalMachineExtraVars(v, NoSecret))

\* YAML.parse(YAML.stringify(o)): the keys holding undefined are dropped;
\* a text that does not parse gives undefined.
getParsedYamlEditorValues(doc) ==
    IF doc = InvalidYaml THEN Undefined ELSE doc

=============================================================================
