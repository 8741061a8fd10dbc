# TLA+ models of the cluster console's form-to-request engine

The repository is the browser front end of a PostgreSQL cluster console.
Its logic is in `src/console/ui/src/shared/lib/clusterValuesTransformFunctions.ts`
(called the transform file below). It maps the cluster form into a
cluster-creation request, which holds these parts:

- **extra_vars**: the settings passed to Ansible;
- **envs**: "KEY=value" strings, among them an Ansible inventory for local
  machines;
- **name, environment, project, secret id and `existing_cluster` flag.**

The YAML tab of the page (`widgets/yaml-editor-form/lib/functions.ts`) shows
the same extra_vars as an editable document. When the user submits from this
tab, the parsed document replaces the form's extra_vars.

The add-cluster page (`pages/add-cluster/ui/index.tsx`) loads four queries and
resets the form from their data in an effect. It hides the form behind a
spinner while loading. All other files under `src/` are rendering, types or
formatting.

## Inventory of the system

| Part | Source | Kind | Module |
|---|---|---|---|
| Extra-vars builder | transform file 60-185, 493-607 | pure functions | `ExtraVars` |
| Extension resolver | transform file 462-481 | fold | `ExtraVars` |
| Parameter-block parser, SSH key split | transform file 39-48, 107-109 | text conversion | `ParamParser` |
| Inventory/host mapper | transform file 197-454 | pure functions | `Inventory` |
| Request assembler | transform file 618-739 | pure function that mutates its input | `RequestAssembler` |
| YAML preview and parse | yaml-editor-form `functions.ts` 18-40 | pure functions | `RequestAssembler` |
| Add-cluster page | `pages/add-cluster/ui/index.tsx` | async queries, effect, user input | `AddClusterPage` |
| Instance type selector | `entities/cluster/instances-block/ui/index.tsx` 17-97 | user input on form fields | `InstanceSelector`, composed with the page in `AddClusterInstances` |
| PostgreSQL version select | `entities/cluster/postgres-version-block/ui/index.tsx` 23-41 | user input on a form field | `AddClusterInstances` (`SelectPostgresVersion`) |
| Form defaults | `widgets/cluster-form/model/constants.ts` 65-115 | data | initial state of `AddClusterInstances`, harness input domains |
| Everything else | tables, sidebars, breadcrumbs, utilities | rendering, formatting | not modelled |

`JsValues` holds no code of the repository. It supplies the JavaScript
semantics the code relies on:
- an object is a function from key strings;
- `{...a, ...b}` is `b @@ a`;
- `undefined` is a model value;
- `typeof x === 'string'` is tested on TLC's printed form of the value;
- `YAML.parse(YAML.stringify(o))` drops the keys that hold undefined.

PROJECT.json lists every component with its status. It also lists every
hazard at its source line, with the properties that cover it.

## Modules and how they correspond to the code

- **`ExtraVars`**: one operator per builder, each taking a form value `v`,
  which is a record of the fields the code reads.
  - The provider object and the region and instance selections are
    abstracted to their codes.
  - Parameter texts and SSH keys are opaque values here; their conversion is
    modelled in `ParamParser`.
  - `IS_EXPERT_MODE` is a build-time constant, so it is a CONSTANT set per
    run.
- **`Inventory`** (EXTENDS `ExtraVars`): `configureHosts` is a fold of object
  spreads keyed by IP address, so duplicate addresses collide as they do in
  the code. It is followed by `constructDcsEnvs` (the five branches, plus
  `undefined`), `constructBalancersEnvs` and `getLocalMachineEnvs`. The
  username at line 389 is kept as the code has it.
- **`MCInventory`**: picks a form value and a secretId, then performs the
  local-machine half of a submit: `getLocalMachineEnvs` together with
  `getLocalMachineExtraVars`.
- **`ParamParser`**: a text is a sequence over an alphabet:
  - `a` stands for any ordinary character;
  - `SP` is a space;
  - `NL` and `CR` are the line breaks;
  - `:` and `=` are the separators.

  `SplitOn` follows `String.prototype.split` with a character class: n
  delimiters give n+1 pieces. `ConvertLine` throws (`TypeError`) exactly
  where `values?.[1].trim()` does. `SpecParameters` is the contract of
  spec.md 4.1, which splits on the first separator, kept as the reference.
  One behaviour converts one text with each conversion.
- **`RequestAssembler`** (EXTENDS `Inventory`):
  - `convertObjectValueToBase64Format` encodes a value as base64 of the value
    itself when `typeof value === 'string'`, and as base64 of its JSON
    otherwise. Both encodings are injective and are modelled as tagged
    records.
  - The envs array becomes a function from key to value part. Its keys come
    from an object, so they are distinct.
  - `mapFormValuesToRequestFields` returns the request together with the
    document it leaves behind, minus `environment_id` and `description`, as
    the in-place `delete` does.
- **`MCRequestAssembler`**: the form is filled. In YAML mode the editor is
  opened on the preview (`OpenYamlEditor`) and may be left holding text that
  does not parse (`BreakYaml`). Then the request is built once (`Submit`).
  - The caller of the mapper is not under `src/`.
  - These three actions follow spec.md 4.4, which passes `customExtraVars`
    only for a YAML submit. They are marked spec-modelled in the map.
- **`AddClusterPage`**: models the page's four queries and how they drive
  the form.
  - **State:**
    - each query's status and data, where data is a version counter plus
      "empty";
    - the effect's last dependencies;
    - the four fields the reset writes, each holding its default, a data
      version or a user edit;
    - `isResetting` and the pending `.then` callbacks.
  - **Actions:**
    - `QueryResolves`: new content is a new object; equal content keeps the
      object, as RTK Query's structural sharing does.
    - `Refetch`.
    - `Effect`: runs when a dependency changed; it calls `ResetForm` when the
      guard of lines 62-67 holds.
    - `ResetSettled`: the `.then` microtask.
    - `UserEdit`: only while the form is visible, and only when no effect is
      pending, because React flushes passive effects before it handles the
      next input.

- **`InstanceSelector`**: the selector's tabs and panels, both computed from
  the provider's `instance_types` (plus the `custom` tab in expert mode).
  - `ChangeInstanceType` is `handleInstanceTypeChange`: MUI calls it only
    for a tab other than the selected one, and it writes the type and the
    type's first config.
  - `ChangeInstanceConfig` is a click on a box of the shown panel.
  - `ActiveConfigs` are the boxes drawn active: `isActive` is
    `value?.code === config.code` (line 83).
  - `ResetInstanceConfig` is the page reset's write at line 77. It uses
    `small`, whatever the type.
  - `ServerType` is `server_type` as `getCloudProviderExtraVars` reads it.
    It throws on an undefined config and is undefined on `{}`.
- **`AddClusterInstances`**: composes the page and the selector.
  - The page's effect also performs the reset's write of `instanceConfig`.
  - The selector acts only while the form is shown and no effect is pending.
  - Before the first reset the form holds no provider, so the selector has
    no instance types. `instanceType` starts at the default `small` of
    `CLUSTER_FORM_DEFAULT_VALUES`; `instanceConfig` starts unset.
  - In expert mode the reset also writes `volumeType` (lines 81-87).
    `DefaultVolumeType` is the provider's `is_default` volume, else its
    first volume, else undefined. `volumeType` starts unset because the
    defaults do not list it.
  - `SelectPostgresVersion` is the version Select of `PostgresVersionBox`.
    It is the page's user edit of `postgresVersion`, a field the reset
    also writes.
  - `SERVER_TYPE` is the custom server type of the expert-mode defaults
    (`''`). The custom tab sends it as `server_type`.

## Runs

| Run | Expect | What it shows |
|---|---|---|
| `inventory_expert` | pass | For every expert DCS and balancer topology on 3 addresses with 1-3 database servers (a master with zero, one or two replicas): the master/replica groups partition distinct servers, and the inventory agrees with `dcs_exists` in extra_vars. When consul is deployed on its own servers, each of those servers keeps the server role even when it shares an address with a database server. |
| `inventory_standard_etcd` | violation | Standard mode never gets an etcd group: `constructDcsEnvs` waits for `isDeployNewCluster`, which the standard form does not set. |
| `inventory_password` | violation | `ansible_ssh_pass` in the inventory is the username (line 389). |
| `parser` | pass | Every text of up to 5 characters: lines with exactly one separator parse as the spec says. |
| `parser_first_separator` | violation | `a=b=c` keeps `b`, not `b=c`. |
| `parser_line_breaks` | violation | How lines are broken changes what is sent: with a trailing newline or `\r\n` the parameter parser throws and the SSH key split sends `''`. The shortest case is the text `"\n"`. |
| `assembler` | pass | Expert mode, for every provider (local, aws, gcp), creation type, existing-cluster flag and backup tool. Submitting the unedited YAML preview sends the request the form submit sends. It has the same name, environment, project, secret, target path, envs and `existing_cluster`. Its extra_vars are the form's less the two promoted keys. Every request carries the form's extensions as spec.md 4.2 resolves them (`ExtensionsResolvedAsSpecified`): `postgresql_extensions` in entry order, absent when no entry has a database, and `enable_<name>` exactly for third-party entries that have one. The YAML tab exists only when `IS_EXPERT_MODE && IS_YAML_ENABLED` (index.tsx line 117), so `OpenYamlEditor` is guarded by both flags. Password authentication is checked by `assembler_saved_secret`. |
| `assembler_saved_secret` | violation | Expert mode with the YAML tab enabled, password authentication and a saved secret: the YAML submit puts `ansible_user` and `ansible_ssh_pass` in extra_vars next to `auth_info.secret_id`, because the preview (functions.ts line 21) calls `getLocalMachineExtraVars` without the secretId. |
| `page_initialisation` | pass | The composed page and selector in expert mode, with non-empty answers and two refetches. The page always ends up showing the form, each field reset from the latest data or edited by the user (`EventuallyInitialised`). Whenever the user can submit with the provider the reset chose, `server_type` is a config code of that provider or the custom server type (`ServerTypeSubmittable`). This holds whatever tabs and boxes were clicked before or after the reset: it never throws on `.code` and never sends the reset's `{}` fallback. The catalogue has no empty list and always has a `small` list, so the two hazards of that kind (instances-block line 42, index.tsx line 77) are not reached by any run. |
| `page_late_cluster_name` | violation | The cluster-name query answering last resets fields the user already edited, because the spinner at line 111 does not wait for it. |
| `page_empty_list` | violation | An empty list leaves the form at its defaults forever. The fallbacks at lines 78-79 are dead. |
| `page_stale_instance_config` | violation | The user picks the `medium` tab before a reset; that happens when the cluster name answers last, or after a refetch. The reset then writes the first `small` config and keeps `medium`, so the submit would send a small `server_type` while no box of the medium panel is active. |

Every property of a passing run has a mutant in PROJECT.json: a plausible bug
in the mapped definition that TLC shows breaks it. Examples:
- `slice(0)` for `slice(1)`;
- the consul spreads swapped;
- the value left untrimmed;
- the delete moved before the request fields are read;
- the third-party flag set for an extension with no database;
- a dependency dropped from the effect;
- `[1]` for `[0]` when a tab is opened;
- the reset's readiness guard dropped.

## Bounds and why they are enough

- **Three IP addresses and up to 3 database servers** give every collision
  between DCS, balancer and database addresses, a master with no, one and
  two replicas, and every DCS branch (1,287,936 states, about two minutes).
- **Texts of up to 5 characters** over 6 symbols (9,331 texts) contain:
  - every line shape: empty line, no separator, one separator, two
    separators;
  - surrounding spaces;
  - both line breaks and `\r\n`.
- **The assembler's domains** cover both targets, both creation types and
  both backup tools. The values of fields that only flow through are fixed.
  The extensions vary for an AWS cluster over `MCExtensionValues`, 58
  values. They include:
  - no entry;
  - every single entry over two extensions, with 0-2 indexes into two
    databases, third-party or not;
  - pairs in both orders, with and without a database.
  That covers dropped entries, a dropped third-party flag, repeated and
  reversed indexes, and entry order.
- **One refetch** is enough to re-run the effect after the first reset.
  `page_initialisation` allows two (27,515 states): the user can work the
  selector between a first and a second late reset.
- **The instance catalogue** has two `small` configs, one `medium` config and
  a `large` type answered as `null`, so there is:
  - a type with several boxes;
  - a type with one box;
  - a hidden tab.
  It has no empty list and no provider without `small`; those answers of
  the deployments API are listed as unchecked hazards.

## Fairness

`AddClusterPage` (and `AddClusterInstances`, which reuses its `Fairness`) assumes weak fairness of the following; the selector, like every user action, gets none. The user and the
cache owe nothing.
- **The server answering each query.** A request that never returns is out
  of scope.
- **React running a pending effect.**
- **The microtask queue running the `.then` callback.**

The other harnesses describe one call that returns, so their cfgs set
`CHECK_DEADLOCK FALSE`. So does the page model, which ends waiting for input.

## Not modelled

- The REST client, routing and the secret modal are outside `src/`. The
  constants they supply (provider codes, secret field names) are CONSTANTS or
  fixed strings.
- The tab switch between form and YAML (lines 117-128) is not modelled.
  - Its `Controller` only writes `creationType`.
  - The assembler harness enumerates both values of `creationType`.
  - `constants.ts` under `src/` defines neither `CLUSTER_CREATION_TYPES` nor
    `CLUSTER_FORM_FIELD_NAMES.CREATION_TYPE`, which the page imports, so this
    part of the repository is incomplete.
- The provider picker and the custom-instance form are outside `src/`.
  `ServerTypeOfShownType` therefore covers only the provider the page's
  reset wrote.
- User edits of the YAML text other than breaking it are not modelled.
- A second submit of the same mutated document is not modelled; its caller
  is outside `src/`.
- The order of the envs strings is not modelled. No property depends on it.
- The settings pages (AddProject and the table buttons) are not modelled.
  `AddProject.onSubmit` awaits one mutation and then toasts. The mutation
  state, the form and the handling of a rejected `unwrap()` are in the API
  layer and `SettingsAddEntity`, both outside `src/`.
- `shared/lib/functions.ts` is not modelled. It holds path generation,
  timestamp formatting and the sort-order string, which have no state.
- Out-of-range extension indexes are not checked. The extensions block that
  writes them is outside `src/`. `ExtensionsResolvedAsSpecified` covers
  every in-range index.
- A provider without volumes (expert volume type) is modelled by
  `DefaultVolumeType`, but no property states what it should send.
- `constants.ts` under `src/` defines neither
  `CLUSTER_FORM_FIELD_NAMES.IS_CLUSTER_EXISTS` (read by
  `getLocalMachineExtraVars`, line 152) nor
  `DATABASE_SERVERS_FIELD_NAMES.IS_CLUSTER_EXISTS` (read by
  `getLocalMachineEnvs` at line 420 and `mapFormValuesToRequestFields` at
  line 679). The models assume both name one form field, `isClusterExists`.
