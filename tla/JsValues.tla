------------------------------ MODULE JsValues ------------------------------
(***************************************************************************)
(* The JavaScript value semantics the transform functions rely on.         *)
(* A JavaScript object is a TLA+ function from key strings to values (so a *)
(* record literal is an object literal), an array is a sequence, and       *)
(* undefined is the model value Undefined.  Nothing here models code of    *)
(* the repository: it is the language the code is written in.             *)
(***************************************************************************)
EXTENDS Integers, Sequences, SequencesExt, TLC

CONSTANT Undefined          \* the JavaScript value undefined

\* {}
EmptyObj == [k \in {} |-> Undefined]

\* Spreading undefined into an object literal adds nothing.
AsObj(o) == IF o = Undefined THEN EmptyObj ELSE o

\* {...a, ...b}: a key of b overrides the same key of a.
Spread(a, b) == AsObj(b) @@ AsObj(a)

\* {...o1, ...o2, ..., ...on}, spread left to right.
SpreadAll(objs) == FoldLeft(Spread, EmptyObj, objs)

\* ...(cond ? o : {})
When(cond, o) == IF cond THEN o ELSE EmptyObj

\* o?.[k]
Get(o, k) == IF o # Undefined /\ k \in DOMAIN o THEN o[k] ELSE Undefined

\* delete o[k] for every k in ks
Omit(o, ks) == [k \in DOMAIN o \ ks |-> o[k]]

\* lodash isEmpty on an object or undefined
IsEmptyObj(o) == o = Undefined \/ DOMAIN o = {}

\* arr[i] with a 0-based index; out of range reads undefined.
At(arr, i) == IF i + 1 \in DOMAIN arr THEN arr[i + 1] ELSE Undefined

\* arr.slice(1)
SliceFrom1(arr) == IF arr = <<>> THEN <<>> ELSE Tail(arr)

\* typeof x === 'string': TLC prints a string value, and only a string
\* value, with a leading double quote.
TypeofIsString(x) == SubSeq(ToString(x), 1, 1) = "\""

\* A serialisation (JSON.stringify, YAML.stringify) drops the keys whose
\* value is undefined; parsing the text back gives the remaining keys.
DropUndefined(o) == [k \in {k \in DOMAIN o : o[k] # Undefined} |-> o[k]]

=============================================================================
