---------------------------- MODULE ParamParser ----------------------------
(***************************************************************************)
(* The text conversions of clusterValuesTransformFunctions.ts:             *)
(* convertModalParametersToArray, which turns the free-text PostgreSQL,   *)
(* kernel and backup parameter blocks into {option, value} pairs, and the *)
(* ssh_public_keys conversion of getCloudProviderExtraVars.  A text is a   *)
(* sequence of characters over a small alphabet: "a", "b" stand for any    *)
(* ordinary character, "SP" for a space, "NL" and "CR" for the line        *)
(* breaks \n and \r, and ":" and "=" for the two separators.               *)
(*                                                                         *)
(* A behaviour is one call: the text held by the form field is converted   *)
(* once by each conversion.                                                *)
(***************************************************************************)
EXTENDS JsValues

CONSTANTS
    Chars,          \* the alphabet
    MaxLen          \* the longest text checked

ASSUME {"SP", "NL", "CR", ":", "="} \subseteq Chars /\ MaxLen \in Nat

VARIABLES
    text,           \* the value of the form field
    params,         \* convertModalParametersToArray(text), once called
    sshKeys         \* the ssh_public_keys value built from text, once called

vars == <<text, params, sshKeys>>

CONSTANTS
    NotCalled,      \* the conversion has not run yet
    TypeError,      \* the call throws
    NoKeys          \* ssh_public_keys is absent from extra_vars

-----------------------------------------------------------------------------
(* The code.                                                               *)

LineBreaks == {"NL", "CR"}          \* /[\n\r]/
Separators == {":", "="}            \* /[:=]/

\* String.prototype.split with a one-character class: every occurrence of a
\* delimiter ends a piece, so n delimiters give n + 1 (possibly empty) pieces.
RECURSIVE SplitOn(_, _)
SplitOn(s, D) ==
    LET i == SelectInSeq(s, LAMBDA c : c \in D)
    IN IF i = 0 THEN <<s>>
       ELSE <<SubSeq(s, 1, i - 1)>> \o SplitOn(SubSeq(s, i + 1, Len(s)), D)

\* String.prototype.trim on a line (which holds no line break).
Trim(s) ==
    LET first == SelectInSeq(s, LAMBDA c : c # "SP")
        last == SelectLastInSeq(s, LAMBDA c : c # "SP")
    IN IF first = 0 THEN <<>> ELSE SubSeq(s, first, last)

\* Mutant: the value is taken untrimmed.
ConvertLineUntrimmedValue(line) ==
    LET values == SplitOn(line, Separators)
    IN IF Len(values) < 2 THEN TypeError
       ELSE [option |-> Trim(values[1]), value |-> values[2]]

\* Mutant: values?.[1]?.trim(), a line without separator gets an undefined value.
ConvertLineOptionalValue(line) ==
    LET values == SplitOn(line, Separators)
    IN [option |-> Trim(values[1]),
        value |-> IF Len(values) < 2 THEN Undefined ELSE Trim(values[2])]

\* values?.[1].trim() throws when the line holds no separator.
ConvertLine(line) ==
    LET values == SplitOn(line, Separators)
    IN IF Len(values) < 2 THEN TypeError
       ELSE [option |-> Trim(values[1]), value |-> Trim(values[2])]

convertModalParametersToArray(value) ==
    IF Len(value) = 0 THEN value
    ELSE LET lines == SplitOn(value, LineBreaks)
             converted == [i \in DOMAIN lines |-> ConvertLine(lines[i])]
         IN IF \E i \in DOMAIN converted : converted[i] = TypeError THEN TypeError
            ELSE converted

\* `'${key}'`
Quote(key) == <<"'">> \o key \o <<"'">>

\* ...(sshPublicKey?.length ? { ssh_public_keys: split(/[\n\r]/).map(quote) } : {})
SshPublicKeys(value) ==
    IF Len(value) = 0 THEN NoKeys
    ELSE LET keys == SplitOn(value, LineBreaks)
         IN [i \in DOMAIN keys |-> Quote(keys[i])]

-----------------------------------------------------------------------------
(* The contract spec.md 4.1 states: each line splits on the FIRST ":" or   *)
(* "=" into {option, value}, both trimmed; empty input is returned as is.  *)

SpecLine(line) ==
    LET i == SelectInSeq(line, LAMBDA c : c \in Separators)
    IN [option |-> Trim(SubSeq(line, 1, i - 1)), value |-> Trim(SubSeq(line, i + 1, Len(line)))]

SpecParameters(value) ==
    IF Len(value) = 0 THEN value
    ELSE LET lines == SplitOn(value, LineBreaks)
         IN [i \in DOMAIN lines |-> SpecLine(lines[i])]

Lines == SplitOn(text, LineBreaks)
SeparatorCount(line) == Len(SelectSeq(line, LAMBDA c : c \in Separators))

\* The text with every \r\n turned into \n and one trailing line break
\* dropped.
UnixLines(s) ==
    LET keep == SelectSeq([i \in 1..Len(s) |-> i],
                          LAMBDA i : ~(s[i] = "CR" /\ i < Len(s) /\ s[i + 1] = "NL"))
        lf == [j \in DOMAIN keep |-> s[keep[j]]]
    IN IF lf # <<>> /\ Last(lf) \in LineBreaks THEN Front(lf) ELSE lf

-----------------------------------------------------------------------------
Texts == UNION {[1..n -> Chars] : n \in 0..MaxLen}

Init ==
    /\ text \in Texts
    /\ params = NotCalled
    /\ sshKeys = NotCalled

ConvertParameters ==
    /\ params = NotCalled
    /\ params' = convertModalParametersToArray(text)
    /\ UNCHANGED <<text, sshKeys>>

ConvertSshKeys ==
    /\ sshKeys = NotCalled
    /\ sshKeys' = SshPublicKeys(text)
    /\ UNCHANGED <<text, params>>

Next == ConvertParameters \/ ConvertSshKeys

Spec == Init /\ [][Next]_vars

-----------------------------------------------------------------------------
Pair == [option : Seq(Chars), value : Seq(Chars)]
Quoted == Seq(Chars \cup {"'"})

TypeOK ==
    /\ text \in Texts
    /\ params \in {NotCalled, TypeError} \cup Seq(Pair) \cup {<<>>}
    /\ sshKeys \in {NotCalled, NoKeys} \cup Seq(Quoted)

\* On a text whose every line holds exactly one separator, the conversion
\* gives, line by line and in order, the trimmed text before the separator
\* as option and the trimmed text after it as value
\* (convertModalParametersToArray).
ParseMatchesSpecOnSimpleLines ==
    params # NotCalled /\ Len(text) > 0 /\ (\A i \in DOMAIN Lines : SeparatorCount(Lines[i]) = 1)
        => params = SpecParameters(text)

\* spec.md 4.1: on every text whose lines all hold a separator, the
\* conversion splits each line on its FIRST separator
\* (convertModalParametersToArray).
ParseMatchesSpec ==
    params # NotCalled /\ Len(text) > 0 /\ (\A i \in DOMAIN Lines : SeparatorCount(Lines[i]) >= 1)
        => params = SpecParameters(text)

\* The way the lines are broken changes neither conversion: a text with
\* \r\n line breaks or a trailing line break converts, parameters and SSH
\* keys alike, as the same lines broken by \n without the trailing break
\* (convertModalParametersToArray and the ssh_public_keys split).
LineBreakStyleIgnored ==
    params # NotCalled /\ sshKeys # NotCalled =>
        /\ params = convertModalParametersToArray(UnixLines(text))
        /\ sshKeys = SshPublicKeys(UnixLines(text))

=============================================================================
