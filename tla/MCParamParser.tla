--------------------------- MODULE MCParamParser ---------------------------
(* Every text of up to MCMaxLen characters over the alphabet below.        *)
EXTENDS ParamParser

MCChars == {"a", "SP", "NL", "CR", ":", "="}
MCMaxLen == 5
=============================================================================
