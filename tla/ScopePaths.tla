----------------------------- MODULE ScopePaths -----------------------------
(***************************************************************************)
(* Path scopes of rule exclusions: the scope the analyzer proposes for a   *)
(* group of requests (tuning_service.py), the scope check it makes against *)
(* stored exclusions, and the control rules the renderer writes for one    *)
(* (config_renderer.py).                                                   *)
(*                                                                         *)
(* A path is the sequence of its characters: the path of a request, cut    *)
(* before its query string, which the analyzer takes only if it begins     *)
(* with a slash (scope_path_for).                                          *)
(***************************************************************************)
EXTENDS Integers, FiniteSets, Sequences, SequencesExt

CONSTANTS
    None,           \* no scope: the exclusion applies to every path
    Character

Slash == "/"
QuestionMark == "?"

ASSUME CharacterAssumption == {Slash, QuestionMark} \subseteq Character

\* scope_path_for
IsPath(path) ==
    /\ path \in Seq(Character) /\ path # <<>> /\ path[1] = Slash
    /\ \A i \in DOMAIN path : path[i] # QuestionMark

EndsInSlash(path) == Last(path) = Slash

\* _within_scope
WithinScope(path, scope) ==
    IF EndsInSlash(scope)
    THEN IsPrefix(scope, path)
    ELSE path = scope \/ IsPrefix(Append(scope, Slash), path)

\* How much of a path its first segments, any number of them, take up.
Cuts(path) == {n \in 0 .. Len(path) : n = Len(path) \/ path[n + 1] = Slash}

\* What all paths begin with, in whole segments.
SharedSegments(paths) ==
    LET one == CHOOSE p \in paths : TRUE
        shared == {n \in Cuts(one) :
                      \A p \in paths : n \in Cuts(p) /\ SubSeq(p, 1, n) = SubSeq(one, 1, n)}
    IN  SubSeq(one, 1, Max(shared))

\* common_scope_path
CommonScope(paths) ==
    LET shared == SharedSegments(paths)
    IN  IF None \in paths \/ paths = {} THEN None
        ELSE IF shared \in paths THEN shared
        ELSE Append(shared, Slash)

\* A request: its path and whether a query string follows.
RawUri(uri) == uri.path \o IF uri.query THEN <<QuestionMark>> ELSE <<>>

\* Mutant: the rule for a query string is missing.
ScopeMatchersNoQuery(scope, uri) ==
    IF EndsInSlash(scope)
    THEN {[rule |-> 0, fires |-> IsPrefix(scope, RawUri(uri))]}
    ELSE {[rule |-> 0, fires |-> RawUri(uri) = scope],
          [rule |-> 2, fires |-> IsPrefix(Append(scope, Slash), RawUri(uri))]}

\* Mutant: a bare @beginsWith.
ScopeMatchersBare(scope, uri) ==
    {[rule |-> 0, fires |-> IsPrefix(scope, RawUri(uri))]}

\* RuleExclusionRenderContext.scope_matchers: the number of the control rule and
\* whether it fires on a request.
ScopeMatchers(scope, uri) ==
    IF EndsInSlash(scope)
    THEN {[rule |-> 0, fires |-> IsPrefix(scope, RawUri(uri))]}
    ELSE {[rule |-> 0, fires |-> RawUri(uri) = scope],
          [rule |-> 1, fires |-> IsPrefix(Append(scope, QuestionMark), RawUri(uri))],
          [rule |-> 2, fires |-> IsPrefix(Append(scope, Slash), RawUri(uri))]}
=============================================================================
