----------------------------- MODULE RuleTuning -----------------------------
(***************************************************************************)
(* The tuning of one policy: the analyzer that proposes exclusions, their  *)
(* review, the requests that edit exclusions and custom rules,             *)
(* and the rules generate() makes of the rows.                             *)
(*                                                                         *)
(* Transactions run under READ COMMITTED and take no lock when they read:  *)
(* analysis, review and PATCH read rows, decide, and write later.          *)
(*                                                                         *)
(* Left out: messages, samples, the statistics shown in the panel, the     *)
(* lists, overrides, and of custom rules all but their number.             *)
(***************************************************************************)
EXTENDS ScopePaths

CONSTANTS
    Worker,         \* the analyzer's thread and those that serve requests
    Windows,        \* what an analysis may find in the log: sets of events
    Patches,        \* the PATCH requests for an exclusion
    CustomIds,      \* rule numbers of custom rules
    MinEvents,      \* MIN_EVENTS
    MaxRequests,    \* bound: requests and analyses
    Unset           \* a field the PATCH leaves alone

ASSUME TuningAssumption ==
    /\ MinEvents \in Nat \ {0} /\ MaxRequests \in Nat
    /\ \A id \in CustomIds : id \in Nat /\ 9000000 <= id /\ id <= 9099999

\* target_error: a collection needs a member's name, a variable has none.
Renderable(key) == key.collection <=> key.value # None

\* The analyzer drops the matches whose target would not be accepted
\* (exclusion_target), and the path of a request that cannot be a scope.
ASSUME TargetAssumption ==
    /\ \A w \in Windows : \A e \in w :
          /\ DOMAIN e.key = {"rule", "collection", "value"} /\ Renderable(e.key)
          /\ e.path # None => IsPath(e.path)
          /\ e.query \in BOOLEAN
    /\ \A patch \in Patches : DOMAIN patch = {"collection", "value"}

VARIABLES
    policy,         \* the policy is there
    exclusions,     \* rows: [id, key, scope, uris]
    suggestions,    \* rows: [id, key, scope, status, made, uris]
    custom,         \* numbers of the custom rules
    served,
    tx,             \* worker -> open transaction or None
    stale           \* history: targets written by a transaction over what
                    \* another one wrote after it had begun

vars == <<policy, exclusions, suggestions, custom, served, tx, stale>>
tables == <<policy, exclusions, suggestions, custom>>

Begin(t, txn) ==
    /\ tx[t] = None /\ served < MaxRequests /\ served' = served + 1
    /\ tx' = [tx EXCEPT ![t] = txn]
    /\ UNCHANGED <<tables, stale>>

\* The end of t's transaction, which wrote rows of the targets `keys`.
End(t, keys) ==
    /\ tx' = [u \in Worker |->
          IF u = t \/ tx[u] = None THEN None ELSE [tx[u] EXCEPT !.touched = @ \cup keys]]
    /\ stale' = stale \cup (IF tx[t] = None THEN {} ELSE keys \cap tx[t].touched)

Abort(t) == End(t, {}) /\ UNCHANGED <<tables, served>>

\* A request that writes at once.
AtOnce(t, keys) ==
    /\ tx[t] = None /\ policy /\ served < MaxRequests /\ served' = served + 1
    /\ End(t, keys)

-----------------------------------------------------------------------------
\* The analyzer

\* _is_covered
Covered(rows, key, scope) ==
    \E e \in rows :
        /\ e.key = key
        /\ e.scope = None \/ (scope # None /\ WithinScope(scope, e.scope))

AtMost(n, max) == IF n <= max THEN n ELSE max

\* confidence_score >= MIN_CONFIDENCE: 35, 20, 20 and 25 points for clients,
\* events, hours and the share of events in which no other rule matched.
Confident(group) ==
    LET n == Cardinality(group)
        share(max, points, size) == (points * AtMost(size, max) * 60 * n) \div max
    IN  share(10, 35, Cardinality({e.client : e \in group}))
        + share(20, 20, n) + share(6, 20, Cardinality({e.hour : e \in group}))
        + 25 * 60 * Cardinality({e \in group : e.alone})
        >= (59 * 60 * n) \div 2

GroupOf(window, key) == {e \in window : e.key = key}
ScopeOf(window, key) == CommonScope({e.path : e \in GroupOf(window, key)})
Uris(group) == {[path |-> e.path, query |-> e.query] : e \in {e \in group : e.path # None}}

\* analyze_policy: the events, the exclusions, then the suggestions are read.
Analyze(t, window) ==
    /\ policy
    /\ Begin(t, [kind |-> "analyze", id |-> served', window |-> window, touched |-> {},
                 exclusions |-> exclusions, last |-> None])

\* Mutant: only pending suggestions are loaded.
LastRowsPending(t) ==
    LET keys == {e.key : e \in tx[t].window}
        rows(k) == {s \in suggestions : s.key = k /\ s.status = "pending"}
    IN  {last \in [keys -> {{}} \cup {{s} : s \in suggestions}] :
            \A k \in keys : last[k] \subseteq rows(k) /\ (last[k] = {} => rows(k) = {})}

\* One row per target, if any: of duplicates, the dictionary keeps the last.
LastRows(t) ==
    LET keys == {e.key : e \in tx[t].window}
        rows(k) == {s \in suggestions : s.key = k}
    IN  {last \in [keys -> {{}} \cup {{s} : s \in suggestions}] :
            \A k \in keys : last[k] \subseteq rows(k) /\ (last[k] = {} => rows(k) = {})}

ReadSuggestions(t) ==
    /\ tx[t] # None /\ tx[t].kind = "analyze" /\ tx[t].last = None
    /\ \E last \in LastRows(t) : tx' = [tx EXCEPT ![t].last = last]
    /\ UNCHANGED <<tables, served, stale>>

\* The targets to suggest, or whose pending suggestion is refreshed.
Proposed(t) ==
    {k \in DOMAIN tx[t].last :
        LET group == GroupOf(tx[t].window, k)
            row == tx[t].last[k]
        IN  /\ Cardinality(group) >= MinEvents
            /\ ~Covered(tx[t].exclusions, k, ScopeOf(tx[t].window, k))
            /\ row = {} => Confident(group)
            /\ \A s \in row : s.status = "pending"}

SameRow(a, b) == a.id = b.id /\ a.key = b.key

\* The targets among them that have a suggestion.
Known(t) == {k \in Proposed(t) : tx[t].last[k] # {}}

\* A suggestion after the UPDATEs: they write the statistics, never the status.
Refreshed(t, s) ==
    IF s.key \in Known(t) /\ \E r \in tx[t].last[s.key] : SameRow(s, r)
    THEN [s EXCEPT !.scope = ScopeOf(tx[t].window, s.key),
                   !.uris = Uris(GroupOf(tx[t].window, s.key))]
    ELSE s

Suggested(t, k) ==
    [id |-> tx[t].id, key |-> k, status |-> "pending", made |-> 0,
     scope |-> ScopeOf(tx[t].window, k), uris |-> Uris(GroupOf(tx[t].window, k))]

CommitAnalysis(t) ==
    /\ tx[t] # None /\ tx[t].kind = "analyze" /\ tx[t].last # None
    /\ LET new == Proposed(t) \ Known(t)
           gone == {k \in Known(t) : ~\E s \in suggestions, r \in tx[t].last[k] : SameRow(s, r)}
       IN  IF gone # {} \/ (new # {} /\ ~policy)
           THEN Abort(t)
           ELSE /\ suggestions' = {Refreshed(t, s) : s \in suggestions}
                                     \cup {Suggested(t, k) : k \in new}
                /\ End(t, Proposed(t))
                /\ UNCHANGED <<policy, exclusions, custom, served>>

-----------------------------------------------------------------------------
\* The review

\* Mutant: any suggestion can be resolved again.
ReviewResolved(t, s, kind) ==
    /\ policy /\ s \in suggestions
    /\ Begin(t, [kind |-> kind, id |-> served', row |-> s, touched |-> {}])

\* _pending_suggestion
Review(t, s, kind) ==
    /\ policy /\ s \in suggestions /\ s.status = "pending"
    /\ Begin(t, [kind |-> kind, id |-> served', row |-> s, touched |-> {}])

Resolved(t, s, status, made) ==
    IF SameRow(s, tx[t].row) THEN [s EXCEPT !.status = status, !.made = @ + made] ELSE s

Resolve(t, status, made) ==
    suggestions' = {Resolved(t, s, status, made) : s \in suggestions}

\* approve_suggestion creates the exclusion the admin sends: the suggested one,
\* or one for all paths.
Approve(t) ==
    /\ tx[t] # None /\ tx[t].kind = "approve"
    /\ LET row == tx[t].row
       IN  IF ~policy
           THEN Abort(t)
           ELSE /\ \E scope \in {row.scope, None} :
                      exclusions' = exclusions \cup
                          {[id |-> tx[t].id, key |-> row.key, scope |-> scope, uris |-> row.uris]}
                /\ Resolve(t, "approved", 1)
                /\ End(t, {row.key})
                /\ UNCHANGED <<policy, custom, served>>

\* reject_suggestion
Reject(t) ==
    /\ tx[t] # None /\ tx[t].kind = "reject"
    /\ IF ~policy
       THEN Abort(t)
       ELSE /\ Resolve(t, "rejected", 0)
            /\ End(t, {tx[t].row.key})
            /\ UNCHANGED <<policy, exclusions, custom, served>>

-----------------------------------------------------------------------------
\* Exclusions, custom rules, the policy

\* For the history, an exclusion's row is a target of its own.
RowOf(e) == [row |-> e.id]

Patched(key, patch) ==
    [col \in DOMAIN key |-> IF col \in DOMAIN patch /\ patch[col] # Unset THEN patch[col] ELSE key[col]]

\* create_exclusion.  A scope has no "?" here, as no path of a request has; the
\* schema lets one be typed by hand, and no path lies in such a scope.
CreateExclusion(t, key, scope) ==
    /\ Renderable(key) /\ AtOnce(t, {})
    /\ exclusions' = exclusions \cup {[id |-> served', key |-> key, scope |-> scope, uris |-> {}]}
    /\ UNCHANGED <<policy, suggestions, custom>>

\* Mutant: the target of the patch is checked without the row's.
ReadExclusionUnmerged(t, e, patch) ==
    /\ policy /\ e \in exclusions
    /\ patch.collection = TRUE => patch.value # None
    /\ Begin(t, [kind |-> "patch", row |-> e, patch |-> patch, touched |-> {}])

\* update_exclusion: the patch is checked against the row that was read.
ReadExclusion(t, e, patch) ==
    /\ policy /\ e \in exclusions
    /\ Renderable(Patched(e.key, patch))
    /\ Begin(t, [kind |-> "patch", row |-> e, patch |-> patch, touched |-> {}])

\* The row after the UPDATE: the columns the patch changes of what was read.
Written(t, e) ==
    LET patch == tx[t].patch
        changes(col) == col \in DOMAIN patch /\ patch[col] \notin {Unset, tx[t].row.key[col]}
    IN  [e EXCEPT !.key = [col \in DOMAIN e.key |-> IF changes(col) THEN patch[col] ELSE e.key[col]],
                  !.uris = {}]

CommitExclusion(t) ==
    /\ tx[t] # None /\ tx[t].kind = "patch"
    /\ LET now == {e \in exclusions : e.id = tx[t].row.id}
       IN  IF now = {}
           THEN Abort(t)
           ELSE /\ exclusions' = (exclusions \ now) \cup {Written(t, e) : e \in now}
                /\ End(t, {RowOf(tx[t].row)})
                /\ UNCHANGED <<policy, suggestions, custom, served>>

\* delete_exclusion
DeleteExclusion(t, e) ==
    /\ AtOnce(t, {RowOf(e)}) /\ exclusions' = exclusions \ {e}
    /\ UNCHANGED <<policy, suggestions, custom>>

\* create_custom_rule, and update_custom_rule to another number: the unique
\* constraint refuses one that is taken.
NumberCustomRule(t, old, new) ==
    /\ new \notin custom /\ AtOnce(t, {})
    /\ custom' = (custom \ {old}) \cup {new}
    /\ UNCHANGED <<policy, exclusions, suggestions>>

\* delete_custom_rule
DeleteCustomRule(t, id) ==
    /\ id \in custom /\ AtOnce(t, {})
    /\ custom' = custom \ {id}
    /\ UNCHANGED <<policy, exclusions, suggestions>>

\* delete_policy, with its rows.
DeletePolicy(t) ==
    /\ AtOnce(t, {r.key : r \in suggestions} \cup {RowOf(e) : e \in exclusions})
    /\ policy' = FALSE /\ exclusions' = {} /\ suggestions' = {} /\ custom' = {}

-----------------------------------------------------------------------------
\* The rules generate() makes of the rows

\* Mutant: two numbers per exclusion.
ControlIdTight(e) == 9100000 + e.id * 2

\* _control_rule_ids_for_scoped_exclusions
ControlId(e) == 9100000 + e.id * 3

\* _to_rule_exclusion_contexts skips what cannot be rendered.
Rendered == {e \in exclusions : Renderable(e.key)}

ControlRules(e) ==
    IF e.scope = None THEN {}
    ELSE {ControlId(e) + m.rule : m \in ScopeMatchers(e.scope, [path |-> e.scope, query |-> FALSE])}

\* The exclusion is in effect for a request.
Exempts(e, uri) ==
    e \in Rendered /\ (e.scope = None \/ \E m \in ScopeMatchers(e.scope, uri) : m.fires)

-----------------------------------------------------------------------------
AllKeys == UNION {{e.key : e \in w} : w \in Windows}
AllPaths == UNION {{e.path : e \in w} : w \in Windows}

Init ==
    /\ policy = TRUE
    /\ exclusions = {} /\ suggestions = {} /\ custom = {}
    /\ served = 0
    /\ tx = [t \in Worker |-> None]
    /\ stale = {}

\* The requests under /policies/{id}/suggestions, and the daily analysis.
SuggestionRequests(t) ==
    \/ \E w \in Windows : Analyze(t, w)
    \/ ReadSuggestions(t) \/ CommitAnalysis(t)
    \/ \E s \in suggestions, kind \in {"approve", "reject"} : Review(t, s, kind)
    \/ Approve(t) \/ Reject(t)

\* Those under /policies/{id}/exclusions and /policies/{id}/custom-rules.
ExclusionRequests(t) ==
    \/ \E key \in AllKeys, scope \in AllPaths : CreateExclusion(t, key, scope)
    \/ \E e \in exclusions :
          \/ \E patch \in Patches : ReadExclusion(t, e, patch)
          \/ DeleteExclusion(t, e)
    \/ CommitExclusion(t)

CustomRuleRequests(t) ==
    \/ \E old \in custom \cup {None}, new \in CustomIds : NumberCustomRule(t, old, new)
    \/ \E id \in custom : DeleteCustomRule(t, id)

Next ==
    \E t \in Worker :
        SuggestionRequests(t) \/ ExclusionRequests(t) \/ CustomRuleRequests(t) \/ DeletePolicy(t)

Spec == Init /\ [][Next]_vars

-----------------------------------------------------------------------------
\* Properties

\* "One row per (policy, rule, target)" (models/tuning_suggestion.py:30): only
\* transactions that overlap on a target give it two rows.
OneRowPerTarget ==
    \A a, b \in suggestions : a.key = b.key /\ a.key \notin stale => a = b

\* A suggestion is resolved once: it made one exclusion if it was approved, and
\* none if it is pending or rejected, unless two reviews overlapped.
ResolvedOnce ==
    \A s \in suggestions : s.key \notin stale =>
        s.made = IF s.status = "approved" THEN 1 ELSE 0

\* An exclusion approved from a suggestion exempts, as the rules are rendered,
\* each of the requests the suggestion was derived from.
ApprovedTakesEffect == \A e \in exclusions : \A uri \in e.uris : Exempts(e, uri)

\* Analyzer and renderer agree on what an exclusion covers: the control rules
\* fire on a request exactly if its path is within the scope.
ScopesAgree ==
    \A e \in exclusions : e.scope # None =>
        \A path \in AllPaths \ {None}, query \in BOOLEAN :
            (\E m \in ScopeMatchers(e.scope, [path |-> path, query |-> query]) : m.fires)
                <=> WithinScope(path, e.scope)

\* An exclusion in the panel is never silently left out of the rules
\* (schemas/rule_exclusion.py:10), unless two PATCHes of it overlapped.
NoneIsSkipped == \A e \in exclusions : RowOf(e) \notin stale => e \in Rendered

\* No two generated rules have one number.
RuleIdsDiffer ==
    /\ \A d, e \in Rendered : d # e => ControlRules(d) \cap ControlRules(e) = {}
    /\ \A e \in Rendered : ControlRules(e) \cap custom = {}
=============================================================================
