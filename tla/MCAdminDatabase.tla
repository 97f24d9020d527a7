-------------------------- MODULE MCAdminDatabase --------------------------
EXTENDS AdminDatabase, TLC

CONSTANTS a1, a2, v1, p1, p2

MCAdmin == {a1, a2}
MCVhost == {v1}
MCPolicy == {p1, p2}
\* An active backend; one that is disabled; two that the renderer refuses, for
\* their path and for a URL without a host; and two paths, which no request gets
\* stored.
MCUnsafePath == {"unsafe"}
Good == [on |-> TRUE, path |-> "path", address |-> TRUE]
Unsafe == [Good EXCEPT !.path = "unsafe"]
MCLists == {{Good}, {[Good EXCEPT !.on = FALSE]},
            {Unsafe, [Good EXCEPT !.path = None, !.address = FALSE]}, {Good, Unsafe}}
\* A policy as the panel creates it: enabled, without a country filter.
MCNewPolicies == {[active |-> TRUE, filter |-> FALSE, countries |-> FALSE]}
\* One field at a time.
OneField(patches) == {patch \in patches : Cardinality({c \in DOMAIN patch : patch[c] # Unset}) = 1}
MCVhostPatches == {patch \in OneField(VhostPatch) : patch.active # FALSE}
MCPolicyPatches == {patch \in OneField(PolicyPatch) : patch.active # TRUE /\ patch.filter # FALSE}
Symmetric == Permutations(MCAdmin) \cup Permutations(MCPolicy)
=============================================================================
