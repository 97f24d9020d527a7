---------------------------- MODULE MCRuleTuning ----------------------------
EXTENDS RuleTuning, TLC

CONSTANTS w1, w2

MCWorker == {w1, w2}
MCCharacter == {"/", "?", "a", "b"}

\* "/a", "/a/b", "/ab" and "/a/"; a member of a collection and a variable.
A == <<"/", "a">>
AB == <<"/", "a", "/", "b">>
Ab == <<"/", "a", "b">>
Dir == <<"/", "a", "/">>
Member == [rule |-> 1, collection |-> TRUE, value |-> "q"]
Variable == [rule |-> 1, collection |-> FALSE, value |-> None]
Event(key, path, query, client, alone) ==
    [key |-> key, path |-> path, query |-> query, client |-> client, hour |-> 1, alone |-> alone]
MCWindows ==
    {{Event(Member, A, TRUE, 1, TRUE), Event(Member, AB, FALSE, 2, TRUE)},
     {Event(Member, Dir, FALSE, 1, TRUE), Event(Member, Ab, TRUE, 2, TRUE),
      Event(Variable, A, FALSE, 1, FALSE), Event(Variable, AB, FALSE, 1, FALSE)},
     {Event(Member, Dir, TRUE, 1, TRUE), Event(Member, AB, FALSE, 1, TRUE),
      Event(Variable, None, FALSE, 1, TRUE), Event(Variable, Ab, FALSE, 1, TRUE)}}
MCPatches ==
    {[collection |-> c, value |-> v] : c \in {FALSE, Unset}, v \in {"r", None, Unset}}
MCCustomIds == {9000000, 9099999}
Symmetric == Permutations(MCWorker)
=============================================================================
