------------------------------ MODULE MCDashboard ------------------------------
EXTENDS Dashboard

\* Scores below, at and twice the threshold; rules that deny by themselves, at
\* the lower and at the higher scores; echoes that state a score; every place of
\* the score; events without the flag or without a timestamp.
Transaction(score, rules, echo, summary, structured, variable, flagged, timed, host) ==
    [score |-> score, rules |-> rules, denied |-> Last(rules) = 200002, echo |-> echo,
     summary |-> summary, structured |-> structured, variable |-> variable,
     flagged |-> flagged, timed |-> timed, host |-> host]
MCMode == {[threshold |-> 5, detect |-> FALSE], [threshold |-> 5, detect |-> TRUE],
           [threshold |-> 3, detect |-> FALSE]}
MCTransactions ==
    {Transaction(3, <<941100>>, 20, FALSE, FALSE, FALSE, TRUE, TRUE, "site"),
     Transaction(5, <<941100>>, 20, FALSE, FALSE, FALSE, TRUE, FALSE, "site"),
     Transaction(10, <<920420, 941100>>, 1, TRUE, FALSE, FALSE, TRUE, TRUE, "site"),
     Transaction(10, <<941100>>, None, FALSE, TRUE, FALSE, TRUE, FALSE, None),
     Transaction(3, <<941100>>, None, FALSE, FALSE, TRUE, FALSE, TRUE, "site"),
     Transaction(0, <<200002>>, 20, FALSE, FALSE, FALSE, TRUE, TRUE, "site"),
     Transaction(10, <<941100, 200002>>, None, TRUE, FALSE, FALSE, TRUE, TRUE, "site"),
     Transaction(10, <<941100, 200002>>, None, FALSE, FALSE, TRUE, TRUE, FALSE, "site")}
================================================================================
