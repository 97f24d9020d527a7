---------------------------- MODULE MCConfigApply ---------------------------
EXTENDS ConfigApply

CONSTANTS a, b, good, bad, s1

MCApp == {a, b}
MCRules == {good, bad}
MCBadRules == {bad}
MCSite == {s1}

Cfg(apps, rules) == [apps |-> apps, rules |-> rules, site |-> s1]

\* Adding, dropping and exchanging names, with rules that compile or not.
MCOffered ==
    {Cfg({a, b}, good), Cfg({a}, good), Cfg({b}, good), Cfg({a, b}, bad), Cfg({a}, bad)}
\* Fewer of them for the run with every fault.
MCOfferedFew == {Cfg({a, b}, good), Cfg({b}, good), Cfg({a}, bad)}

MCOkReloads == {"ok"}
MCAllReloads == {"ok", "refused", "lost"}
=============================================================================
