---------------------------- MODULE ReleaseStore ----------------------------
(***************************************************************************)
(* The runtime directory that the backend, HAProxy and the Coraza          *)
(* supervisor share: `releases/<id>/` directories and the `current`        *)
(* symlink.  The other modules of the release pipeline extend this one.    *)
(*                                                                         *)
(* A release is named by a number.  0 is the placeholder `releases/seed`,  *)
(* 1..MaxReleases are the releases the backend writes (one correlation id  *)
(* each) and MaxReleases + i is the bridge release of release i.           *)
(*                                                                         *)
(* The files of a release are reduced to what the pipeline tells apart:    *)
(*   apps   the Coraza applications besides `default`, which HAProxy also  *)
(*          names in its SPOE messages.  Every generated release and the   *)
(*          fallback config serve `default`, so it is left out.            *)
(*   rules  the text of the rule files; BadRules do not compile.           *)
(*   site   everything else in haproxy.cfg.                                *)
(***************************************************************************)
EXTENDS Integers, FiniteSets

CONSTANTS
    App,          \* Coraza application names (`policy_<id>`)
    Rules,        \* contents of the Coraza rule files
    BadRules,     \* the ones coraza-spoa cannot compile
    Site,         \* contents of haproxy.cfg besides the application names
    NoRules,      \* a release without coraza-spoa.yaml
    NoSite,       \* the demo haproxy.cfg of the seed release
    MaxReleases   \* bound: releases the backend writes

ASSUME StoreAssumption ==
    /\ MaxReleases \in Nat \ {0}
    /\ BadRules \subseteq Rules
    /\ NoRules \notin Rules
    /\ NoSite \notin Site

VARIABLES
    content,      \* release -> the files written into it
    dirs,         \* the release directories that exist
    current       \* what the `current` symlink names, or Missing

storeVars == <<content, dirs, current>>

Missing == -1
Seed == 0
Written == 1 .. MaxReleases
Release == 0 .. (MaxReleases + MaxReleases)
Link == Release \cup {Missing}

BridgeOf(r) == MaxReleases + r

\* A bridge is a copy of its candidate plus retired applications, so the
\* haproxy.cfg in it is the candidate's.
HaproxyPart(r) == IF r > MaxReleases THEN r - MaxReleases ELSE r

Config == [apps : SUBSET App, rules : Rules, site : Site]
SeedConfig == [apps |-> {}, rules |-> NoRules, site |-> NoSite]

AppNames(r) == IF r = Missing THEN {} ELSE content[r].apps

\* The names HAProxy sends to Coraza while it runs the haproxy.cfg of r.
SentNames(r) == AppNames(HaproxyPart(r))

CorazaTree(r) ==
    IF r = Missing THEN <<{}, NoRules>> ELSE <<content[r].apps, content[r].rules>>

Compiles(r) == content[r].rules \notin BadRules

\* `current` resolves to a release that has a coraza-spoa.yaml.
HasGeneratedYaml ==
    /\ current \in dirs
    /\ content[current].rules # NoRules

StoreInit ==
    /\ content = [r \in Release |-> SeedConfig]
    /\ dirs = {}
    /\ current = Missing

StoreTypeOK ==
    /\ content \in [Release -> Config \cup {SeedConfig}]
    /\ dirs \subseteq Release
    /\ current \in Link
=============================================================================
