------------------------- MODULE RuleTuning_proofs -------------------------
(***************************************************************************)
(* What overlapping analyses, reviews and edits leave in the tables, for   *)
(* any number of workers and requests and whatever the log shows; and for  *)
(* paths of any length, that the scope of an approved exclusion takes in   *)
(* the requests it was learnt from.                                        *)
(***************************************************************************)
EXTENDS RuleTuning, SequenceTheorems, WellFoundedInduction, TLAPS

-----------------------------------------------------------------------------
\* The inductive invariant.  Rows of a target nobody has touched since a
\* transaction read them are still as it read them.

Fields ==
    [analyze |-> {"kind", "id", "window", "touched", "exclusions", "last"},
     approve |-> {"kind", "id", "row", "touched"},
     reject |-> {"kind", "id", "row", "touched"},
     patch |-> {"kind", "row", "patch", "touched"}]

TxTyped(t) ==
    tx[t] # None =>
        /\ tx[t].kind \in DOMAIN Fields
        /\ DOMAIN tx[t] = Fields[tx[t].kind]
        /\ tx[t].kind = "analyze" =>
              /\ tx[t].window \in Windows
              /\ tx[t].last # None => DOMAIN tx[t].last = {e.key : e \in tx[t].window}
        /\ tx[t].kind \in {"approve", "reject"} =>
              /\ DOMAIN tx[t].row.key = {"rule", "collection", "value"}
              /\ Renderable(tx[t].row.key)
        /\ tx[t].kind = "patch" =>
              /\ tx[t].patch \in Patches /\ tx[t].row.id \in 1 .. served
              /\ DOMAIN tx[t].row.key = {"rule", "collection", "value"}
        /\ tx[t].kind # "patch" => tx[t].id \in 1 .. served

SuggestionTyped(s) ==
    DOMAIN s = {"id", "key", "scope", "status", "made", "uris"} /\ s.made \in Nat

Typed ==
    /\ served \in Nat
    /\ DOMAIN tx = Worker /\ \A t \in Worker : TxTyped(t)
    /\ \A s \in suggestions :
          SuggestionTyped(s) /\ DOMAIN s.key = {"rule", "collection", "value"} /\ Renderable(s.key)
    /\ \A e \in exclusions :
          /\ DOMAIN e = {"id", "key", "scope", "uris"} /\ e.id \in 1 .. served
          /\ DOMAIN e.key = {"rule", "collection", "value"}
    /\ custom \subseteq CustomIds

\* The key of the exclusion an approval will insert is nobody's.
Unused(n) ==
    /\ \A e \in exclusions : e.id # n
    /\ \A u \in Worker : tx[u] # None /\ tx[u].kind = "patch" => tx[u].row.id # n

KeysDiffer ==
    /\ \A d, e \in exclusions : d.id = e.id => d = e
    /\ \A t \in Worker : tx[t] # None /\ tx[t].kind = "approve" =>
          /\ Unused(tx[t].id)
          /\ \A u \in Worker \ {t} :
                tx[u] # None /\ tx[u].kind = "approve" => tx[u].id # tx[t].id

Pending(key) == \A s \in suggestions : s.key = key => s.status = "pending" /\ s.made = 0

\* What an open transaction read is still so, unless touched.
AnalysisInformed(t) ==
    tx[t].last # None =>
        \A k \in DOMAIN tx[t].last :
            tx[t].last[k] = {} /\ k \notin tx[t].touched => \A s \in suggestions : s.key # k

ReviewInformed(t) == tx[t].row.key \notin stale \cup tx[t].touched => Pending(tx[t].row.key)

PatchInformed(t) ==
    /\ Renderable(Patched(tx[t].row.key, tx[t].patch))
    /\ RowOf(tx[t].row) \notin stale \cup tx[t].touched =>
          \A e \in exclusions : e.id = tx[t].row.id => e.key = tx[t].row.key

TxInformed(t) ==
    tx[t] # None =>
        /\ tx[t].kind = "analyze" => AnalysisInformed(t)
        /\ tx[t].kind \in {"approve", "reject"} => ReviewInformed(t)
        /\ tx[t].kind = "patch" => PatchInformed(t)

AllInformed == \A t \in Worker : TxInformed(t)

IInv ==
    /\ Typed
    /\ KeysDiffer
    /\ OneRowPerTarget
    /\ ResolvedOnce
    /\ NoneIsSkipped
    /\ AllInformed

-----------------------------------------------------------------------------
\* The assumption, part by part.
LEMMA TargetsRender ==
    ASSUME NEW w \in Windows, NEW e \in w
    PROVE  DOMAIN e.key = {"rule", "collection", "value"} /\ Renderable(e.key)
BY TargetAssumption DEF TargetAssumption

LEMMA PatchFields == \A patch \in Patches : DOMAIN patch = {"collection", "value"}
BY TargetAssumption DEF TargetAssumption

LEMMA CustomRange == \A id \in CustomIds : id \in Nat /\ id < 9100000
BY TuningAssumption, SMT DEF TuningAssumption

LEMMA InitInvariant == Init => IInv
BY DEF Init, IInv, Typed, TxTyped, KeysDiffer, OneRowPerTarget, ResolvedOnce, NoneIsSkipped,
       AllInformed, TxInformed

-----------------------------------------------------------------------------
\* Transactions

\* u's transaction after a step of another one that wrote rows of `keys`.
Continues(u, keys) ==
    tx'[u] # None =>
        /\ tx[u] # None /\ DOMAIN tx'[u] = DOMAIN tx[u]
        /\ \A f \in DOMAIN tx[u] \ {"touched"} : tx'[u][f] = tx[u][f]
        /\ tx'[u].touched = tx[u].touched \cup keys

LEMMA EndIs ==
    ASSUME Typed, NEW t \in Worker, NEW keys, End(t, keys)
    PROVE  /\ tx'[t] = None /\ DOMAIN tx' = Worker
           /\ \A u \in Worker \ {t} : Continues(u, keys)
           /\ stale \subseteq stale'
           /\ tx[t] # None => \A k \in keys : k \notin stale' => k \notin stale \cup tx[t].touched
<1>1. DOMAIN tx' = Worker /\ tx'[t] = None
  BY DEF End
<1>2. ASSUME NEW u \in Worker \ {t} PROVE Continues(u, keys)
  <2>1. tx'[u] = IF tx[u] = None THEN None ELSE [tx[u] EXCEPT !.touched = @ \cup keys]
    BY DEF End
  <2>2. tx[u] # None => "touched" \in DOMAIN tx[u]
    BY DEF Typed, TxTyped, Fields
  <2>3. QED
    BY <2>1, <2>2 DEF Continues
<1>3. /\ stale \subseteq stale'
      /\ tx[t] # None => \A k \in keys : k \notin stale' => k \notin stale \cup tx[t].touched
  BY DEF End
<1>4. QED
  BY <1>1, <1>2, <1>3

\* The fields of a transaction that continues.
LEMMA SameFields ==
    ASSUME Typed, NEW u \in Worker, NEW keys, Continues(u, keys), tx'[u] # None
    PROVE  /\ tx[u] # None /\ tx'[u].kind = tx[u].kind /\ DOMAIN tx'[u] = DOMAIN tx[u]
           /\ tx[u].kind = "analyze" =>
                tx'[u].id = tx[u].id /\ tx'[u].window = tx[u].window /\ tx'[u].last = tx[u].last
           /\ tx[u].kind \in {"approve", "reject"} =>
                tx'[u].id = tx[u].id /\ tx'[u].row = tx[u].row
           /\ tx[u].kind = "patch" => tx'[u].row = tx[u].row /\ tx'[u].patch = tx[u].patch
           /\ tx'[u].touched = tx[u].touched \cup keys
BY DEF Continues, Typed, TxTyped, Fields

\* It stays well-typed, and informed, if the step wrote rows of `keys` only.
LEMMA StaysTyped ==
    ASSUME Typed, NEW u \in Worker, NEW keys, Continues(u, keys), served' \in Nat, served <= served'
    PROVE  TxTyped(u)'
<1> SUFFICES ASSUME tx'[u] # None PROVE TxTyped(u)'
  BY DEF TxTyped
<1>1. TxTyped(u) /\ tx[u] # None /\ tx'[u].kind = tx[u].kind /\ DOMAIN tx'[u] = DOMAIN tx[u]
  BY SameFields DEF Typed
<1>2. CASE tx[u].kind = "analyze"
  BY <1>1, <1>2, SameFields DEF TxTyped, Typed
<1>3. CASE tx[u].kind \in {"approve", "reject"}
  BY <1>1, <1>3, SameFields DEF TxTyped, Renderable, Typed
<1>4. CASE tx[u].kind = "patch"
  BY <1>1, <1>4, SameFields DEF TxTyped, Typed
<1>5. QED
  BY <1>1, <1>2, <1>3, <1>4 DEF TxTyped, Fields

LEMMA StaysInformed ==
    ASSUME Typed, NEW u \in Worker, NEW keys, Continues(u, keys), TxInformed(u),
           stale \subseteq stale',
           \A s \in suggestions' : s.key \notin keys =>
               \E r \in suggestions : r.key = s.key /\ r.status = s.status /\ r.made = s.made,
           \A e \in exclusions' : RowOf(e) \in keys
               \/ (\E d \in exclusions : d.id = e.id /\ d.key = e.key)
               \/ (tx[u] # None /\ tx[u].kind = "patch" => tx[u].row.id # e.id)
    PROVE  TxInformed(u)'
<1> SUFFICES ASSUME tx'[u] # None
             PROVE  /\ tx'[u].kind = "analyze" => AnalysisInformed(u)'
                    /\ tx'[u].kind \in {"approve", "reject"} => ReviewInformed(u)'
                    /\ tx'[u].kind = "patch" => PatchInformed(u)'
  BY DEF TxInformed
<1>1. tx[u] # None /\ tx'[u].kind = tx[u].kind
      /\ tx'[u].touched = tx[u].touched \cup keys
  BY SameFields
<1>2. ASSUME tx[u].kind = "analyze" PROVE AnalysisInformed(u)'
  <2>1. tx'[u].last = tx[u].last /\ AnalysisInformed(u)
    BY <1>1, <1>2, SameFields DEF TxInformed
  <2>2. QED
    BY <1>1, <2>1 DEF AnalysisInformed
<1>3. ASSUME tx[u].kind \in {"approve", "reject"} PROVE ReviewInformed(u)'
  <2>1. tx'[u].row = tx[u].row /\ ReviewInformed(u)
    BY <1>1, <1>3, SameFields DEF TxInformed
  <2>2. QED
    BY <1>1, <2>1 DEF ReviewInformed, Pending
<1>4. ASSUME tx[u].kind = "patch" PROVE PatchInformed(u)'
  <2>1. tx'[u].row = tx[u].row /\ tx'[u].patch = tx[u].patch /\ PatchInformed(u)
    BY <1>1, <1>4, SameFields DEF TxInformed
  <2>2. ASSUME RowOf(tx[u].row) \notin stale' \cup tx'[u].touched,
               NEW e \in exclusions', e.id = tx[u].row.id
        PROVE  e.key = tx[u].row.key
    <3>1. RowOf(e) \notin keys
      BY <1>1, <2>2 DEF RowOf
    <3>2. PICK d \in exclusions : d.id = e.id /\ d.key = e.key
      BY <1>1, <1>4, <2>2, <3>1
    <3>3. QED
      BY <1>1, <2>1, <2>2, <3>2 DEF PatchInformed
  <2>3. Renderable(Patched(tx'[u].row.key, tx'[u].patch))
    BY <2>1 DEF PatchInformed
  <2>4. QED
    BY <2>1, <2>2, <2>3 DEF PatchInformed, RowOf
<1>5. QED
  BY <1>1, <1>2, <1>3, <1>4

\* No key is used twice when t ends without inserting an exclusion.
LEMMA KeysStillDiffer ==
    ASSUME Typed, KeysDiffer, NEW t \in Worker, NEW keys, tx'[t] = None,
           \A u \in Worker \ {t} : Continues(u, keys),
           \A e \in exclusions' : \E d \in exclusions : d.id = e.id,
           \A d, e \in exclusions' : d.id = e.id => d = e
    PROVE  KeysDiffer'
<1>1. \A u \in Worker : tx'[u] # None =>
         /\ tx[u] # None /\ tx'[u].kind = tx[u].kind
         /\ tx[u].kind = "approve" => tx'[u].id = tx[u].id
         /\ tx[u].kind = "patch" => tx'[u].row = tx[u].row
  BY SameFields
<1>2. \A u \in Worker : tx'[u] # None /\ tx'[u].kind = "approve" => Unused(tx[u].id)'
  BY <1>1 DEF KeysDiffer, Unused
<1>3. QED
  BY <1>1, <1>2 DEF KeysDiffer, Unused

\* A step that ends t's transaction, if any, and only deletes rows.
LEMMA DeletingKeeps ==
    ASSUME IInv, NEW t \in Worker, NEW keys, tx'[t] = None, DOMAIN tx' = Worker,
           \A u \in Worker \ {t} : Continues(u, keys),
           stale \subseteq stale', served' \in Nat, served <= served',
           suggestions' \subseteq suggestions, exclusions' \subseteq exclusions,
           custom' \subseteq CustomIds
    PROVE  IInv'
<1>1. Typed'
  <2>1. \A u \in Worker : TxTyped(u)'
    BY StaysTyped DEF IInv, TxTyped
  <2>2. /\ \A r \in suggestions' :
             SuggestionTyped(r) /\ DOMAIN r.key = {"rule", "collection", "value"} /\ Renderable(r.key)
        /\ \A e \in exclusions' :
             /\ DOMAIN e = {"id", "key", "scope", "uris"} /\ e.id \in 1 .. served'
             /\ DOMAIN e.key = {"rule", "collection", "value"}
    BY DEF IInv, Typed
  <2>3. QED
    BY <2>1, <2>2 DEF Typed, SuggestionTyped, Renderable
<1>2. KeysDiffer'
  <2>1. \A d, e \in exclusions' : d.id = e.id => d = e
    BY DEF IInv, KeysDiffer
  <2>2. QED
    BY <2>1, KeysStillDiffer DEF IInv
<1>3. OneRowPerTarget' /\ ResolvedOnce' /\ NoneIsSkipped'
  BY DEF IInv, OneRowPerTarget, ResolvedOnce, NoneIsSkipped, Rendered, RowOf, Renderable
<1>4. AllInformed'
  <2>1. \A u \in Worker \ {t} : TxInformed(u)'
    BY StaysInformed DEF IInv, AllInformed
  <2>2. QED
    BY <2>1 DEF AllInformed, TxInformed
<1>5. QED
  BY <1>1, <1>2, <1>3, <1>4 DEF IInv

LEMMA AbortKeeps == ASSUME IInv, NEW t \in Worker, Abort(t) PROVE IInv'
<1>1. Typed /\ End(t, {}) /\ UNCHANGED <<tables, served>>
  BY DEF Abort, IInv
<1>2. /\ tx'[t] = None /\ DOMAIN tx' = Worker
      /\ \A u \in Worker \ {t} : Continues(u, {}) /\ stale \subseteq stale'
  BY <1>1, EndIs
<1>3. stale \subseteq stale'
  BY <1>1, EndIs
<1>4. QED
  BY <1>1, <1>2, <1>3, DeletingKeeps DEF tables, Typed

\* A step that opens or continues t's transaction: only tx[t] changes.
LEMMA ReadingKeeps ==
    ASSUME IInv, NEW t \in Worker, UNCHANGED <<tables, stale>>, served' \in Nat, served <= served',
           DOMAIN tx' = Worker, \A u \in Worker \ {t} : tx'[u] = tx[u],
           TxTyped(t)', TxInformed(t)',
           tx'[t] # None /\ tx'[t].kind = "approve" =>
              /\ Unused(tx'[t].id)
              /\ \A u \in Worker \ {t} :
                    tx[u] # None /\ tx[u].kind = "approve" => tx[u].id # tx'[t].id,
           tx'[t] # None /\ tx'[t].kind = "patch" => tx'[t].row \in exclusions
    PROVE  IInv'
<1>1. UNCHANGED <<policy, exclusions, suggestions, custom, stale>>
  BY DEF tables
<1>2. \A u \in Worker \ {t} : Continues(u, {})
  BY DEF IInv, Typed, TxTyped, Fields, Continues
<1>3. Typed'
  <2>1. \A u \in Worker : TxTyped(u)'
    BY <1>2, StaysTyped DEF IInv
  <2>2. \A e \in exclusions' : e.id \in 1 .. served'
    BY <1>1 DEF IInv, Typed
  <2>3. QED
    BY <1>1, <2>1, <2>2 DEF IInv, Typed, SuggestionTyped, Renderable
<1>4. KeysDiffer'
  BY <1>1 DEF IInv, KeysDiffer, Unused
<1>5. OneRowPerTarget' /\ ResolvedOnce' /\ NoneIsSkipped'
  BY <1>1 DEF IInv, OneRowPerTarget, ResolvedOnce, NoneIsSkipped, Rendered, RowOf, Renderable
<1>6. AllInformed'
  <2>1. \A u \in Worker \ {t} : TxInformed(u)'
    BY <1>1, <1>2, StaysInformed DEF IInv, AllInformed
  <2>2. QED
    BY <2>1 DEF AllInformed
<1>7. QED
  BY <1>3, <1>4, <1>5, <1>6 DEF IInv

LEMMA BeginIs ==
    ASSUME IInv, NEW t \in Worker, NEW txn, Begin(t, txn)
    PROVE  /\ tx[t] = None /\ served' = served + 1 /\ served' \in Nat /\ served <= served'
           /\ served' \in 1 .. served'
           /\ tx'[t] = txn /\ DOMAIN tx' = Worker
           /\ \A u \in Worker \ {t} : tx'[u] = tx[u]
           /\ UNCHANGED <<tables, stale>>
BY DEF Begin, IInv, Typed

-----------------------------------------------------------------------------
\* Analysis

LEMMA AnalyzeKeeps ==
    ASSUME IInv, NEW t \in Worker, NEW w \in Windows, Analyze(t, w)
    PROVE  IInv'
<1> DEFINE txn == [kind |-> "analyze", id |-> served', window |-> w, touched |-> {},
                   exclusions |-> exclusions, last |-> None]
<1>1. Begin(t, txn)
  BY DEF Analyze
<1>2. /\ DOMAIN txn = Fields.analyze /\ txn.kind = "analyze" /\ txn.window = w
      /\ txn.id = served' /\ txn.last = None
  BY DEF Fields
<1> HIDE DEF txn
<1>3. /\ served' \in Nat /\ served <= served' /\ served' \in 1 .. served'
      /\ tx'[t] = txn /\ DOMAIN tx' = Worker
      /\ \A u \in Worker \ {t} : tx'[u] = tx[u]
      /\ UNCHANGED <<tables, stale>>
  BY <1>1, BeginIs
<1>4. TxTyped(t)'
  BY <1>2, <1>3 DEF TxTyped, Fields
<1>5. TxInformed(t)'
  BY <1>2, <1>3 DEF TxInformed, AnalysisInformed
<1>6. QED
  BY <1>2, <1>3, <1>4, <1>5, ReadingKeeps

LEMMA ReadSuggestionsKeeps ==
    ASSUME IInv, NEW t \in Worker, ReadSuggestions(t)
    PROVE  IInv'
<1>1. PICK last :
        /\ tx' = [tx EXCEPT ![t].last = last]
        /\ DOMAIN last = {e.key : e \in tx[t].window}
        /\ \A k \in DOMAIN last : last[k] = {} => {s \in suggestions : s.key = k} = {}
  <2>1. PICK last \in LastRows(t) : tx' = [tx EXCEPT ![t].last = last]
    BY DEF ReadSuggestions
  <2>2. /\ DOMAIN last = {e.key : e \in tx[t].window}
        /\ \A k \in DOMAIN last : last[k] = {} => {s \in suggestions : s.key = k} = {}
    BY DEF LastRows
  <2>3. QED
    BY <2>1, <2>2
<1>2. tx[t] # None /\ tx[t].kind = "analyze" /\ UNCHANGED <<tables, served, stale>>
  BY DEF ReadSuggestions
<1>3. TxTyped(t) /\ DOMAIN tx[t] = {"kind", "id", "window", "touched", "exclusions", "last"}
  BY <1>2 DEF IInv, Typed, TxTyped, Fields
<1>4. /\ DOMAIN tx' = Worker /\ \A u \in Worker \ {t} : tx'[u] = tx[u]
      /\ tx'[t] = [tx[t] EXCEPT !.last = last]
  BY <1>1 DEF IInv, Typed
<1>5. /\ DOMAIN tx'[t] = DOMAIN tx[t] /\ tx'[t].kind = "analyze" /\ tx'[t].id = tx[t].id
      /\ tx'[t].window = tx[t].window /\ tx'[t].last = last
  BY <1>2, <1>3, <1>4
<1>6. TxTyped(t)'
  <2>1. DOMAIN tx'[t].last = {e.key : e \in tx'[t].window}
    BY <1>1, <1>5
  <2>2. QED
    BY <1>2, <1>3, <1>5, <2>1 DEF TxTyped, Fields
<1>7. TxInformed(t)'
  <2>1. \A k \in DOMAIN last : last[k] = {} => \A s \in suggestions : s.key # k
    BY <1>1
  <2>2. suggestions' = suggestions
    BY <1>2 DEF tables
  <2>3. AnalysisInformed(t)'
    BY <1>5, <2>1, <2>2 DEF AnalysisInformed
  <2>4. QED
    BY <1>5, <2>3 DEF TxInformed
<1>8. served' \in Nat /\ served <= served'
  BY <1>2 DEF IInv, Typed
<1>9. tx'[t].kind # "approve" /\ tx'[t].kind # "patch" /\ UNCHANGED <<tables, stale>>
  BY <1>2, <1>5
<1>10. QED
  BY <1>4, <1>6, <1>7, <1>8, <1>9, ReadingKeeps

\* The suggestions after an analysis: those of the targets in `keys` refreshed,
\* and a pending one for each new target.
LEMMA CommittedAnalysis ==
    ASSUME IInv, NEW t \in Worker, CommitAnalysis(t), ~Abort(t)
    PROVE  \E keys :
             /\ End(t, keys) /\ UNCHANGED <<policy, exclusions, custom, served>>
             /\ \A s \in suggestions' :
                   \/ \E r \in suggestions : r.key = s.key /\ r.status = s.status /\ r.made = s.made
                   \/ s.key \in keys /\ s.status = "pending" /\ s.made = 0
             /\ \A s \in suggestions' : s.key \notin keys => s \in suggestions
             /\ \A s \in suggestions' : SuggestionTyped(s)
             /\ \A s \in suggestions' : DOMAIN s.key = {"rule", "collection", "value"} /\ Renderable(s.key)
             /\ \A k \in keys : k \notin stale' /\ (\A a, b \in suggestions : a.key = k /\ b.key = k => a = b)
                   => \A a, b \in suggestions' : a.key = k /\ b.key = k => a = b
<1> DEFINE keys == Proposed(t)
           new == keys \ Known(t)
<1>1. /\ tx[t] # None /\ tx[t].kind = "analyze" /\ tx[t].last # None
      /\ suggestions' = {Refreshed(t, s) : s \in suggestions} \cup {Suggested(t, k) : k \in new}
      /\ End(t, keys) /\ UNCHANGED <<policy, exclusions, custom, served>>
  BY DEF CommitAnalysis
<1>2. \A s \in suggestions :
         SuggestionTyped(s) /\ DOMAIN s.key = {"rule", "collection", "value"} /\ Renderable(s.key)
  BY DEF IInv, Typed
<1>3. ASSUME NEW s \in suggestions
      PROVE  /\ Refreshed(t, s).key = s.key /\ Refreshed(t, s).status = s.status
             /\ Refreshed(t, s).made = s.made /\ SuggestionTyped(Refreshed(t, s))
             /\ s.key \notin keys => Refreshed(t, s) = s
  BY <1>2 DEF SuggestionTyped, Refreshed, Known
<1>4. ASSUME NEW k \in new
      PROVE  /\ Suggested(t, k).key = k /\ Suggested(t, k).status = "pending"
             /\ Suggested(t, k).made = 0 /\ SuggestionTyped(Suggested(t, k))
             /\ tx[t].last[k] = {} /\ k \in DOMAIN tx[t].last /\ k \in keys
  BY DEF SuggestionTyped, Suggested, Proposed, Known
<1>5. ASSUME NEW k \in new PROVE DOMAIN k = {"rule", "collection", "value"} /\ Renderable(k)
  <2>1. tx[t].window \in Windows /\ DOMAIN tx[t].last = {e.key : e \in tx[t].window}
    BY <1>1 DEF IInv, Typed, TxTyped
  <2>2. PICK e \in tx[t].window : k = e.key
    BY <1>4, <2>1
  <2>3. QED
    BY <2>1, <2>2, TargetsRender
<1>6. \A k \in keys : k \notin stale' => k \notin stale \cup tx[t].touched
  BY <1>1, EndIs DEF IInv
<1> HIDE DEF keys, new
<1>7. ASSUME NEW k \in new, k \notin stale' PROVE \A s \in suggestions : s.key # k
  BY <1>1, <1>4, <1>6, <1>7 DEF IInv, AllInformed, TxInformed, AnalysisInformed
<1>8. ASSUME NEW k \in keys, k \notin stale',
             \A a, b \in suggestions : a.key = k /\ b.key = k => a = b,
             NEW a \in suggestions', NEW b \in suggestions', a.key = k, b.key = k
      PROVE  a = b
  <2>1. \/ \E r \in suggestions : a = Refreshed(t, r) /\ r.key = k
        \/ k \in new /\ a = Suggested(t, k)
    BY <1>1, <1>3, <1>4, <1>8
  <2>2. \/ \E r \in suggestions : b = Refreshed(t, r) /\ r.key = k
        \/ k \in new /\ b = Suggested(t, k)
    BY <1>1, <1>3, <1>4, <1>8
  <2>3. QED
    BY <1>7, <1>8, <2>1, <2>2
<1>9. ASSUME NEW s \in suggestions'
      PROVE  /\ \/ \E r \in suggestions : r.key = s.key /\ r.status = s.status /\ r.made = s.made
                \/ s.key \in keys /\ s.status = "pending" /\ s.made = 0
             /\ s.key \notin keys => s \in suggestions
             /\ SuggestionTyped(s)
             /\ DOMAIN s.key = {"rule", "collection", "value"} /\ Renderable(s.key)
  <2>1. CASE \E r \in suggestions : s = Refreshed(t, r)
    BY <1>2, <1>3, <2>1
  <2>2. CASE \E k \in new : s = Suggested(t, k)
    BY <1>4, <1>5, <2>2
  <2>3. QED
    BY <1>1, <2>1, <2>2
<1>10. QED
  BY <1>1, <1>8, <1>9

LEMMA CommitAnalysisKeeps ==
    ASSUME IInv, NEW t \in Worker, CommitAnalysis(t)
    PROVE  IInv'
<1>1. CASE Abort(t)
  BY <1>1, AbortKeeps
<1>2. CASE ~Abort(t)
  <2>1. PICK keys :
          /\ End(t, keys) /\ UNCHANGED <<policy, exclusions, custom, served>>
          /\ \A s \in suggestions' :
                \/ \E r \in suggestions : r.key = s.key /\ r.status = s.status /\ r.made = s.made
                \/ s.key \in keys /\ s.status = "pending" /\ s.made = 0
          /\ \A s \in suggestions' : s.key \notin keys => s \in suggestions
          /\ \A s \in suggestions' : SuggestionTyped(s)
          /\ \A s \in suggestions' : DOMAIN s.key = {"rule", "collection", "value"} /\ Renderable(s.key)
          /\ \A k \in keys : k \notin stale' /\ (\A a, b \in suggestions : a.key = k /\ b.key = k => a = b)
                => \A a, b \in suggestions' : a.key = k /\ b.key = k => a = b
    BY <1>2, CommittedAnalysis
  <2>2. /\ tx'[t] = None /\ DOMAIN tx' = Worker
        /\ \A u \in Worker \ {t} : Continues(u, keys)
        /\ stale \subseteq stale'
    BY <2>1, EndIs DEF IInv
  <2>3. Typed'
    <3>1. \A u \in Worker : TxTyped(u)'
      BY <2>1, <2>2, StaysTyped DEF IInv, Typed, TxTyped
    <3>2. QED
      BY <2>1, <2>2, <3>1 DEF IInv, Typed, SuggestionTyped, Renderable
  <2>4. KeysDiffer'
    BY <2>1, <2>2, KeysStillDiffer DEF IInv, KeysDiffer
  <2>5. OneRowPerTarget'
    <3> SUFFICES ASSUME NEW a \in suggestions', NEW b \in suggestions', a.key = b.key, a.key \notin stale'
                 PROVE  a = b
      BY DEF OneRowPerTarget
    <3>1. \A r, s \in suggestions : r.key = a.key /\ s.key = a.key => r = s
      BY <2>2 DEF IInv, OneRowPerTarget
    <3>2. QED
      BY <2>1, <3>1
  <2>6. ResolvedOnce'
    <3> SUFFICES ASSUME NEW s \in suggestions', s.key \notin stale'
                 PROVE  s.made = IF s.status = "approved" THEN 1 ELSE 0
      BY DEF ResolvedOnce
    <3>1. QED
      BY <2>1, <2>2 DEF IInv, ResolvedOnce
  <2>7. NoneIsSkipped'
    BY <2>1, <2>2 DEF IInv, NoneIsSkipped, Rendered, RowOf, Renderable
  <2>8. AllInformed'
    <3>1. \A s \in suggestions' : s.key \notin keys =>
             \E r \in suggestions : r.key = s.key /\ r.status = s.status /\ r.made = s.made
      BY <2>1
    <3>2. \A e \in exclusions' : \E d \in exclusions : d.id = e.id /\ d.key = e.key
      BY <2>1
    <3>3. \A u \in Worker \ {t} : TxInformed(u)'
      BY <2>2, <3>1, <3>2, StaysInformed DEF IInv, AllInformed
    <3>4. QED
      BY <2>2, <3>3 DEF AllInformed, TxInformed
  <2>9. QED
    BY <2>3, <2>4, <2>5, <2>6, <2>7, <2>8 DEF IInv
<1>3. QED
  BY <1>1, <1>2

-----------------------------------------------------------------------------
\* Review

LEMMA ReviewKeeps ==
    ASSUME IInv, NEW t \in Worker, NEW s \in suggestions, NEW kind \in {"approve", "reject"},
           Review(t, s, kind)
    PROVE  IInv'
<1> DEFINE txn == [kind |-> kind, id |-> served', row |-> s, touched |-> {}]
<1>1. Begin(t, txn) /\ s.status = "pending"
  BY DEF Review
<1>2. /\ DOMAIN txn = {"kind", "id", "row", "touched"} /\ txn.kind = kind /\ txn.id = served'
      /\ txn.row = s /\ txn.touched = {}
  OBVIOUS
<1> HIDE DEF txn
<1>3. /\ served' = served + 1 /\ served' \in Nat /\ served <= served' /\ served' \in 1 .. served'
      /\ tx'[t] = txn /\ DOMAIN tx' = Worker
      /\ \A u \in Worker \ {t} : tx'[u] = tx[u]
      /\ UNCHANGED <<tables, stale>>
  BY <1>1, BeginIs
<1>4. TxTyped(t)'
  BY <1>2, <1>3 DEF TxTyped, Fields, IInv, Typed, Renderable
<1>5. TxInformed(t)'
  <2>1. s.key \notin stale => Pending(s.key)
    BY <1>1 DEF IInv, OneRowPerTarget, ResolvedOnce, Pending
  <2>2. suggestions' = suggestions /\ stale' = stale
    BY <1>3 DEF tables
  <2>3. ReviewInformed(t)'
    BY <1>2, <1>3, <2>1, <2>2 DEF ReviewInformed, Pending
  <2>4. QED
    BY <1>2, <1>3, <2>3 DEF TxInformed
<1>6. /\ Unused(served')
      /\ \A u \in Worker \ {t} : tx[u] # None /\ tx[u].kind = "approve" => tx[u].id # served'
  BY <1>3 DEF IInv, Typed, TxTyped, Unused
<1>7. QED
  BY <1>2, <1>3, <1>4, <1>5, <1>6, ReadingKeeps

\* The rows a review resolved: its own, and of a target that is not stale
\* this one was pending.
LEMMA ResolveKeeps ==
    ASSUME IInv, NEW t \in Worker, tx[t] # None, tx[t].kind \in {"approve", "reject"},
           NEW status \in {"approved", "rejected"}, NEW made \in {0, 1},
           made = IF status = "approved" THEN 1 ELSE 0,
           Resolve(t, status, made), End(t, {tx[t].row.key})
    PROVE  /\ OneRowPerTarget' /\ ResolvedOnce'
           /\ \A s \in suggestions' :
                 SuggestionTyped(s) /\ DOMAIN s.key = {"rule", "collection", "value"} /\ Renderable(s.key)
           /\ \A s \in suggestions' : s.key # tx[t].row.key => s \in suggestions
<1> DEFINE row == tx[t].row
           resolved(s) == Resolved(t, s, status, made)
<1>1. suggestions' = {resolved(s) : s \in suggestions}
  BY DEF Resolve
<1>2. \A s \in suggestions :
         /\ resolved(s).key = s.key /\ SuggestionTyped(resolved(s))
         /\ s.key # row.key => resolved(s) = s
         /\ SameRow(s, row) => resolved(s).status = status /\ resolved(s).made = s.made + made
         /\ ~SameRow(s, row) => resolved(s) = s
  BY DEF IInv, Typed, SuggestionTyped, SameRow, Resolved
<1>3. stale \subseteq stale' /\ (row.key \notin stale' => row.key \notin stale \cup tx[t].touched)
  BY EndIs DEF IInv
<1> HIDE DEF resolved
<1>4. OneRowPerTarget'
  BY <1>1, <1>2, <1>3 DEF IInv, OneRowPerTarget
<1>5. ResolvedOnce'
  <2> SUFFICES ASSUME NEW s \in suggestions, s.key \notin stale'
               PROVE  resolved(s).made = IF resolved(s).status = "approved" THEN 1 ELSE 0
    BY <1>1, <1>2 DEF ResolvedOnce
  <2>1. CASE ~SameRow(s, row)
    BY <1>2, <1>3, <2>1 DEF IInv, ResolvedOnce
  <2>2. CASE SameRow(s, row)
    <3>1. ReviewInformed(t) /\ s.key = row.key
      BY <2>2 DEF IInv, AllInformed, TxInformed, SameRow
    <3>2. s.made = 0
      BY <1>3, <3>1 DEF ReviewInformed, Pending
    <3>3. QED
      BY <1>2, <2>2, <3>2
  <2>3. QED
    BY <2>1, <2>2
<1>6. QED
  BY <1>1, <1>2, <1>4, <1>5 DEF IInv, Typed

LEMMA ApproveKeeps == ASSUME IInv, NEW t \in Worker, Approve(t) PROVE IInv'
<1>1. CASE Abort(t)
  BY <1>1, AbortKeeps
<1>2. CASE ~Abort(t)
  <2> DEFINE row == tx[t].row
  <2>1. PICK scope \in {row.scope, None} :
          exclusions' = exclusions \cup
             {[id |-> tx[t].id, key |-> row.key, scope |-> scope, uris |-> row.uris]}
    BY <1>2 DEF Approve
  <2>2. PICK new : new = [id |-> tx[t].id, key |-> row.key, scope |-> scope, uris |-> row.uris]
    OBVIOUS
  <2>3. /\ tx[t] # None /\ tx[t].kind = "approve"
        /\ Resolve(t, "approved", 1) /\ End(t, {row.key}) /\ UNCHANGED <<policy, custom, served>>
    BY <1>2 DEF Approve
  <2>4. /\ new.id = tx[t].id /\ new.key = row.key /\ DOMAIN new = {"id", "key", "scope", "uris"}
        /\ exclusions' = exclusions \cup {new}
    BY <2>1, <2>2
  <2>5. /\ new.id \in 1 .. served /\ Renderable(new.key)
        /\ DOMAIN new.key = {"rule", "collection", "value"} /\ Unused(new.id)
        /\ \A u \in Worker \ {t} : tx[u] # None /\ tx[u].kind = "approve" => tx[u].id # new.id
    BY <2>3, <2>4 DEF IInv, Typed, TxTyped, KeysDiffer
  <2>6. /\ OneRowPerTarget' /\ ResolvedOnce'
        /\ \A s \in suggestions' :
              SuggestionTyped(s) /\ DOMAIN s.key = {"rule", "collection", "value"} /\ Renderable(s.key)
        /\ \A s \in suggestions' : s.key # row.key => s \in suggestions
    BY <2>3, ResolveKeeps
  <2>7. /\ tx'[t] = None /\ DOMAIN tx' = Worker
        /\ \A u \in Worker \ {t} : Continues(u, {row.key})
        /\ stale \subseteq stale'
    BY <2>3, EndIs DEF IInv
  <2>8. Typed'
    <3>1. \A u \in Worker : TxTyped(u)'
      BY <2>3, <2>7, StaysTyped DEF IInv, Typed, TxTyped
    <3>2. QED
      BY <2>3, <2>4, <2>5, <2>6, <2>7, <3>1 DEF IInv, Typed, SuggestionTyped, Renderable
  <2>9. KeysDiffer'
    <3>1. \A d, e \in exclusions' : d.id = e.id => d = e
      BY <2>4, <2>5 DEF IInv, KeysDiffer, Unused
    <3>2. \A u \in Worker : tx'[u] # None =>
             /\ u # t /\ tx[u] # None /\ tx'[u].kind = tx[u].kind
             /\ tx[u].kind = "approve" => tx'[u].id = tx[u].id
             /\ tx[u].kind = "patch" => tx'[u].row = tx[u].row
      BY <2>7, SameFields DEF IInv
    <3>3. \A u \in Worker : tx'[u] # None /\ tx'[u].kind = "approve" => Unused(tx[u].id)'
      BY <2>4, <2>5, <3>2 DEF IInv, KeysDiffer, Unused
    <3>4. QED
      BY <3>1, <3>2, <3>3 DEF IInv, KeysDiffer, Unused
  <2>10. NoneIsSkipped'
    BY <2>4, <2>5, <2>7 DEF IInv, NoneIsSkipped, Rendered, RowOf, Renderable
  <2>11. AllInformed'
    <3>1. \A s \in suggestions' : s.key \notin {row.key} =>
             \E r \in suggestions : r.key = s.key /\ r.status = s.status /\ r.made = s.made
      BY <2>6
    <3>2. ASSUME NEW u \in Worker \ {t} PROVE TxInformed(u)'
      <4>1. \A e \in exclusions' :
               \/ \E d \in exclusions : d.id = e.id /\ d.key = e.key
               \/ tx[u] # None /\ tx[u].kind = "patch" => tx[u].row.id # e.id
        BY <2>4, <2>5 DEF Unused
      <4>2. QED
        BY <2>7, <3>1, <4>1, StaysInformed DEF IInv, AllInformed
    <3>3. QED
      BY <2>7, <3>2 DEF AllInformed, TxInformed
  <2>12. QED
    BY <2>6, <2>8, <2>9, <2>10, <2>11 DEF IInv
<1>3. QED
  BY <1>1, <1>2

LEMMA RejectKeeps == ASSUME IInv, NEW t \in Worker, Reject(t) PROVE IInv'
<1>1. CASE Abort(t)
  BY <1>1, AbortKeeps
<1>2. CASE ~Abort(t)
  <2> DEFINE row == tx[t].row
  <2>1. /\ tx[t] # None /\ tx[t].kind = "reject"
        /\ Resolve(t, "rejected", 0) /\ End(t, {row.key})
        /\ UNCHANGED <<policy, exclusions, custom, served>>
    BY <1>2 DEF Reject
  <2>2. /\ OneRowPerTarget' /\ ResolvedOnce'
        /\ \A s \in suggestions' :
              SuggestionTyped(s) /\ DOMAIN s.key = {"rule", "collection", "value"} /\ Renderable(s.key)
        /\ \A s \in suggestions' : s.key # row.key => s \in suggestions
    BY <2>1, ResolveKeeps
  <2>3. /\ tx'[t] = None /\ DOMAIN tx' = Worker
        /\ \A u \in Worker \ {t} : Continues(u, {row.key})
        /\ stale \subseteq stale'
    BY <2>1, EndIs DEF IInv
  <2>4. Typed'
    <3>1. \A u \in Worker : TxTyped(u)'
      BY <2>1, <2>3, StaysTyped DEF IInv, Typed, TxTyped
    <3>2. QED
      BY <2>1, <2>2, <2>3, <3>1 DEF IInv, Typed, SuggestionTyped, Renderable
  <2>5. KeysDiffer'
    BY <2>1, <2>3, KeysStillDiffer DEF IInv, KeysDiffer
  <2>6. NoneIsSkipped'
    BY <2>1, <2>3 DEF IInv, NoneIsSkipped, Rendered, RowOf, Renderable
  <2>7. AllInformed'
    <3>1. \A s \in suggestions' : s.key \notin {row.key} =>
             \E r \in suggestions : r.key = s.key /\ r.status = s.status /\ r.made = s.made
      BY <2>2
    <3>2. \A e \in exclusions' : \E d \in exclusions : d.id = e.id /\ d.key = e.key
      BY <2>1
    <3>3. \A u \in Worker \ {t} : TxInformed(u)'
      BY <2>3, <3>1, <3>2, StaysInformed DEF IInv, AllInformed
    <3>4. QED
      BY <2>3, <3>3 DEF AllInformed, TxInformed
  <2>8. QED
    BY <2>2, <2>4, <2>5, <2>6, <2>7 DEF IInv
<1>3. QED
  BY <1>1, <1>2

-----------------------------------------------------------------------------
\* Exclusions, custom rules, the policy

LEMMA AtOnceIs ==
    ASSUME IInv, NEW t \in Worker, NEW keys, AtOnce(t, keys)
    PROVE  /\ served' = served + 1 /\ served' \in Nat /\ served <= served' /\ served' \in 1 .. served'
           /\ tx'[t] = None /\ DOMAIN tx' = Worker
           /\ \A u \in Worker \ {t} : Continues(u, keys)
           /\ stale \subseteq stale'
<1>1. served' = served + 1 /\ served \in Nat /\ End(t, keys) /\ Typed
  BY DEF AtOnce, IInv, Typed
<1>2. /\ tx'[t] = None /\ DOMAIN tx' = Worker
      /\ \A u \in Worker \ {t} : Continues(u, keys)
      /\ stale \subseteq stale'
  BY <1>1, EndIs
<1>3. QED
  BY <1>1, <1>2

LEMMA CreateExclusionKeeps ==
    ASSUME IInv, NEW t \in Worker, NEW key \in AllKeys, NEW scope, CreateExclusion(t, key, scope)
    PROVE  IInv'
<1>1. PICK new : new = [id |-> served', key |-> key, scope |-> scope, uris |-> {}]
  OBVIOUS
<1>2. /\ new.id = served' /\ new.key = key /\ DOMAIN new = {"id", "key", "scope", "uris"}
      /\ exclusions' = exclusions \cup {new}
      /\ Renderable(key) /\ AtOnce(t, {}) /\ UNCHANGED <<policy, suggestions, custom>>
  BY <1>1 DEF CreateExclusion
<1>3. /\ served' = served + 1 /\ served' \in Nat /\ served <= served' /\ served' \in 1 .. served'
      /\ tx'[t] = None /\ DOMAIN tx' = Worker
      /\ \A u \in Worker \ {t} : Continues(u, {})
      /\ stale \subseteq stale'
  BY <1>2, AtOnceIs
<1>4. DOMAIN key = {"rule", "collection", "value"}
  <2>1. PICK w \in Windows : \E e \in w : key = e.key
    BY DEF AllKeys
  <2>2. QED
    BY <2>1, TargetsRender
<1>5. /\ Unused(served')
      /\ \A u \in Worker : tx[u] # None /\ tx[u].kind = "approve" => tx[u].id # served'
  BY <1>3 DEF IInv, Typed, TxTyped, Unused
<1>6. Typed'
  <2>1. \A u \in Worker : TxTyped(u)'
    BY <1>3, StaysTyped DEF IInv, TxTyped
  <2>2. \A e \in exclusions' :
           /\ DOMAIN e = {"id", "key", "scope", "uris"} /\ e.id \in 1 .. served'
           /\ DOMAIN e.key = {"rule", "collection", "value"}
    BY <1>2, <1>3, <1>4 DEF IInv, Typed
  <2>3. QED
    BY <1>2, <1>3, <2>1, <2>2 DEF IInv, Typed, SuggestionTyped, Renderable
<1>7. KeysDiffer'
  <2>1. \A d, e \in exclusions' : d.id = e.id => d = e
    BY <1>2, <1>5 DEF IInv, KeysDiffer, Unused
  <2>2. \A u \in Worker : tx'[u] # None =>
           /\ u # t /\ tx[u] # None /\ tx'[u].kind = tx[u].kind
           /\ tx[u].kind = "approve" => tx'[u].id = tx[u].id
           /\ tx[u].kind = "patch" => tx'[u].row = tx[u].row
    BY <1>3, SameFields DEF IInv
  <2>3. \A u \in Worker : tx'[u] # None /\ tx'[u].kind = "approve" => Unused(tx[u].id)'
    BY <1>2, <1>5, <2>2 DEF IInv, KeysDiffer, Unused
  <2>4. QED
    BY <2>1, <2>2, <2>3 DEF IInv, KeysDiffer, Unused
<1>8. OneRowPerTarget' /\ ResolvedOnce'
  BY <1>2, <1>3 DEF IInv, OneRowPerTarget, ResolvedOnce
<1>9. NoneIsSkipped'
  BY <1>2, <1>3 DEF IInv, NoneIsSkipped, Rendered, RowOf, Renderable
<1>10. AllInformed'
  <2>1. ASSUME NEW u \in Worker \ {t} PROVE TxInformed(u)'
    <3>1. \A e \in exclusions' :
             \/ \E d \in exclusions : d.id = e.id /\ d.key = e.key
             \/ tx[u] # None /\ tx[u].kind = "patch" => tx[u].row.id # e.id
      BY <1>2, <1>5 DEF Unused
    <3>2. \A s \in suggestions' :
             \E r \in suggestions : r.key = s.key /\ r.status = s.status /\ r.made = s.made
      BY <1>2
    <3>3. QED
      BY <1>3, <3>1, <3>2, StaysInformed DEF IInv, AllInformed
  <2>2. QED
    BY <1>3, <2>1 DEF AllInformed, TxInformed
<1>11. QED
  BY <1>6, <1>7, <1>8, <1>9, <1>10 DEF IInv

LEMMA ReadExclusionKeeps ==
    ASSUME IInv, NEW t \in Worker, NEW e \in exclusions, NEW patch \in Patches,
           ReadExclusion(t, e, patch)
    PROVE  IInv'
<1> DEFINE txn == [kind |-> "patch", row |-> e, patch |-> patch, touched |-> {}]
<1>1. Begin(t, txn) /\ Renderable(Patched(e.key, patch))
  BY DEF ReadExclusion
<1>2. /\ DOMAIN txn = {"kind", "row", "patch", "touched"} /\ txn.kind = "patch"
      /\ txn.row = e /\ txn.patch = patch
  OBVIOUS
<1> HIDE DEF txn
<1>3. /\ served' = served + 1 /\ served' \in Nat /\ served <= served'
      /\ tx'[t] = txn /\ DOMAIN tx' = Worker
      /\ \A u \in Worker \ {t} : tx'[u] = tx[u]
      /\ UNCHANGED <<tables, stale>>
  BY <1>1, BeginIs
<1>4. TxTyped(t)'
  BY <1>2, <1>3 DEF TxTyped, Fields, IInv, Typed
<1>5. TxInformed(t)'
  <2>1. \A d \in exclusions : d.id = e.id => d.key = e.key
    BY DEF IInv, KeysDiffer
  <2>2. exclusions' = exclusions
    BY <1>3 DEF tables
  <2>3. PatchInformed(t)'
    BY <1>1, <1>2, <1>3, <2>1, <2>2 DEF PatchInformed, Renderable
  <2>4. QED
    BY <1>2, <1>3, <2>3 DEF TxInformed
<1>6. QED
  BY <1>2, <1>3, <1>4, <1>5, ReadingKeeps

\* The key of the row a PATCH leaves is the one it checked, if nobody else has
\* changed the row.
LEMMA WrittenKey ==
    ASSUME NEW t \in Worker, NEW e, DOMAIN e = {"id", "key", "scope", "uris"},
           DOMAIN e.key = {"rule", "collection", "value"},
           DOMAIN tx[t].patch = {"collection", "value"}
    PROVE  /\ Written(t, e).id = e.id /\ DOMAIN Written(t, e) = DOMAIN e
           /\ DOMAIN Written(t, e).key = DOMAIN e.key
           /\ e.key = tx[t].row.key /\ Renderable(Patched(tx[t].row.key, tx[t].patch))
                 => Renderable(Written(t, e).key)
<1> DEFINE patch == tx[t].patch
           changes(col) == col \in DOMAIN patch /\ patch[col] \notin {Unset, tx[t].row.key[col]}
           key == [col \in DOMAIN e.key |-> IF changes(col) THEN patch[col] ELSE e.key[col]]
<1>1. Written(t, e) = [e EXCEPT !.key = key, !.uris = {}]
  BY DEF Written
<1>2. DOMAIN key = DOMAIN e.key
  OBVIOUS
<1>3. e.key = tx[t].row.key =>
         /\ key["collection"] = Patched(tx[t].row.key, patch)["collection"]
         /\ key["value"] = Patched(tx[t].row.key, patch)["value"]
  BY DEF Patched
<1> HIDE DEF key
<1>4. Written(t, e).key = key /\ Written(t, e).id = e.id /\ DOMAIN Written(t, e) = DOMAIN e
  BY <1>1
<1>5. QED
  BY <1>2, <1>3, <1>4 DEF Renderable

LEMMA CommitExclusionKeeps == ASSUME IInv, NEW t \in Worker, CommitExclusion(t) PROVE IInv'
<1>1. CASE Abort(t)
  BY <1>1, AbortKeeps
<1>2. CASE ~Abort(t)
  <2> DEFINE read == tx[t].row
             now == {e \in exclusions : e.id = read.id}
  <2>1. /\ tx[t] # None /\ tx[t].kind = "patch" /\ End(t, {RowOf(read)})
        /\ exclusions' = (exclusions \ now) \cup {Written(t, e) : e \in now}
        /\ UNCHANGED <<policy, suggestions, custom, served>>
    BY <1>2 DEF CommitExclusion
  <2>2. DOMAIN tx[t].patch = {"collection", "value"}
    BY <2>1, PatchFields DEF IInv, Typed, TxTyped
  <2>3. ASSUME NEW e \in now
        PROVE  /\ Written(t, e).id = e.id
               /\ DOMAIN Written(t, e) = {"id", "key", "scope", "uris"}
               /\ DOMAIN Written(t, e).key = {"rule", "collection", "value"}
    BY <2>2, WrittenKey DEF IInv, Typed
  <2>4. /\ tx'[t] = None /\ DOMAIN tx' = Worker
        /\ \A u \in Worker \ {t} : Continues(u, {RowOf(read)})
        /\ stale \subseteq stale'
        /\ RowOf(read) \notin stale' => RowOf(read) \notin stale \cup tx[t].touched
    BY <2>1, EndIs DEF IInv
  <2>5. ASSUME NEW e \in now, RowOf(read) \notin stale' PROVE Renderable(Written(t, e).key)
    <3>1. e.key = read.key /\ Renderable(Patched(read.key, tx[t].patch))
      BY <2>1, <2>4, <2>5 DEF IInv, AllInformed, TxInformed, PatchInformed
    <3>2. DOMAIN e = {"id", "key", "scope", "uris"} /\ DOMAIN e.key = {"rule", "collection", "value"}
      BY DEF IInv, Typed
    <3>3. QED
      BY <2>2, <3>1, <3>2, WrittenKey
  <2>6. Typed'
    <3>1. \A u \in Worker : TxTyped(u)'
      BY <2>1, <2>4, StaysTyped DEF IInv, Typed, TxTyped
    <3>2. \A e \in exclusions' :
             /\ DOMAIN e = {"id", "key", "scope", "uris"} /\ e.id \in 1 .. served'
             /\ DOMAIN e.key = {"rule", "collection", "value"}
      BY <2>1, <2>3 DEF IInv, Typed
    <3>3. QED
      BY <2>1, <2>4, <3>1, <3>2 DEF IInv, Typed, SuggestionTyped, Renderable
  <2>7. KeysDiffer'
    <3>1. \A e \in exclusions' : \E d \in exclusions : d.id = e.id
      BY <2>1, <2>3
    <3>2. \A d, e \in exclusions' : d.id = e.id => d = e
      BY <2>1, <2>3 DEF IInv, KeysDiffer
    <3>3. QED
      BY <2>4, <3>1, <3>2, KeysStillDiffer DEF IInv
  <2>8. OneRowPerTarget' /\ ResolvedOnce'
    BY <2>1, <2>4 DEF IInv, OneRowPerTarget, ResolvedOnce
  <2>9. NoneIsSkipped'
    <3> SUFFICES ASSUME NEW e \in exclusions', RowOf(e) \notin stale' PROVE Renderable(e.key)
      BY DEF NoneIsSkipped, Rendered, RowOf, Renderable
    <3>1. CASE e \in exclusions
      BY <2>4, <3>1 DEF IInv, NoneIsSkipped, Rendered
    <3>2. CASE \E d \in now : e = Written(t, d)
      <4>1. PICK d \in now : e = Written(t, d)
        BY <3>2
      <4>2. RowOf(e) = RowOf(read)
        BY <2>3, <4>1 DEF RowOf
      <4>3. QED
        BY <2>5, <4>1, <4>2
    <3>3. QED
      BY <2>1, <3>1, <3>2
  <2>10. AllInformed'
    <3>1. \A e \in exclusions' :
             RowOf(e) \in {RowOf(read)} \/ \E d \in exclusions : d.id = e.id /\ d.key = e.key
      BY <2>1, <2>3 DEF RowOf
    <3>2. \A s \in suggestions' :
             \E r \in suggestions : r.key = s.key /\ r.status = s.status /\ r.made = s.made
      BY <2>1
    <3>3. \A u \in Worker \ {t} : TxInformed(u)'
      BY <2>4, <3>1, <3>2, StaysInformed DEF IInv, AllInformed
    <3>4. QED
      BY <2>4, <3>3 DEF AllInformed, TxInformed
  <2>11. QED
    BY <2>6, <2>7, <2>8, <2>9, <2>10 DEF IInv
<1>3. QED
  BY <1>1, <1>2

\* The requests that write at once and insert nothing with a key.
LEMMA AtOnceKeeps ==
    ASSUME IInv, NEW t \in Worker, NEW keys, AtOnce(t, keys),
           suggestions' \subseteq suggestions, exclusions' \subseteq exclusions,
           custom' \subseteq CustomIds
    PROVE  IInv'
<1>1. /\ served' \in Nat /\ served <= served'
      /\ tx'[t] = None /\ DOMAIN tx' = Worker
      /\ \A u \in Worker \ {t} : Continues(u, keys)
      /\ stale \subseteq stale'
  BY AtOnceIs
<1>2. QED
  BY <1>1, DeletingKeeps

-----------------------------------------------------------------------------
LEMMA NextKeepsIInv == ASSUME IInv, [Next]_vars PROVE IInv'
<1>1. CASE UNCHANGED vars
  BY <1>1 DEF vars, IInv, Typed, TxTyped, SuggestionTyped, Renderable, KeysDiffer, Unused,
              OneRowPerTarget, ResolvedOnce, NoneIsSkipped, Rendered, RowOf, AllInformed, TxInformed,
              AnalysisInformed, ReviewInformed, Pending, PatchInformed
<1>2. ASSUME NEW t \in Worker, SuggestionRequests(t) PROVE IInv'
  BY <1>2, AnalyzeKeeps, ReadSuggestionsKeeps, CommitAnalysisKeeps, ReviewKeeps, ApproveKeeps,
     RejectKeeps DEF SuggestionRequests
<1>3. ASSUME NEW t \in Worker, ExclusionRequests(t) PROVE IInv'
  <2>1. ASSUME NEW e \in exclusions, DeleteExclusion(t, e) PROVE IInv'
    <3>1. /\ AtOnce(t, {RowOf(e)}) /\ suggestions' \subseteq suggestions
          /\ exclusions' \subseteq exclusions /\ custom' \subseteq CustomIds
      BY <2>1 DEF DeleteExclusion, IInv, Typed
    <3>2. QED
      BY <3>1, AtOnceKeeps
  <2>2. QED
    BY <1>3, <2>1, CreateExclusionKeeps, ReadExclusionKeeps, CommitExclusionKeeps
       DEF ExclusionRequests
<1>4. ASSUME NEW t \in Worker, CustomRuleRequests(t) PROVE IInv'
  <2>1. /\ AtOnce(t, {}) /\ suggestions' \subseteq suggestions
        /\ exclusions' \subseteq exclusions /\ custom' \subseteq CustomIds
    BY <1>4 DEF CustomRuleRequests, NumberCustomRule, DeleteCustomRule, IInv, Typed
  <2>2. QED
    BY <2>1, AtOnceKeeps
<1>5. ASSUME NEW t \in Worker, DeletePolicy(t) PROVE IInv'
  <2>1. PICK keys : AtOnce(t, keys)
    BY <1>5 DEF DeletePolicy
  <2>2. suggestions' = {} /\ exclusions' = {} /\ custom' = {}
    BY <1>5 DEF DeletePolicy
  <2>3. QED
    BY <2>1, <2>2, AtOnceKeeps
<1>6. QED
  BY <1>1, <1>2, <1>3, <1>4, <1>5 DEF Next

-----------------------------------------------------------------------------
\* The strengthening the theorems below follow from.
THEOREM Inductive == Spec => []IInv
<1>1. Init => IInv
  BY InitInvariant
<1>2. IInv /\ [Next]_vars => IInv'
  BY NextKeepsIInv
<1>3. QED
  BY <1>1, <1>2, PTL DEF Spec

\* "One row per (policy, rule, target)" (models/tuning_suggestion.py): only an
\* analysis that overlaps with another writer of the target adds a second one.
THEOREM TargetsHaveOneRow == Spec => []OneRowPerTarget
<1>1. IInv => OneRowPerTarget
  BY DEF IInv
<1>2. QED
  BY <1>1, Inductive, PTL

\* _pending_suggestion: a suggestion makes an exclusion once, and only if it
\* was approved, unless two reviews overlapped.
THEOREM ReviewsAreFinal == Spec => []ResolvedOnce
<1>1. IInv => ResolvedOnce
  BY DEF IInv
<1>2. QED
  BY <1>1, Inductive, PTL

\* update_exclusion checks the merged row: the renderer skips no exclusion,
\* unless two PATCHes of it overlapped.
THEOREM ExclusionsRender == Spec => []NoneIsSkipped
<1>1. IInv => NoneIsSkipped
  BY DEF IInv
<1>2. QED
  BY <1>1, Inductive, PTL

\* The control rules of an exclusion take numbers of its own, outside the range
\* of custom rules (_control_rule_ids_for_scoped_exclusions).
THEOREM RulesHaveTheirNumbers == Spec => []RuleIdsDiffer
<1>1. ASSUME NEW e, NEW n \in ControlRules(e)
      PROVE  \E r \in 0 .. 2 : n = ControlId(e) + r
  <2>1. e.scope # None
    BY <1>1 DEF ControlRules
  <2>2. PICK m \in ScopeMatchers(e.scope, [path |-> e.scope, query |-> FALSE]) :
          n = ControlId(e) + m.rule
    BY <1>1, <2>1 DEF ControlRules
  <2>3. m.rule \in 0 .. 2
    BY <2>2 DEF ScopeMatchers
  <2>4. QED
    BY <2>2, <2>3
<1>2. ASSUME IInv, NEW d \in Rendered, NEW e \in Rendered, d # e
      PROVE  ControlRules(d) \cap ControlRules(e) = {}
  <2>1. d.id \in Nat /\ e.id \in Nat /\ d.id # e.id
    BY <1>2 DEF IInv, Typed, KeysDiffer, Rendered
  <2>2. \A q, r \in 0 .. 2 : ControlId(d) + q # ControlId(e) + r
    BY <2>1, SMT DEF ControlId
  <2>3. QED
    BY <1>1, <2>2
<1>3. ASSUME IInv, NEW e \in Rendered PROVE ControlRules(e) \cap custom = {}
  <2>1. e.id \in Nat
    BY <1>3 DEF IInv, Typed, Rendered
  <2>2. \A r \in 0 .. 2 : ControlId(e) + r >= 9100000
    BY <2>1, SMT DEF ControlId
  <2>3. \A n \in custom : n \in Nat /\ n < 9100000
    BY <1>3, CustomRange DEF IInv, Typed
  <2>4. \A n \in ControlRules(e) : n \in Nat /\ n >= 9100000
    BY <1>1, <2>1, <2>2, SMT DEF ControlId
  <2>5. QED
    BY <2>3, <2>4, SMT
<1>4. IInv => RuleIdsDiffer
  BY <1>2, <1>3 DEF RuleIdsDiffer
<1>5. QED
  BY <1>4, Inductive, PTL

-----------------------------------------------------------------------------
\* Scopes

LEMMA Characters == Slash \in Character /\ QuestionMark \in Character /\ Slash # QuestionMark
BY CharacterAssumption DEF CharacterAssumption, Slash, QuestionMark

LEMMA PrefixIs ==
    ASSUME NEW s \in Seq(Character), NEW p \in Seq(Character)
    PROVE  IsPrefix(s, p) <=> Len(s) <= Len(p) /\ \A i \in 1 .. Len(s) : s[i] = p[i]
<1>1. CASE Len(s) <= Len(p)
  <2>1. /\ Len(SubSeq(s, 1, Len(s))) = Len(s) /\ Len(SubSeq(p, 1, Len(s))) = Len(s)
        /\ \A i \in 1 .. Len(s) :
              SubSeq(s, 1, Len(s))[i] = s[i] /\ SubSeq(p, 1, Len(s))[i] = p[i]
    BY <1>1
  <2>2. SubSeq(s, 1, Len(s)) = SubSeq(p, 1, Len(s)) <=> \A i \in 1 .. Len(s) : s[i] = p[i]
    <3>1. /\ SubSeq(s, 1, Len(s)) \in Seq(Character) /\ SubSeq(p, 1, Len(s)) \in Seq(Character)
      BY <1>1
    <3>2. QED
      BY <2>1, <3>1
  <2>3. QED
    BY <1>1, <2>2 DEF IsPrefix
<1>2. CASE ~(Len(s) <= Len(p))
  BY <1>2 DEF IsPrefix
<1>3. QED
  BY <1>1, <1>2

\* A scope and its continuation with one more character.
LEMMA PrefixAppend ==
    ASSUME NEW s \in Seq(Character), NEW c \in Character, NEW p \in Seq(Character)
    PROVE  IsPrefix(Append(s, c), p) <=> IsPrefix(s, p) /\ Len(s) < Len(p) /\ p[Len(s) + 1] = c
<1>1. /\ Append(s, c) \in Seq(Character) /\ Len(Append(s, c)) = Len(s) + 1
      /\ \A i \in 1 .. Len(s) : Append(s, c)[i] = s[i]
      /\ Append(s, c)[Len(s) + 1] = c
  OBVIOUS
<1>2. Len(s) \in Nat /\ Len(p) \in Nat
  OBVIOUS
<1> HIDE DEF IsPrefix
<1>3. IsPrefix(Append(s, c), p) <=>
         Len(s) + 1 <= Len(p) /\ \A i \in 1 .. Len(s) + 1 : Append(s, c)[i] = p[i]
  BY <1>1, PrefixIs
<1>4. IsPrefix(s, p) <=> Len(s) <= Len(p) /\ \A i \in 1 .. Len(s) : s[i] = p[i]
  BY PrefixIs
<1>5. ASSUME \A i \in 1 .. Len(s) + 1 : Append(s, c)[i] = p[i]
      PROVE  (\A i \in 1 .. Len(s) : s[i] = p[i]) /\ p[Len(s) + 1] = c
  BY <1>1, <1>2, <1>5
<1>6. ASSUME \A i \in 1 .. Len(s) : s[i] = p[i], p[Len(s) + 1] = c
      PROVE  \A i \in 1 .. Len(s) + 1 : Append(s, c)[i] = p[i]
  <2>1. ASSUME NEW i \in 1 .. Len(s) + 1 PROVE Append(s, c)[i] = p[i]
    <3>1. i \in 1 .. Len(s) \/ i = Len(s) + 1
      BY <1>2
    <3>2. QED
      BY <1>1, <1>6, <3>1
  <2>2. QED
    BY <2>1
<1>7. QED
  BY <1>2, <1>3, <1>4, <1>5, <1>6

\* Which of the control rules of a scope fire on a request.
LEMMA MatchersAre ==
    ASSUME NEW scope, NEW uri
    PROVE  (\E m \in ScopeMatchers(scope, uri) : m.fires) <=>
               IF EndsInSlash(scope)
               THEN IsPrefix(scope, RawUri(uri))
               ELSE \/ RawUri(uri) = scope
                    \/ IsPrefix(Append(scope, QuestionMark), RawUri(uri))
                    \/ IsPrefix(Append(scope, Slash), RawUri(uri))
<1> DEFINE under == IsPrefix(scope, RawUri(uri))
           same == RawUri(uri) = scope
           asked == IsPrefix(Append(scope, QuestionMark), RawUri(uri))
           below == IsPrefix(Append(scope, Slash), RawUri(uri))
<1>1. /\ under \in BOOLEAN /\ same \in BOOLEAN /\ asked \in BOOLEAN /\ below \in BOOLEAN
  BY DEF IsPrefix
<1>2. ScopeMatchers(scope, uri) =
         IF EndsInSlash(scope)
         THEN {[rule |-> 0, fires |-> under]}
         ELSE {[rule |-> 0, fires |-> same], [rule |-> 1, fires |-> asked],
               [rule |-> 2, fires |-> below]}
  BY DEF ScopeMatchers
<1> HIDE DEF under, same, asked, below
<1>3. (\E m \in ScopeMatchers(scope, uri) : m.fires)
          <=> IF EndsInSlash(scope) THEN under ELSE same \/ asked \/ below
  <2>1. CASE EndsInSlash(scope)
    <3>1. ScopeMatchers(scope, uri) = {[rule |-> 0, fires |-> under]}
      BY <1>2, <2>1
    <3>2. [rule |-> 0, fires |-> under].fires = under
      OBVIOUS
    <3>3. QED
      BY <2>1, <3>1, <3>2, Zenon
  <2>2. CASE ~EndsInSlash(scope)
    <3>1. ASSUME NEW m \in ScopeMatchers(scope, uri), m.fires PROVE same \/ asked \/ below
      BY <1>1, <1>2, <2>2, <3>1
    <3>2. /\ [rule |-> 0, fires |-> same] \in ScopeMatchers(scope, uri)
          /\ [rule |-> 1, fires |-> asked] \in ScopeMatchers(scope, uri)
          /\ [rule |-> 2, fires |-> below] \in ScopeMatchers(scope, uri)
      BY <1>2, <2>2
    <3>3. /\ [rule |-> 0, fires |-> same].fires = same
          /\ [rule |-> 1, fires |-> asked].fires = asked
          /\ [rule |-> 2, fires |-> below].fires = below
      OBVIOUS
    <3>4. QED
      BY <2>2, <3>1, <3>2, <3>3, Zenon
  <2>3. QED
    BY <2>1, <2>2
<1>4. QED
  BY <1>3 DEF under, same, asked, below

\* The control rules fire on a request exactly if its path is in the scope: the
\* "?" of rule 1 can only be where the query string begins.
LEMMA MatchersAgree ==
    ASSUME NEW path, NEW scope, IsPath(path), IsPath(scope), NEW query \in BOOLEAN
    PROVE  (\E m \in ScopeMatchers(scope, [path |-> path, query |-> query]) : m.fires)
               <=> WithinScope(path, scope)
<1> DEFINE raw == RawUri([path |-> path, query |-> query])
<1>0. Slash \in Character /\ QuestionMark \in Character /\ Slash # QuestionMark
  BY Characters
<1>1. /\ path \in Seq(Character) /\ scope \in Seq(Character) /\ scope # <<>>
      /\ \A i \in 1 .. Len(path) : path[i] # QuestionMark
      /\ \A i \in 1 .. Len(scope) : scope[i] # QuestionMark
  BY DEF IsPath
<1>2. /\ raw \in Seq(Character)
      /\ query => Len(raw) = Len(path) + 1
      /\ \A i \in 1 .. Len(path) : raw[i] = path[i]
      /\ query => raw[Len(path) + 1] = QuestionMark
      /\ ~query => raw = path
  <2>1. raw = path \o IF query THEN <<QuestionMark>> ELSE <<>>
    BY DEF RawUri
  <2>2. CASE query
    <3>1. raw = path \o <<QuestionMark>>
      BY <2>1, <2>2
    <3>2. <<QuestionMark>> \in Seq(Character) /\ Len(<<QuestionMark>>) = 1
          /\ <<QuestionMark>>[1] = QuestionMark
      BY <1>0
    <3> HIDE DEF raw
    <3>3. QED
      BY <1>1, <2>2, <3>1, <3>2, ConcatProperties
  <2>3. CASE ~query
    <3>1. raw = path \o <<>>
      BY <2>1, <2>3
    <3>2. raw = path
      BY <1>1, <3>1, ConcatEmptySeq
    <3> HIDE DEF raw
    <3>3. QED
      BY <1>1, <2>3, <3>2
  <2>4. QED
    BY <2>2, <2>3
<1> HIDE DEF raw
<1>3. Len(path) \in Nat /\ Len(scope) \in Nat /\ Len(scope) > 0 /\ Len(raw) \in Nat
  BY <1>1, <1>2
<1>4. ASSUME NEW s \in Seq(Character), Len(s) > 0, s[Len(s)] # QuestionMark
      PROVE  IsPrefix(s, raw) <=> IsPrefix(s, path)
  <2>1. Len(s) \in Nat /\ Len(s) \in 1 .. Len(s)
    BY <1>4
  <2>2. IsPrefix(s, raw) <=> Len(s) <= Len(raw) /\ \A i \in 1 .. Len(s) : s[i] = raw[i]
    BY <1>2, PrefixIs
  <2>3. IsPrefix(s, path) <=> Len(s) <= Len(path) /\ \A i \in 1 .. Len(s) : s[i] = path[i]
    BY <1>1, PrefixIs
  <2>4. IsPrefix(s, path) => IsPrefix(s, raw)
    BY <1>2, <1>3, <2>1, <2>2, <2>3
  <2>5. IsPrefix(s, raw) => Len(s) <= Len(path)
    BY <1>2, <1>3, <1>4, <2>1, <2>2
  <2>6. IsPrefix(s, raw) => IsPrefix(s, path)
    BY <1>2, <1>3, <2>1, <2>2, <2>3, <2>5
  <2>7. QED
    BY <2>4, <2>6
<1>5. CASE EndsInSlash(scope)
  <2>1. IsPrefix(scope, raw) <=> IsPrefix(scope, path)
    BY <1>0, <1>1, <1>3, <1>4, <1>5 DEF EndsInSlash, Last
  <2>2. (\E m \in ScopeMatchers(scope, [path |-> path, query |-> query]) : m.fires)
            <=> IsPrefix(scope, raw)
    BY <1>5, MatchersAre DEF raw
  <2>3. QED
    BY <1>5, <2>1, <2>2 DEF WithinScope
<1>6. CASE ~EndsInSlash(scope)
  <2>1. IsPrefix(Append(scope, Slash), raw) <=> IsPrefix(Append(scope, Slash), path)
    <3>1. /\ Append(scope, Slash) \in Seq(Character) /\ Len(Append(scope, Slash)) > 0
          /\ Append(scope, Slash)[Len(Append(scope, Slash))] = Slash
      BY <1>0, <1>1
    <3>2. QED
      BY <1>0, <1>4, <3>1
  <2>2. IsPrefix(scope, raw) /\ IsPrefix(Append(scope, QuestionMark), raw) => path = scope
    <3> SUFFICES ASSUME IsPrefix(Append(scope, QuestionMark), raw) PROVE path = scope
      OBVIOUS
    <3>1. IsPrefix(scope, raw) /\ Len(scope) < Len(raw) /\ raw[Len(scope) + 1] = QuestionMark
      BY <1>0, <1>1, <1>2, PrefixAppend
    <3>2. Len(scope) = Len(path)
      <4>1. ~(Len(scope) < Len(path))
        <5> SUFFICES ASSUME Len(scope) < Len(path) PROVE FALSE
          OBVIOUS
        <5>1. Len(scope) + 1 \in 1 .. Len(path)
          BY <1>3
        <5>2. QED
          BY <1>1, <1>2, <3>1, <5>1
      <4>2. Len(raw) <= Len(path) + 1
        BY <1>2, <1>3
      <4>3. QED
        BY <1>3, <3>1, <4>1, <4>2
    <3>3. \A i \in 1 .. Len(scope) : scope[i] = raw[i]
      BY <1>1, <1>2, <3>1, PrefixIs
    <3>4. \A i \in 1 .. Len(scope) : scope[i] = path[i]
      BY <1>2, <3>2, <3>3
    <3>5. QED
      BY <1>1, <3>2, <3>4
  <2>3. IsPrefix(Append(scope, QuestionMark), raw) => path = scope
    BY <1>1, <1>2, <1>0, <2>2, PrefixAppend
  <2>4. raw = scope => path = scope
    BY <1>1, <1>2, <1>3
  <2>5. path = scope => raw = scope \/ IsPrefix(Append(scope, QuestionMark), raw)
    <3> SUFFICES ASSUME path = scope, query PROVE IsPrefix(Append(scope, QuestionMark), raw)
      BY <1>2
    <3>1. IsPrefix(scope, raw)
      BY <1>1, <1>2, <1>3, PrefixIs
    <3>2. QED
      BY <1>1, <1>2, <1>3, <1>0, <3>1, PrefixAppend
  <2>6. (\E m \in ScopeMatchers(scope, [path |-> path, query |-> query]) : m.fires)
            <=> \/ raw = scope
                \/ IsPrefix(Append(scope, QuestionMark), raw)
                \/ IsPrefix(Append(scope, Slash), raw)
    BY <1>6, MatchersAre DEF raw
  <2>7. QED
    BY <1>6, <2>1, <2>3, <2>4, <2>5, <2>6 DEF WithinScope
<1>7. QED
  BY <1>5, <1>6

LEMMA SmallestExists ==
    ASSUME NEW S \in SUBSET Nat, S # {}
    PROVE  \E i \in S : \A j \in S : i <= j
<1> DEFINE R == OpToRel(<, Nat)
<1>1. IsWellFoundedOn(R, Nat)
  BY NatLessThanWellFounded
<1> HIDE DEF R
<1>2. PICK i \in S : \A j \in S : <<j, i>> \notin R
  BY <1>1, WFMin
<1>3. \A j \in S : ~(j < i)
  BY <1>2 DEF R, OpToRel
<1>4. QED
  BY <1>3

LEMMA LargestExists ==
    ASSUME NEW N \in Nat, NEW S \in SUBSET (0 .. N), S # {}
    PROVE  Max(S) \in S
<1> DEFINE T == {N - n : n \in S}
<1>1. T \subseteq Nat /\ T # {}
  <2>1. \A n \in S : N - n \in Nat
    OBVIOUS
  <2>2. QED
    BY <2>1
<1>2. PICK i \in T : \A j \in T : i <= j
  BY <1>1, SmallestExists
<1>3. PICK x \in S : i = N - x
  OBVIOUS
<1>4. \A y \in S : x >= y
  <2>1. \A y \in S : i <= N - y
    BY <1>2
  <2>2. QED
    BY <1>3, <2>1
<1>5. QED
  BY <1>3, <1>4 DEF Max

\* The segments all of them begin with: a prefix of each, cut at a segment.
LEMMA SharedByAll ==
    ASSUME NEW paths, paths # {}, \A p \in paths : IsPath(p)
    PROVE  \E one \in paths : \E n \in Cuts(one) :
              /\ SharedSegments(paths) = SubSeq(one, 1, n)
              /\ \A p \in paths : n \in Cuts(p) /\ SubSeq(p, 1, n) = SubSeq(one, 1, n)
<1> DEFINE one == CHOOSE p \in paths : TRUE
           shared == {n \in Cuts(one) :
                         \A p \in paths : n \in Cuts(p) /\ SubSeq(p, 1, n) = SubSeq(one, 1, n)}
<1>1. one \in paths
  OBVIOUS
<1> HIDE DEF one
<1>2. \A p \in paths : Len(p) \in Nat /\ 0 \in Cuts(p) /\ SubSeq(p, 1, 0) = <<>>
  BY DEF IsPath, Cuts
<1>3. 0 \in shared
  BY <1>1, <1>2
<1>4. shared \subseteq 0 .. Len(one)
  BY DEF Cuts
<1>5. Max(shared) \in shared
  BY <1>1, <1>2, <1>3, <1>4, LargestExists
<1>6. SharedSegments(paths) = SubSeq(one, 1, Max(shared))
  BY DEF SharedSegments, one
<1>7. QED
  BY <1>1, <1>5, <1>6

\* common_scope_path covers every path it was given.
LEMMA CommonScopeCovers ==
    ASSUME NEW paths, paths # {}, None \notin paths, \A p \in paths : IsPath(p)
    PROVE  /\ IsPath(CommonScope(paths))
           /\ \A p \in paths : WithinScope(p, CommonScope(paths))
<1> DEFINE shared == SharedSegments(paths)
<1>1. PICK one \in paths : \E n \in Cuts(one) :
        /\ shared = SubSeq(one, 1, n)
        /\ \A p \in paths : n \in Cuts(p) /\ SubSeq(p, 1, n) = SubSeq(one, 1, n)
  BY SharedByAll
<1>2. PICK n \in Cuts(one) :
        /\ shared = SubSeq(one, 1, n)
        /\ \A p \in paths : n \in Cuts(p) /\ SubSeq(p, 1, n) = SubSeq(one, 1, n)
  BY <1>1
<1>3. \A p \in paths :
         /\ p \in Seq(Character) /\ Len(p) \in Nat /\ p # <<>> /\ p[1] = Slash
         /\ \A i \in 1 .. Len(p) : p[i] # QuestionMark
  BY DEF IsPath
<1>4. n \in Nat /\ \A p \in paths : n <= Len(p) /\ (n = Len(p) \/ p[n + 1] = Slash)
  BY <1>3, <1>2 DEF Cuts
<1>5. shared \in Seq(Character) /\ Len(shared) = n
  BY <1>3, <1>4, <1>2
<1>6. ASSUME NEW p \in paths, NEW i \in 1 .. n PROVE p[i] = shared[i]
  <2>1. SubSeq(p, 1, n)[i] = p[i]
    BY <1>3, <1>4
  <2>2. QED
    BY <1>2, <2>1
<1>7. Slash \in Character /\ Slash # QuestionMark
  BY Characters
<1> HIDE DEF shared
<1>8. ASSUME NEW p \in paths PROVE IsPrefix(shared, p)
  BY <1>3, <1>4, <1>5, <1>6, PrefixIs
<1>9. ASSUME NEW p \in paths, p # shared PROVE IsPrefix(Append(shared, Slash), p)
  <2>1. n # Len(p)
    BY <1>3, <1>5, <1>6, <1>9
  <2>2. Len(shared) < Len(p) /\ p[Len(shared) + 1] = Slash
    BY <1>3, <1>4, <1>5, <2>1
  <2>3. QED
    BY <1>3, <1>5, <1>7, <1>8, <2>2, PrefixAppend
<1>10. CASE shared \in paths
  <2>1. CommonScope(paths) = shared
    BY <1>10 DEF CommonScope, shared
  <2>2. \A p \in paths : WithinScope(p, shared)
    BY <1>8, <1>9 DEF WithinScope
  <2>3. QED
    BY <1>10, <2>1, <2>2
<1>11. CASE shared \notin paths
  <2> DEFINE scope == Append(shared, Slash)
  <2>1. CommonScope(paths) = scope
    BY <1>11 DEF CommonScope, shared
  <2>2. /\ scope \in Seq(Character) /\ Len(scope) = n + 1 /\ scope[n + 1] = Slash
        /\ \A i \in 1 .. n : scope[i] = shared[i]
    BY <1>5, <1>7
  <2>3. IsPrefix(scope, one)
    BY <1>9, <1>11
  <2>4. \A i \in 1 .. n + 1 : scope[i] = one[i] /\ i \in 1 .. Len(one)
    <3>1. Len(scope) <= Len(one) /\ \A i \in 1 .. Len(scope) : scope[i] = one[i]
      BY <1>3, <2>2, <2>3, PrefixIs
    <3> HIDE DEF scope
    <3>2. QED
      BY <1>3, <1>4, <2>2, <3>1
  <2>5. \A p \in paths : IsPrefix(scope, p)
    BY <1>9, <1>11
  <2> HIDE DEF scope
  <2>6. IsPath(scope)
    <3>1. scope # <<>> /\ scope[1] = one[1]
      BY <1>4, <2>2, <2>4
    <3>2. \A i \in DOMAIN scope : scope[i] # QuestionMark
      BY <1>3, <1>4, <2>2, <2>4
    <3>3. QED
      BY <1>3, <2>2, <3>1, <3>2 DEF IsPath
  <2>7. EndsInSlash(scope)
    BY <2>2 DEF EndsInSlash, Last
  <2>8. QED
    BY <2>1, <2>5, <2>6, <2>7 DEF WithinScope
<1>12. QED
  BY <1>10, <1>11

-----------------------------------------------------------------------------
\* What was suggested for a request, and approved, covers it.

Covers(row) ==
    /\ row.scope # None => IsPath(row.scope)
    /\ \A uri \in row.uris :
          /\ IsPath(uri.path) /\ uri.query \in BOOLEAN
          /\ row.scope # None => WithinScope(uri.path, row.scope)

ScopesCover ==
    /\ \A s \in suggestions : Covers(s)
    /\ \A e \in exclusions : Covers(e) /\ (e.uris # {} => Renderable(e.key))
    /\ \A t \in Worker : tx[t] # None /\ tx[t].kind = "approve" => Covers(tx[t].row)

LEMMA LoggedPaths ==
    /\ \A w \in Windows : \A e \in w :
          (e.path # None => IsPath(e.path)) /\ e.query \in BOOLEAN
    /\ \A path \in AllPaths : path # None => IsPath(path)
BY TargetAssumption DEF TargetAssumption, AllPaths

\* The scope suggested for a target covers the requests it is derived from.
LEMMA SuggestedCovers ==
    ASSUME NEW w \in Windows, NEW key, NEW row, row.scope = ScopeOf(w, key),
           row.uris = Uris(GroupOf(w, key))
    PROVE  Covers(row)
<1> DEFINE group == GroupOf(w, key)
           paths == {e.path : e \in group}
<1>1. row.scope = CommonScope(paths)
  BY DEF ScopeOf
<1>2. \A e \in group : (e.path # None => IsPath(e.path)) /\ e.query \in BOOLEAN
  BY LoggedPaths DEF GroupOf
<1>3. ASSUME NEW uri \in row.uris
      PROVE  IsPath(uri.path) /\ uri.query \in BOOLEAN /\ uri.path \in paths
  <2>1. PICK e \in group : e.path # None /\ uri = [path |-> e.path, query |-> e.query]
    BY DEF Uris
  <2>2. QED
    BY <1>2, <2>1
<1> HIDE DEF group
<1>4. CASE None \in paths \/ paths = {}
  <2>1. row.scope = None
    BY <1>1, <1>4 DEF CommonScope
  <2>2. QED
    BY <1>3, <2>1 DEF Covers
<1>5. CASE None \notin paths /\ paths # {}
  <2>1. \A p \in paths : IsPath(p)
    BY <1>2, <1>5
  <2> HIDE DEF paths
  <2>2. IsPath(row.scope) /\ \A p \in paths : WithinScope(p, row.scope)
    BY <1>1, <1>5, <2>1, CommonScopeCovers
  <2>3. QED
    BY <1>3, <2>2 DEF Covers
<1>6. QED
  BY <1>4, <1>5

LEMMA CommitAnalysisCovers ==
    ASSUME IInv, ScopesCover, NEW t \in Worker, CommitAnalysis(t)
    PROVE  \A s \in suggestions' : Covers(s)
<1>1. CASE Abort(t)
  BY <1>1 DEF Abort, tables, ScopesCover, Covers
<1>2. CASE ~Abort(t)
  <2>1. /\ tx[t] # None /\ tx[t].kind = "analyze"
        /\ suggestions' = {Refreshed(t, s) : s \in suggestions}
                              \cup {Suggested(t, k) : k \in Proposed(t) \ Known(t)}
    BY <1>2 DEF CommitAnalysis
  <2>2. tx[t].window \in Windows
    BY <2>1 DEF IInv, Typed, TxTyped
  <2>3. ASSUME NEW k PROVE Covers(Suggested(t, k))
    <3>1. /\ Suggested(t, k).scope = ScopeOf(tx[t].window, k)
          /\ Suggested(t, k).uris = Uris(GroupOf(tx[t].window, k))
      BY DEF Suggested
    <3>2. QED
      BY <2>2, <3>1, SuggestedCovers
  <2>4. ASSUME NEW s \in suggestions PROVE Covers(Refreshed(t, s))
    <3>1. DOMAIN s = {"id", "key", "scope", "status", "made", "uris"}
      BY DEF IInv, Typed, SuggestionTyped
    <3>2. \/ Refreshed(t, s) = s
          \/ /\ Refreshed(t, s).scope = ScopeOf(tx[t].window, s.key)
             /\ Refreshed(t, s).uris = Uris(GroupOf(tx[t].window, s.key))
      BY <3>1 DEF Refreshed
    <3>3. QED
      BY <2>2, <3>2, SuggestedCovers DEF ScopesCover
  <2>5. QED
    BY <2>1, <2>3, <2>4
<1>3. QED
  BY <1>1, <1>2

LEMMA ResolveCovers ==
    ASSUME IInv, ScopesCover, NEW t \in Worker, NEW status, NEW made, Resolve(t, status, made)
    PROVE  \A s \in suggestions' : Covers(s)
<1>1. ASSUME NEW s \in suggestions
      PROVE  /\ Resolved(t, s, status, made).scope = s.scope
             /\ Resolved(t, s, status, made).uris = s.uris
  BY DEF Resolved, IInv, Typed, SuggestionTyped
<1>2. \A s \in suggestions : Covers(s)
  BY DEF ScopesCover
<1>3. \A s \in suggestions : Covers(Resolved(t, s, status, made))
  BY <1>1, <1>2 DEF Covers
<1>4. QED
  BY <1>3 DEF Resolve

LEMMA SuggestionsCover ==
    ASSUME IInv, ScopesCover, [Next]_vars
    PROVE  \A s \in suggestions' : Covers(s)
<1>1. CASE suggestions' \subseteq suggestions
  BY <1>1 DEF ScopesCover
<1>2. CASE \E t \in Worker : \E status, made : Resolve(t, status, made)
  BY <1>2, ResolveCovers
<1>3. CASE \E t \in Worker : CommitAnalysis(t)
  BY <1>3, CommitAnalysisCovers
<1>4. CASE UNCHANGED vars
  BY <1>1, <1>4 DEF vars
<1>5. ASSUME NEW t \in Worker, SuggestionRequests(t)
      PROVE  \A s \in suggestions' : Covers(s)
  <2>1. CASE Approve(t) \/ Reject(t)
    BY <1>1, <1>2, <2>1 DEF Approve, Reject, Abort, tables
  <2>2. CASE ~(Approve(t) \/ Reject(t) \/ CommitAnalysis(t))
    BY <1>1, <1>5, <2>2 DEF SuggestionRequests, Analyze, ReadSuggestions, Review, Begin, tables
  <2>3. QED
    BY <1>3, <2>1, <2>2
<1>6. ASSUME NEW t \in Worker, ExclusionRequests(t) PROVE suggestions' \subseteq suggestions
  BY <1>6 DEF ExclusionRequests, CreateExclusion, ReadExclusion, DeleteExclusion,
              CommitExclusion, Abort, Begin, tables
<1>7. ASSUME NEW t \in Worker, CustomRuleRequests(t) PROVE suggestions' \subseteq suggestions
  BY <1>7 DEF CustomRuleRequests, NumberCustomRule, DeleteCustomRule
<1>8. ASSUME NEW t \in Worker, DeletePolicy(t) PROVE suggestions' \subseteq suggestions
  BY <1>8 DEF DeletePolicy
<1>9. QED
  BY <1>1, <1>4, <1>5, <1>6, <1>7, <1>8 DEF Next

\* An exclusion a request leaves: approved, created, or patched, which forgets
\* what it was derived from.
LEMMA ExclusionsCover ==
    ASSUME IInv, ScopesCover, [Next]_vars
    PROVE  \A e \in exclusions' : Covers(e) /\ (e.uris # {} => Renderable(e.key))
<1>1. CASE exclusions' \subseteq exclusions
  BY <1>1 DEF ScopesCover
<1>2. ASSUME NEW t \in Worker, Approve(t), ~(exclusions' \subseteq exclusions)
      PROVE  \A e \in exclusions' : Covers(e) /\ (e.uris # {} => Renderable(e.key))
  <2> DEFINE row == tx[t].row
  <2>1. tx[t] # None /\ tx[t].kind = "approve"
    BY <1>2 DEF Approve
  <2>2. PICK scope \in {row.scope, None} :
          exclusions' = exclusions \cup
             {[id |-> tx[t].id, key |-> row.key, scope |-> scope, uris |-> row.uris]}
    BY <1>2 DEF Approve, Abort, tables
  <2>3. Covers(row) /\ Renderable(row.key)
    BY <2>1 DEF ScopesCover, IInv, Typed, TxTyped
  <2>4. Covers([id |-> tx[t].id, key |-> row.key, scope |-> scope, uris |-> row.uris])
    BY <2>2, <2>3 DEF Covers
  <2>5. QED
    BY <2>2, <2>3, <2>4 DEF ScopesCover
<1>3. ASSUME NEW t \in Worker, NEW key, NEW scope \in AllPaths, CreateExclusion(t, key, scope)
      PROVE  \A e \in exclusions' : Covers(e) /\ (e.uris # {} => Renderable(e.key))
  <2>1. PICK new : new = [id |-> served', key |-> key, scope |-> scope, uris |-> {}]
    OBVIOUS
  <2>2. exclusions' = exclusions \cup {new} /\ new.uris = {} /\ Covers(new)
    BY <1>3, <2>1, LoggedPaths DEF CreateExclusion, Covers
  <2>3. QED
    BY <2>1, <2>2 DEF ScopesCover
<1>4. ASSUME NEW t \in Worker, CommitExclusion(t), ~(exclusions' \subseteq exclusions)
      PROVE  \A e \in exclusions' : Covers(e) /\ (e.uris # {} => Renderable(e.key))
  <2> DEFINE now == {e \in exclusions : e.id = tx[t].row.id}
  <2>1. exclusions' = (exclusions \ now) \cup {Written(t, e) : e \in now}
    BY <1>4 DEF CommitExclusion, Abort, tables
  <2>2. ASSUME NEW e \in exclusions PROVE Written(t, e).scope = e.scope /\ Written(t, e).uris = {}
    BY DEF Written, IInv, Typed
  <2>3. \A e \in exclusions : Covers(Written(t, e)) /\ Written(t, e).uris = {}
    BY <2>2 DEF ScopesCover, Covers
  <2>4. QED
    BY <2>1, <2>3 DEF ScopesCover
<1>5. ASSUME NEW t \in Worker, SuggestionRequests(t), ~Approve(t)
      PROVE  exclusions' \subseteq exclusions
  BY <1>5 DEF SuggestionRequests, Analyze, ReadSuggestions, CommitAnalysis, Review, Reject,
              Abort, Begin, tables
<1>6. ASSUME NEW t \in Worker, ExclusionRequests(t)
      PROVE  \/ exclusions' \subseteq exclusions
             \/ \E key \in AllKeys, scope \in AllPaths : CreateExclusion(t, key, scope)
             \/ CommitExclusion(t)
  BY <1>6 DEF ExclusionRequests, ReadExclusion, DeleteExclusion, Begin, tables
<1>7. ASSUME NEW t \in Worker, CustomRuleRequests(t) \/ DeletePolicy(t)
      PROVE  exclusions' \subseteq exclusions
  BY <1>7 DEF CustomRuleRequests, NumberCustomRule, DeleteCustomRule, DeletePolicy
<1>8. CASE UNCHANGED vars
  BY <1>1, <1>8 DEF vars
<1>9. QED
  BY <1>1, <1>2, <1>3, <1>4, <1>5, <1>6, <1>7, <1>8 DEF Next

\* An open approval holds the row its review read.
LEMMA ReviewsCover ==
    ASSUME IInv, ScopesCover, [Next]_vars
    PROVE  \A u \in Worker : tx'[u] # None /\ tx'[u].kind = "approve" => Covers(tx'[u].row)
<1> SUFFICES ASSUME NEW u \in Worker, tx'[u] # None, tx'[u].kind = "approve"
             PROVE  Covers(tx'[u].row)
  OBVIOUS
<1>1. ASSUME tx'[u] = tx[u] PROVE Covers(tx'[u].row)
  BY <1>1 DEF ScopesCover
<1>2. ASSUME NEW t \in Worker, NEW keys, End(t, keys) PROVE Covers(tx'[u].row)
  <2>1. u # t /\ Continues(u, keys)
    BY <1>2, EndIs DEF IInv
  <2>2. tx[u] # None /\ tx[u].kind = "approve" /\ tx'[u].row = tx[u].row
    BY <2>1, SameFields DEF IInv
  <2>3. QED
    BY <2>2 DEF ScopesCover
<1>3. ASSUME NEW t \in Worker, NEW txn, Begin(t, txn), txn.kind # "approve" \/ Covers(txn.row)
      PROVE  Covers(tx'[u].row)
  <2>1. tx'[t] = txn /\ \A v \in Worker \ {t} : tx'[v] = tx[v]
    BY <1>3, BeginIs
  <2>2. QED
    BY <1>1, <1>3, <2>1
<1>4. ASSUME NEW t \in Worker, SuggestionRequests(t) PROVE Covers(tx'[u].row)
  <2>1. ASSUME NEW w \in Windows, Analyze(t, w) PROVE Covers(tx'[u].row)
    BY <1>3, <2>1 DEF Analyze
  <2>2. CASE ReadSuggestions(t)
    <3>1. PICK last : tx[t] # None /\ tx[t].kind = "analyze" /\ tx' = [tx EXCEPT ![t].last = last]
      BY <2>2 DEF ReadSuggestions
    <3>2. DOMAIN tx = Worker /\ "kind" \in DOMAIN tx[t]
      BY <3>1 DEF IInv, Typed, TxTyped, Fields
    <3>3. CASE u = t
      BY <3>1, <3>2, <3>3
    <3>4. CASE u # t
      BY <1>1, <3>1, <3>2, <3>4
    <3>5. QED
      BY <3>3, <3>4
  <2>3. ASSUME NEW s \in suggestions, NEW kind, Review(t, s, kind) PROVE Covers(tx'[u].row)
    <3>1. PICK txn : txn = [kind |-> kind, id |-> served', row |-> s, touched |-> {}]
      OBVIOUS
    <3>2. Begin(t, txn) /\ txn.row = s
      BY <2>3, <3>1 DEF Review
    <3>3. Covers(s)
      BY DEF ScopesCover
    <3>4. QED
      BY <1>3, <3>2, <3>3
  <2>4. CASE CommitAnalysis(t) \/ Approve(t) \/ Reject(t)
    BY <1>2, <2>4 DEF CommitAnalysis, Approve, Reject, Abort
  <2>5. QED
    BY <1>4, <2>1, <2>2, <2>3, <2>4 DEF SuggestionRequests
<1>5. ASSUME NEW t \in Worker, ExclusionRequests(t) PROVE Covers(tx'[u].row)
  <2>1. ASSUME NEW e, NEW patch, ReadExclusion(t, e, patch) PROVE Covers(tx'[u].row)
    BY <1>3, <2>1 DEF ReadExclusion
  <2>2. ASSUME NEW key, NEW scope, CreateExclusion(t, key, scope) PROVE Covers(tx'[u].row)
    BY <1>2, <2>2 DEF CreateExclusion, AtOnce
  <2>3. ASSUME NEW e, DeleteExclusion(t, e) PROVE Covers(tx'[u].row)
    BY <1>2, <2>3 DEF DeleteExclusion, AtOnce
  <2>4. CASE CommitExclusion(t)
    BY <1>2, <2>4 DEF CommitExclusion, Abort
  <2>5. QED
    BY <1>5, <2>1, <2>2, <2>3, <2>4 DEF ExclusionRequests
<1>6. ASSUME NEW t \in Worker, CustomRuleRequests(t) \/ DeletePolicy(t) PROVE Covers(tx'[u].row)
  <2>1. PICK keys : AtOnce(t, keys)
    BY <1>6 DEF CustomRuleRequests, NumberCustomRule, DeleteCustomRule, DeletePolicy
  <2>2. QED
    BY <1>2, <2>1 DEF AtOnce
<1>7. CASE UNCHANGED vars
  BY <1>1, <1>7 DEF vars
<1>8. QED
  BY <1>4, <1>5, <1>6, <1>7 DEF Next

THEOREM ScopesInductive == Spec => []ScopesCover
<1>1. Init => ScopesCover
  BY DEF Init, ScopesCover
<1>2. IInv /\ ScopesCover /\ [Next]_vars => ScopesCover'
  <2> SUFFICES ASSUME IInv, ScopesCover, [Next]_vars PROVE ScopesCover'
    OBVIOUS
  <2>1. \A s \in suggestions' : Covers(s)
    BY SuggestionsCover
  <2>2. \A e \in exclusions' : Covers(e) /\ (e.uris # {} => Renderable(e.key))
    BY ExclusionsCover
  <2>3. \A u \in Worker : tx'[u] # None /\ tx'[u].kind = "approve" => Covers(tx'[u].row)
    BY ReviewsCover
  <2>4. QED
    BY <2>1, <2>2, <2>3 DEF ScopesCover, Covers, Renderable
<1>3. QED
  BY <1>1, <1>2, Inductive, PTL DEF Spec

\* _within_scope and scope_matchers: whatever paths the log shows, the rules of
\* an exclusion fire on exactly the requests the analyzer takes it to cover.
THEOREM AnalyzerAndRendererAgree == Spec => []ScopesAgree
<1>1. ScopesCover => ScopesAgree
  <2> SUFFICES ASSUME ScopesCover, NEW e \in exclusions, e.scope # None,
                      NEW path \in AllPaths \ {None}, NEW query \in BOOLEAN
               PROVE  (\E m \in ScopeMatchers(e.scope, [path |-> path, query |-> query]) : m.fires)
                          <=> WithinScope(path, e.scope)
    BY DEF ScopesAgree
  <2>1. IsPath(e.scope) /\ IsPath(path)
    BY LoggedPaths DEF ScopesCover, Covers
  <2>2. QED
    BY <2>1, MatchersAgree
<1>2. QED
  BY <1>1, ScopesInductive, PTL

\* common_scope_path, approve_suggestion, scope_matchers: an approved exclusion
\* exempts each of the requests its suggestion was derived from.
THEOREM ApprovalsTakeEffect == Spec => []ApprovedTakesEffect
<1>1. ScopesCover => ApprovedTakesEffect
  <2> SUFFICES ASSUME ScopesCover, NEW e \in exclusions, NEW uri \in e.uris PROVE Exempts(e, uri)
    BY DEF ApprovedTakesEffect
  <2>1. Covers(e) /\ e \in Rendered
    BY DEF ScopesCover, Rendered
  <2>2. CASE e.scope = None
    BY <2>1, <2>2 DEF Exempts
  <2>3. CASE e.scope # None
    <3>1. IsPath(e.scope) /\ IsPath(uri.path) /\ uri.query \in BOOLEAN
          /\ WithinScope(uri.path, e.scope)
      BY <2>1, <2>3 DEF Covers
    <3>2. \E m \in ScopeMatchers(e.scope, [path |-> uri.path, query |-> uri.query]) : m.fires
      BY <3>1, MatchersAgree
    <3>3. ScopeMatchers(e.scope, [path |-> uri.path, query |-> uri.query])
             = ScopeMatchers(e.scope, uri)
      BY DEF ScopeMatchers, RawUri
    <3>4. QED
      BY <2>1, <2>3, <3>2, <3>3 DEF Exempts
  <2>4. QED
    BY <2>2, <2>3
<1>2. QED
  BY <1>1, ScopesInductive, PTL
=============================================================================
