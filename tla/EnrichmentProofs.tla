-------------------------- MODULE EnrichmentProofs --------------------------
(***************************************************************************)
(* What holds of every fact and its price, of the list of models without   *)
(* one, and of the price snapshots, for every table of control events and  *)
(* of prices, every set of rows, and every size and age limit of the cache *)
(* and the queue.                                                          *)
(***************************************************************************)
EXTENDS Enrichment, FiniteCollections, FiniteSetTheorems, FunctionTheorems, TLAPS

----------------------------------------------------------------------------
(* Price snapshots.                                                        *)

OneOpen ==
  /\ snapshots \in [Releases -> {"absent", "open", "closed"}]
  /\ unclosed \in BOOLEAN
  /\ ~unclosed => \A s, t \in Releases :
       snapshots[s] = "open" /\ snapshots[t] = "open" => s = t

LEMMA OneOpenStart ==
  ASSUME OneOpen, NEW s \in Releases, Start(s)
  PROVE  OneOpen'
<1>1. CASE snapshots' = Ensured(s, snapshots) /\ UNCHANGED unclosed
  BY <1>1 DEF OneOpen, Ensured
<1>2. CASE UNCHANGED <<snapshots, unclosed>>
  BY <1>2 DEF OneOpen
<1>3. CASE snapshots' = [snapshots EXCEPT ![s] = "open"] /\ unclosed' = TRUE
  BY <1>3 DEF OneOpen
<1> QED
  BY <1>1, <1>2, <1>3 DEF Start

\* A step that is no start leaves the snapshots as they are.
LEMMA StartOnly ==
  ASSUME [Next]_vars
  PROVE  \/ \E s \in Releases : Start(s)
         \/ UNCHANGED prices
  BY DEF Next, vars, prices, control, Publish, Revoke, Tick, Project, Replay,
         LookupFails, Drain

LEMMA OneOpenInvariant == Spec => []OneOpen
<1>1. Init => OneOpen
  <2> SUFFICES ASSUME Init PROVE OneOpen
    OBVIOUS
  <2>1. /\ unclosed = FALSE
        /\ snapshots = [s \in Releases |-> IF s = running THEN "open" ELSE "absent"]
    BY DEF Init
  <2> QED
    BY <2>1 DEF OneOpen
<1>2. OneOpen /\ [Next]_vars => OneOpen'
  <2> SUFFICES ASSUME OneOpen, [Next]_vars PROVE OneOpen'
    OBVIOUS
  <2>1. CASE UNCHANGED prices
    BY <2>1 DEF OneOpen, prices
  <2> QED
    BY <2>1, OneOpenStart, StartOnly
<1> QED
  BY <1>1, <1>2, PTL DEF Spec

\* However releases alternate, at most one price snapshot is open, unless a
\* statement that closes the others has failed (EnsureSnapshot).
THEOREM SnapshotsAlternate == Spec => []AtMostOneOpen
<1>1. OneOpen => AtMostOneOpen
  <2> SUFFICES ASSUME OneOpen, ~unclosed
               PROVE  Cardinality({s \in Releases : snapshots[s] = "open"}) <= 1
    BY DEF AtMostOneOpen
  <2> DEFINE S == {s \in Releases : snapshots[s] = "open"}
  <2>1. CASE S = {}
    BY <2>1, FS_EmptySet
  <2>2. ASSUME NEW s \in S PROVE S = {s}
    BY DEF OneOpen
  <2>3. CASE S # {}
    <3>1. PICK s \in S : S = {s}
      BY <2>2, <2>3
    <3>2. Cardinality({s}) = 1
      BY FS_Singleton
    <3> QED
      BY <3>1, <3>2
  <2> QED
    BY <2>1, <2>3
<1> QED
  BY <1>1, OneOpenInvariant, PTL

----------------------------------------------------------------------------
(* The verdict on one fact.                                                *)

\* The verdict before the generation scope is applied.
Owned(row, answer) ==
  IF row.key = Absent THEN NoKey
  ELSE IF row.key \notin Keys THEN VaultKey
  ELSE IF answer.event = None THEN NoControlEvent
  ELSE Ownership(row, Control[answer.event])

LEMMA FactParts ==
  ASSUME NEW row, NEW answer
  PROVE  LET f == Fact(row, answer) IN
         /\ f.answer = answer
         /\ f.verdict = Scoped(Owned(row, answer), row)
         /\ f.price = Price(row)
         /\ answer.event # None => f.identity = Identity(row, Control[answer.event])
<1>1. Fact(row, answer).answer = answer /\ Fact(row, answer).price = Price(row)
  BY DEF Fact
<1>2. Fact(row, answer).verdict = Scoped(Owned(row, answer), row)
  BY DEF Fact, Owned
<1>3. answer.event # None => Fact(row, answer).identity = Identity(row, Control[answer.event])
  BY DEF Fact
<1> QED
  BY <1>1, <1>2, <1>3

\* The verdicts there may be before that.
Verdicts ==
  [completion : {"no_virtual_key", "personal_vault_key", "no_control_event",
                 "control_event_mismatch", "control_event", "exact"},
   quality : {"partial", "invalid", "completed", "exact"},
   anomaly : {"none", "pending_review", "late_report_abnormal"},
   billing : {"org_only", "hold_review", "org_and_user"},
   scope : {"excluded", "abnormal", "normal"}]

\* The scope replaces one field, and only of a row without a total whose path is
\* known.
LEMMA ScopedFacts ==
  ASSUME NEW v \in Verdicts, NEW row
  PROVE  /\ Scoped(v, row).billing = v.billing
         /\ Scoped(v, row).completion = v.completion
         /\ \/ Scoped(v, row).scope = v.scope
            \/ /\ Scoped(v, row).scope = "non_generation"
               /\ row.path # Absent /\ ~(TotalTokens(row) > 0)
  BY DEF Scoped, Verdicts, Absent

\* What the ownership of a row says of it.
LEMMA OwnershipFacts ==
  ASSUME NEW row, NEW c
  PROVE  LET v == Ownership(row, c) IN
         /\ v \in Verdicts
         /\ v.scope = "normal" => v.billing = "org_and_user"
         /\ v.billing = "org_and_user" =>
              /\ row.org = c.org
              /\ ~Disagree(row, c, {"binding", "credential", "provider"})
              /\ ~Disagree(row, c, {"account", "seat"})
  BY DEF Ownership, Verdict, Verdicts, Disagree

LEMMA OwnedFacts ==
  ASSUME NEW row, NEW answer
  PROVE  LET v == Owned(row, answer)
             c == Control[answer.event] IN
         /\ v \in Verdicts
         /\ v.scope = "normal" =>
              v.completion = "personal_vault_key" \/ v.billing = "org_and_user"
         /\ v.billing = "org_and_user" =>
              /\ answer.event # None
              /\ row.org = c.org
              /\ ~Disagree(row, c, {"binding", "credential", "provider"})
              /\ ~Disagree(row, c, {"account", "seat"})
<1> DEFINE v == Owned(row, answer)
<1>1. CASE v = Ownership(row, Control[answer.event]) /\ answer.event # None
  BY <1>1, OwnershipFacts
<1>2. CASE v = NoKey
  BY <1>2 DEF NoKey, Verdict, Verdicts
<1>3. CASE v = VaultKey
  BY <1>3 DEF VaultKey, Verdict, Verdicts
<1>4. CASE v = NoControlEvent
  BY <1>4 DEF NoControlEvent, Verdict, Verdicts
<1> QED
  BY <1>1, <1>2, <1>3, <1>4 DEF Owned

\* BilledConfirmed and TokensAudited of one fact.
Confirmed(row, f) ==
  /\ f.verdict.billing = "org_and_user" =>
       /\ f.answer.event # None
       /\ LET c == Control[f.answer.event] IN
          /\ row.org = c.org
          /\ \A x \in {"account", "seat", "binding", "credential", "provider"} :
               row[x] \in {c[x], Absent} \/ c[x] = Absent
          /\ \A x \in DOMAIN f.identity : f.identity[x] = c[x] \/ c[x] = Absent
  /\ f.verdict.scope = "normal" /\ f.verdict.completion # "personal_vault_key" =>
       f.verdict.billing = "org_and_user"

Audited(row, f) ==
  f.verdict.scope = "non_generation" =>
    /\ row.path # Absent
    /\ row.total = <<>> \/ row.total[1] <= 0
    /\ f.answer.event # None /\ Asks(row) =>
         f.verdict.billing = Ownership(row, Control[f.answer.event]).billing

LEMMA FactConfirmed ==
  ASSUME NEW row, NEW answer
  PROVE  Confirmed(row, Fact(row, answer))
<1> DEFINE f == Fact(row, answer)
           v == Owned(row, answer)
           c == Control[answer.event]
<1>1. /\ f.verdict.billing = v.billing
      /\ f.verdict.completion = v.completion
      /\ f.verdict.scope = "normal" => v.scope = "normal"
  BY FactParts, OwnedFacts, ScopedFacts
<1>2. ASSUME v.billing = "org_and_user"
      PROVE  /\ answer.event # None /\ row.org = c.org
             /\ \A x \in {"account", "seat", "binding", "credential", "provider"} :
                  row[x] \in {c[x], Absent} \/ c[x] = Absent
  BY <1>2, OwnedFacts DEF Disagree
<1>3. ASSUME v.billing = "org_and_user", NEW x \in DOMAIN f.identity
      PROVE  f.identity[x] = c[x] \/ c[x] = Absent
  <2>1. f.identity = Identity(row, c)
    BY <1>2, <1>3, FactParts
  <2>2. /\ x \in {"seat", "provider", "binding", "credential"}
        /\ f.identity[x] = IF row[x] = Absent THEN c[x] ELSE row[x]
    BY <2>1, <1>3 DEF Identity
  <2> QED
    BY <2>2, <1>2, <1>3
<1> QED
  BY <1>1, <1>2, <1>3, FactParts, OwnedFacts DEF Confirmed

LEMMA FactAudited ==
  ASSUME NEW row, row.total # <<>> => row.total[1] \in Int, NEW answer
  PROVE  Audited(row, Fact(row, answer))
<1> DEFINE f == Fact(row, answer)
           v == Owned(row, answer)
<1>1. /\ f.verdict.billing = v.billing
      /\ f.verdict.scope = "non_generation" =>
           \/ v.scope = "non_generation"
           \/ row.path # Absent /\ ~(TotalTokens(row) > 0)
  BY FactParts, OwnedFacts, ScopedFacts
<1>2. v.scope # "non_generation"
  BY OwnedFacts DEF Verdicts
<1>3. answer.event # None /\ Asks(row) => v = Ownership(row, Control[answer.event])
  BY EnrichmentAssumption DEF Owned, Asks, Keys
<1>4. ~(TotalTokens(row) > 0) => row.total = <<>> \/ row.total[1] <= 0
  BY DEF TotalTokens
<1> QED
  BY <1>1, <1>2, <1>3, <1>4, FactParts DEF Audited

----------------------------------------------------------------------------
(* The price of a fact.                                                    *)

\* PricedInForce of one fact.
InForcePrice(row, p) ==
  LET H == HistoryOf(row.code, row.model) IN
  row.model # Absent =>
    /\ p.source # "overrides" /\ row.org # Absent =>
         OverridesFor(row.org, row.code, row.model) = {}
    /\ p.source = "history" => \A i \in H : History[i].from \notin (p.from + 1)..row.time
    /\ p.source \in {"litellm", "litellm_normalized", "unknown"} =>
         \A i \in H : History[i].from > row.time
    /\ p.source = "litellm_normalized" /\ Bare[row.model] \in Native =>
         p.rates = Tiered(ListPrice(Bare[row.model]), Context(row))
    /\ p.source = "litellm" /\ row.model \in DOMAIN Summary(Pooled)
         /\ Context(row) <= Threshold =>
           Cost(p.rates, row.tokens) = Cost(Summary(Pooled)[row.model], row.tokens)

\* Of the entries that have begun, one begins last: those that have begun are
\* bounded by the time asked for, however many there are.
LEMMA InForceLatest ==
  ASSUME NEW ts \in Int, NEW H \in SUBSET DOMAIN History,
         \E i \in H : History[i].from <= ts
  PROVE  LET i == InForce(H, ts) IN
         /\ i \in H /\ History[i].from <= ts
         /\ \A j \in H : History[j].from <= ts => History[j].from <= History[i].from
<1> DEFINE Begun == {i \in H : History[i].from <= ts}
           Ages == {ts - History[i].from : i \in Begun}
<1>1. /\ \A i \in H : History[i].from \in Int
      /\ Ages \subseteq Nat /\ Ages # {}
  BY PriceTableAssumption
<1>2. PICK a \in Ages : \A x \in Ages : a <= x
  <2> HIDE DEF Ages
  <2> QED
    BY <1>1, LeastNatural
<1>3. PICK i \in Begun : a = ts - History[i].from
  OBVIOUS
<1>4. \A j \in H : History[j].from <= ts => History[j].from <= History[i].from
  BY <1>1, <1>2, <1>3
<1> QED
  BY <1>3, <1>4, Zenon DEF InForce

\* A list price of a short context is charged at the rates the edge has.
LEMMA ShortContext ==
  ASSUME NEW m, NEW context \in Int, context <= Threshold, NEW tokens
  PROVE  Cost(Tiered(ListPrice(m), context), tokens) = Cost(ListPrice(m), tokens)
<1> DEFINE p == ListPrice(m)
           q == Tiered(p, context)
<1>1. ~ (context > Threshold)
  BY PriceTableAssumption
<1>2. q = [p EXCEPT !.input = p.input, !.output = p.output,
                    !.inputAbove = 0, !.outputAbove = 0]
  BY <1>1 DEF Tiered
<1>3. /\ q.input = p.input /\ q.output = p.output /\ q.creation = p.creation
      /\ q.read = p.read /\ q.reasoning = p.reasoning
  BY <1>2 DEF ListPrice
<1> QED
  BY <1>3 DEF Cost

LEMMA LookupInForce ==
  ASSUME NEW row, row.time \in Int, Context(row) \in Int
  PROVE  InForcePrice(row, Price(row))
<1> SUFFICES ASSUME row.model # Absent PROVE InForcePrice(row, Price(row))
  BY DEF InForcePrice
<1> DEFINE p == Price(row)
           O == OverridesFor(row.org, row.code, row.model)
           H == HistoryOf(row.code, row.model)
           context == Context(row)
           begun == \E i \in H : History[i].from <= row.time
           listed == row.model \in Listed /\ LiteLLM[row.model].provider = row.code
           canonical == Canonical(Bare[row.model])
<1>1. p = Lookup(row.code, row.model, row.time, context, row.org)
  BY DEF Price
<1>2. H \in SUBSET DOMAIN History /\ \A i \in H : History[i].from \in Int
  BY PriceTableAssumption DEF HistoryOf
<1>3. ~ begun => \A i \in H : History[i].from > row.time
  BY <1>2
<1> HIDE DEF O, H, begun, listed, canonical
<1>4. CASE row.org # "" /\ O # {}
  <2>1. p = Priced("overrides", 0, OverlayPrice(Overrides[Max(O)]), context)
    BY <1>1, <1>4 DEF Lookup, O
  <2>2. p.source = "overrides"
    BY <2>1 DEF Priced
  <2> QED
    BY <2>2 DEF InForcePrice
<1>5. CASE ~ (row.org # "" /\ O # {}) /\ begun
  <2> DEFINE h == History[InForce(H, row.time)]
  <2>1. p = Priced("history", h.from, OverlayPrice(h), context)
    BY <1>1, <1>5 DEF Lookup, O, H, begun
  <2>2. p.source = "history" /\ p.from = h.from
    BY <2>1 DEF Priced
  <2>3. /\ h.from \in Int
        /\ \A j \in H : History[j].from <= row.time => History[j].from <= h.from
    BY <1>2, <1>5, InForceLatest DEF begun
  <2>4. \A i \in H : History[i].from \notin (h.from + 1)..row.time
    BY <1>2, <2>3
  <2> QED
    BY <1>5, <2>2, <2>4 DEF InForcePrice, O, H, Absent
<1>6. CASE ~ (row.org # "" /\ O # {}) /\ ~ begun /\ listed
  <2>1. p = Priced("litellm", 0, ListPrice(row.model), context)
    BY <1>1, <1>6 DEF Lookup, O, H, begun, listed
  <2>2. p.source = "litellm" /\ p.rates = Tiered(ListPrice(row.model), context)
    BY <2>1 DEF Priced
  <2>3. ASSUME row.model \in DOMAIN Summary(Pooled), context <= Threshold
        PROVE  Cost(p.rates, row.tokens) = Cost(Summary(Pooled)[row.model], row.tokens)
    <3>1. Summary(Pooled)[row.model] = ListPrice(row.model)
      BY <2>3 DEF Summary
    <3> QED
      BY <2>2, <2>3, <3>1, ShortContext
  <2> QED
    BY <1>3, <1>6, <2>2, <2>3 DEF InForcePrice, O, H, Absent
<1>7. CASE ~ (row.org # "" /\ O # {}) /\ ~ begun /\ ~ listed /\ canonical # {}
  <2>1. p = Priced("litellm_normalized", 0,
                   ListPrice(CHOOSE m \in canonical : TRUE), context)
    BY <1>1, <1>7 DEF Lookup, O, H, begun, listed, canonical
  <2>2. /\ p.source = "litellm_normalized"
        /\ p.rates = Tiered(ListPrice(CHOOSE m \in canonical : TRUE), context)
    BY <2>1 DEF Priced
  <2>3. ASSUME Bare[row.model] \in Native
        PROVE  (CHOOSE m \in canonical : TRUE) = Bare[row.model]
    BY <2>3 DEF canonical, Canonical
  <2> QED
    BY <1>3, <1>7, <2>2, <2>3 DEF InForcePrice, O, H, Absent
<1>8. CASE ~ (row.org # "" /\ O # {}) /\ ~ begun /\ ~ listed /\ canonical = {}
  <2>1. p = Unknown
    BY <1>1, <1>8 DEF Lookup, O, H, begun, listed, canonical
  <2>2. p.source = "unknown"
    BY <2>1 DEF Unknown
  <2> QED
    BY <1>3, <1>8, <2>2 DEF InForcePrice, O, H, Absent
<1> QED
  BY <1>4, <1>5, <1>6, <1>7, <1>8

----------------------------------------------------------------------------
(* Every fact.                                                             *)

\* Rows stay as they are, and a step inserts one fact or none.
LEMMA FactsStep ==
  ASSUME [Next]_vars
  PROVE  /\ UNCHANGED ods
         /\ \/ UNCHANGED facts
            \/ \E r \in Rows :
                 facts' = [facts EXCEPT ![r] = Fact(ods[r],
                   IF Asks(ods[r]) THEN Answer(ods[r].key, ods[r].time) ELSE NoEntry)]
<1>1. ASSUME NEW r \in Rows, Project(r) \/ Replay(r) \/ LookupFails(r)
      PROVE  /\ UNCHANGED ods
             /\ UNCHANGED facts \/ Project(r)
  BY <1>1 DEF Project, Replay, LookupFails
<1>2. ASSUME NEW r \in Rows, Project(r)
      PROVE  facts' = [facts EXCEPT ![r] = Fact(ods[r],
               IF Asks(ods[r]) THEN Answer(ods[r].key, ods[r].time) ELSE NoEntry)]
  BY <1>2 DEF Project
<1>3. ASSUME NEW s \in Releases, Start(s) PROVE UNCHANGED <<ods, facts>>
  BY <1>3 DEF Start
<1>4. ASSUME NEW e \in Events, Publish(e) \/ Revoke(e) PROVE UNCHANGED <<ods, facts>>
  BY <1>4 DEF Publish, Revoke
<1>5. Tick \/ Drain \/ UNCHANGED vars => UNCHANGED <<ods, facts>>
  BY DEF Tick, Drain, vars
<1> QED
  BY <1>1, <1>2, <1>3, <1>4, <1>5 DEF Next

\* What is confirmed, audited and priced of each fact, inserted or not yet: an
\* answer that names a control event is one to a question.
EachFact ==
  /\ DOMAIN facts = Rows /\ ods \in OdsRows
  /\ \A r \in Rows : facts[r] # NoFact =>
       /\ Confirmed(ods[r], facts[r]) /\ Audited(ods[r], facts[r])
       /\ facts[r].price = Price(ods[r])
       /\ facts[r].answer.event # None => Asks(ods[r])

LEMMA EachFactInvariant == Spec => []EachFact
<1>1. Init => EachFact
  <2> SUFFICES ASSUME Init PROVE EachFact
    OBVIOUS
  <2>1. facts = [r \in Rows |-> NoFact] /\ ods \in OdsRows
    BY DEF Init
  <2> QED
    BY <2>1 DEF EachFact
<1>2. EachFact /\ [Next]_vars => EachFact'
  <2> SUFFICES ASSUME EachFact, [Next]_vars PROVE EachFact'
    OBVIOUS
  <2>1. ods' = ods /\ Rows' = Rows
    BY FactsStep DEF Rows
  <2>2. CASE UNCHANGED facts
    BY <2>1, <2>2 DEF EachFact, Confirmed, Audited
  <2>3. ASSUME NEW q \in Rows, NEW answer,
               answer = IF Asks(ods[q]) THEN Answer(ods[q].key, ods[q].time) ELSE NoEntry,
               facts' = [facts EXCEPT ![q] = Fact(ods[q], answer)]
        PROVE  EachFact'
    <3>1. DOMAIN facts' = Rows
      BY <2>3 DEF EachFact
    <3>2. ASSUME NEW r \in Rows, r # q PROVE facts'[r] = facts[r]
      BY <2>3, <3>2 DEF EachFact
    <3>3. facts'[q] = Fact(ods[q], answer)
      BY <2>3 DEF EachFact
    <3>4. facts'[q].answer.event # None => Asks(ods[q])
      BY <2>3, <3>3, FactParts DEF NoEntry
    <3>5. ASSUME NEW r \in Rows, facts'[r] # NoFact
          PROVE  /\ Confirmed(ods[r], facts'[r]) /\ Audited(ods[r], facts'[r])
                 /\ facts'[r].price = Price(ods[r])
                 /\ facts'[r].answer.event # None => Asks(ods[r])
      <4>1. ods[r].total # <<>> => ods[r].total[1] \in Int
        BY <2>1, <3>5, EnrichmentAssumption DEF EachFact, Rows
      <4> QED
        BY <3>2, <3>3, <3>4, <3>5, <4>1, FactConfirmed, FactAudited, FactParts DEF EachFact
    <3> QED
      BY <2>1, <3>1, <3>5 DEF EachFact, Confirmed, Audited
  <2> QED
    BY <2>2, <2>3, FactsStep
<1> QED
  BY <1>1, <1>2, PTL DEF Spec

\* A user is billed only for what the control event of the key confirms, and
\* what is neither billed to him nor minted in his vault is no normal usage of
\* his (applyControlEvent).
THEOREM BillingConfirmed == Spec => []BilledConfirmed
<1>1. EachFact => BilledConfirmed
  BY DEF EachFact, Confirmed, BilledConfirmed, Projected, Verified
<1> QED
  BY <1>1, EachFactInvariant, PTL

\* A row that reports a total of tokens is never hidden as non-generation
\* traffic, nor one whose proxy named no path, and hiding a row takes nothing
\* away from who is billed for it (applyGenerationScope).
THEOREM UsageStaysAudited == Spec => []TokensAudited
<1>1. EachFact => TokensAudited
  BY DEF EachFact, Audited, TokensAudited, Projected, Verified
<1> QED
  BY <1>1, EachFactInvariant, PTL

\* A fact has the price of the highest layer that applied at the row's time,
\* however late it is projected (Lookup, buildCanonicalIndex), and a list price
\* costs what the edge estimates with, where the context is not long
\* (buildSummaryFrom).
THEOREM PricesInForce == Spec => []PricedInForce
<1>1. EachFact => PricedInForce
  <2> SUFFICES ASSUME EachFact, NEW r \in Projected
               PROVE  InForcePrice(ods[r], facts[r].price)
    BY DEF PricedInForce, InForcePrice
  <2>1. r \in Rows /\ ods \in OdsRows /\ facts[r].price = Price(ods[r])
    BY DEF EachFact, Projected
  <2>2. ods[r].time \in Int /\ Context(ods[r]) \in Int
    BY <2>1, EnrichmentAssumption DEF Rows, Times, Context
  <2> QED
    BY <2>1, <2>2, LookupInForce
<1> QED
  BY <1>1, EachFactInvariant, PTL

----------------------------------------------------------------------------
(* Control events and the cache.                                           *)

\* The ranges of one key, in a table of it or of all keys.
NoOverlap(table) ==
  \A e, f \in DOMAIN table :
    /\ Control[e].key = Control[f].key /\ Control[e].from < Control[f].from
    /\ table[e] > 0 /\ table[f] > 0
    => table[e] <= Control[f].from

Tables(S) == {table \in [S -> 0..Open] : NoOverlap(table)}

LEMMA Timing ==
  /\ Open \in Nat /\ MaxTime \in Nat /\ \A t \in Times : t \in Nat /\ t < Open
  /\ \A e \in Events : Control[e].from \in Times
  BY EnrichmentAssumption DEF Times, Open

\* At most one control event of a key covers a time: the one Find finds.
LEMMA FindUnique ==
  ASSUME NEW k, NEW t \in Times, NEW table \in Tables(OfKey(k)),
         NEW e \in OfKey(k), Covers(e, t, table)
  PROVE  Find(k, t, table) = e
<1> DEFINE S == {f \in DOMAIN table : Control[f].key = k /\ Covers(f, t, table)}
<1>1. e \in S
  BY DEF OfKey, Tables
<1>2. ASSUME NEW f \in S PROVE f = e
  <2>1. /\ f \in Events /\ e \in Events /\ Control[f].key = Control[e].key
        /\ table[e] \in Nat /\ table[f] \in Nat /\ t \in Nat
        /\ Control[e].from \in Nat /\ Control[f].from \in Nat
        /\ Control[e].from <= t /\ t < table[e]
        /\ Control[f].from <= t /\ t < table[f]
    BY <1>2, Timing DEF OfKey, Tables, Covers
  <2>2. ~(Control[e].from < Control[f].from) /\ ~(Control[f].from < Control[e].from)
    BY <2>1, <1>1 DEF Tables, NoOverlap
  <2> QED
    BY <2>1, <2>2, EnrichmentAssumption
<1>3. S = {e}
  BY <1>1, <1>2
<1> QED
  BY <1>3 DEF Find

\* What Find finds is of the key, or None.
LEMMA FindType ==
  ASSUME NEW k, NEW t \in Times, NEW table \in Tables(OfKey(k))
  PROVE  Find(k, t, table) \in OfKey(k) \cup {None}
<1>1. ASSUME NEW e \in DOMAIN table, Control[e].key = k, Covers(e, t, table)
      PROVE  e \in OfKey(k) /\ Find(k, t, table) = e
  BY <1>1, FindUnique DEF Tables
<1>2. CASE {e \in DOMAIN table : Control[e].key = k /\ Covers(e, t, table)} = {}
  BY <1>2 DEF Find
<1> QED
  BY <1>1, <1>2

\* An event written between others shortens the one before it and ends where
\* the next one begins.
LEMMA PublishKeeps ==
  ASSUME until \in Tables(Events), NEW e \in Events, Publish(e)
  PROVE  until' \in Tables(Events)
<1> DEFINE k == Control[e].key
           from == Control[e].from
           after == {Control[f].from : f \in {f \in Events :
                       /\ Control[f].key = k /\ until[f] > 0 /\ Control[f].from > from}}
           end == Min(after \cup {Open})
           Shortened(f) == Control[f].key = k /\ Control[f].from < from /\ until[f] > from
<1>1. /\ until' = [f \in Events |-> IF f = e THEN end
                                   ELSE IF Shortened(f) THEN from ELSE until[f]]
      /\ until[e] = 0
  BY DEF Publish
<1>2. after \cup {Open} \subseteq 0..Open
  BY Timing DEF Times, Open
<1>3. end \in 0..Open /\ \A x \in after : end <= x
  BY <1>2, LeastNatural, Timing
<1>4. /\ from \in 0..Open /\ from \in Nat
      /\ \A f \in Events : /\ Control[f].from \in Nat /\ until[f] \in Nat
                           /\ until[f] \in 0..Open
  BY Timing DEF Times, Tables, Open
<1> HIDE DEF end, after
<1>5. until' \in [Events -> 0..Open]
  BY <1>1, <1>3, <1>4
<1>6. ASSUME NEW a \in Events, NEW b \in Events,
             Control[a].key = Control[b].key, Control[a].from < Control[b].from,
             until'[a] > 0, until'[b] > 0
      PROVE  until'[a] <= Control[b].from
  <2>1. CASE a = e
    <3>1. until[b] > 0
      BY <1>1, <1>4, <1>6, <2>1
    <3>2. Control[b].from \in after
      BY <1>6, <2>1, <3>1 DEF after
    <3> QED
      BY <1>1, <1>3, <2>1, <3>2
  <2>2. CASE b = e
    BY <1>1, <1>4, <1>6, <2>2
  <2>3. CASE a # e /\ b # e
    <3>1. until[a] > 0 /\ until[b] > 0 /\ until'[a] <= until[a]
      BY <1>1, <1>4, <1>6, <2>3
    <3>2. until[a] <= Control[b].from
      BY <1>6, <3>1 DEF Tables, NoOverlap
    <3> QED
      BY <3>1, <3>2, <1>4, <1>5
  <2> QED
    BY <2>1, <2>2, <2>3
<1> QED
  BY <1>5, <1>6 DEF Tables, NoOverlap

\* Only the last event of a key has no end, and an end is no later than that.
LEMMA RevokeKeeps ==
  ASSUME until \in Tables(Events), NEW e \in Events, Revoke(e)
  PROVE  until' \in Tables(Events)
<1>1. PICK t \in (Control[e].from + 1)..MaxTime : until' = [until EXCEPT ![e] = t]
  BY DEF Revoke
<1>2. /\ until \in [Events -> 0..Open] /\ until[e] = Open
      /\ t \in 1..MaxTime /\ t \in 0..Open
  BY <1>1, Timing DEF Revoke, Tables, Times, Open
<1>3. until' \in [Events -> 0..Open]
  BY <1>1, <1>2
<1>4. ASSUME NEW a \in Events, NEW b \in Events,
             Control[a].key = Control[b].key, Control[a].from < Control[b].from,
             until'[a] > 0, until'[b] > 0
      PROVE  until'[a] <= Control[b].from
  <2>1. until[a] > 0 /\ until[b] > 0 /\ until'[a] <= until[a]
    BY <1>1, <1>2, <1>4, Timing DEF Open
  <2>2. until[a] <= Control[b].from
    BY <1>4, <2>1 DEF Tables, NoOverlap
  <2> QED
    BY <1>2, <1>3, <2>1, <2>2, Timing DEF Times
<1> QED
  BY <1>3, <1>4 DEF Tables, NoOverlap

\* The table keeps its ranges apart, and a cached entry is what the table named
\* of its key at some time gone by.
Entries(k) ==
  {c \in [event : OfKey(k) \cup {None}, readAt : Nat, table : Tables(OfKey(k))] :
     c.readAt <= now}

CacheOk ==
  /\ ods \in OdsRows /\ DOMAIN facts = Rows /\ now \in Nat
  /\ until \in Tables(Events)
  /\ \A k \in Keys : cache[k] # NoEntry => cache[k] \in Entries(k)
  /\ ServedWithinTTL

LEMMA AnswerFacts ==
  ASSUME CacheOk, NEW k \in Keys, NEW t \in Times
  PROVE  LET a == Answer(k, t) IN
         /\ a \in Entries(k)
         /\ a.event # None => a.event = Find(k, t, a.table)
         /\ now = a.readAt \/ now - a.readAt < TTL
<1>1. CASE Hit(k, t)
  <2>1. Answer(k, t) = cache[k] /\ cache[k] \in Entries(k) /\ now - cache[k].readAt < TTL
    BY <1>1 DEF Answer, Hit, CacheOk
  <2>2. ASSUME cache[k].event # None PROVE cache[k].event = Find(k, t, cache[k].table)
    BY <1>1, <2>1, <2>2, FindUnique DEF Hit, Entries
  <2> QED
    BY <2>1, <2>2
<1>2. CASE ~Hit(k, t)
  <2> DEFINE table == [e \in OfKey(k) |-> until[e]]
  <2>1. table \in Tables(OfKey(k))
    BY DEF CacheOk, Tables, NoOverlap, OfKey
  <2>2. Answer(k, t) = [event |-> Find(k, t, table), readAt |-> now, table |-> table]
    BY <1>2 DEF Answer, Fresh
  <2> HIDE DEF table
  <2> QED
    BY <2>1, <2>2, FindType DEF Entries, CacheOk
<1> QED
  BY <1>1, <1>2

\* A lookup leaves entries that are what the table named.
LEMMA ConsultKeeps ==
  ASSUME CacheOk, NEW r \in Rows, Consult(ods[r]), UNCHANGED now
  PROVE  \A k \in Keys : cache'[k] # NoEntry => cache'[k] \in Entries(k)'
<1>1. ods[r].time \in Times
  BY EnrichmentAssumption DEF CacheOk, Rows
<1>2. CASE ~Asks(ods[r])
  BY <1>2 DEF Consult, cached, CacheOk, Entries
<1>3. CASE Asks(ods[r])
  <2> DEFINE a == Answer(ods[r].key, ods[r].time)
  <2>1. a \in Entries(ods[r].key)
    BY <1>1, <1>3, AnswerFacts DEF Asks
  <2>2. \A k \in Keys : cache'[k] \in {cache[k], NoEntry} \/ (k = ods[r].key /\ cache'[k] = a)
    <3>1. \E S : cache' = [k \in Keys |-> IF k = ods[r].key THEN a
                                          ELSE IF k \in S THEN NoEntry ELSE cache[k]]
      BY <1>3, Zenon DEF Consult, Remember
    <3> QED
      BY <3>1
  <2> HIDE DEF a
  <2> QED
    BY <2>1, <2>2 DEF CacheOk, Entries
<1> QED
  BY <1>2, <1>3

\* What stays true of the facts there are when the cache and the table change.
LEMMA ServedKeeps ==
  ASSUME ServedWithinTTL, UNCHANGED <<ods, facts>>
  PROVE  ServedWithinTTL'
  BY DEF ServedWithinTTL, Verified, Projected, Rows

LEMMA CacheOkInvariant == Spec => []CacheOk
<1>1. Init => CacheOk
  <2> SUFFICES ASSUME Init PROVE CacheOk
    OBVIOUS
  <2>1. /\ ods \in OdsRows /\ until = [e \in Events |-> 0] /\ now = 0
        /\ cache = [k \in Keys |-> NoEntry] /\ facts = [r \in Rows |-> NoFact]
    BY DEF Init
  <2>2. until \in Tables(Events)
    BY <2>1, Timing DEF Tables, NoOverlap
  <2>3. Verified = {}
    BY <2>1 DEF Verified, Projected
  <2> QED
    BY <2>1, <2>2, <2>3 DEF CacheOk, ServedWithinTTL
<1>2. CacheOk /\ [Next]_vars => CacheOk'
  <2> SUFFICES ASSUME CacheOk, [Next]_vars PROVE CacheOk'
    OBVIOUS
  <2>1. ASSUME NEW e \in Events, Publish(e) \/ Revoke(e) PROVE CacheOk'
    <3>1. UNCHANGED <<ods, now, cache, facts>>
      BY <2>1 DEF Publish, Revoke, cached
    <3>2. until' \in Tables(Events)
      BY <2>1, PublishKeeps, RevokeKeeps DEF CacheOk
    <3> QED
      BY <3>1, <3>2, ServedKeeps DEF CacheOk, Rows, Entries
  <2>2. CASE Tick
    <3>1. UNCHANGED <<ods, until, cache, facts>> /\ now' = now + 1
      BY <2>2 DEF Tick, cached
    <3> QED
      BY <3>1, ServedKeeps DEF CacheOk, Rows, Entries
  <2>3. ASSUME NEW r \in Rows, Project(r) PROVE CacheOk'
    <3> DEFINE a == IF Asks(ods[r]) THEN Answer(ods[r].key, ods[r].time) ELSE NoEntry
    <3>1. /\ UNCHANGED <<ods, until, now>> /\ Consult(ods[r])
          /\ facts' = [facts EXCEPT ![r] = Fact(ods[r], a)]
      BY <2>3 DEF Project, control
    <3>2. Fact(ods[r], a).answer = a /\ Fact(ods[r], a).at = now
      BY DEF Fact
    <3>3. ASSUME a.event # None
          PROVE  /\ a.event = Find(ods[r].key, ods[r].time, a.table)
                 /\ now = a.readAt \/ now - a.readAt < TTL
      <4>1. Asks(ods[r]) /\ ods[r].time \in Times
        BY <3>3, EnrichmentAssumption DEF NoEntry, CacheOk, Rows
      <4> QED
        BY <3>3, <4>1, AnswerFacts DEF Asks
    <3> HIDE DEF a
    <3>4. ServedWithinTTL'
      <4> SUFFICES ASSUME NEW q \in Rows, facts'[q] # NoFact, facts'[q].answer.event # None
                   PROVE  LET b == facts'[q].answer IN
                          /\ b.event = Find(ods[q].key, ods[q].time, b.table)
                          /\ facts'[q].at = b.readAt \/ facts'[q].at - b.readAt < TTL
        BY <3>1 DEF ServedWithinTTL, Verified, Projected, Rows
      <4>1. CASE q = r
        BY <3>1, <3>2, <3>3, <4>1 DEF CacheOk
      <4>2. CASE q # r
        BY <3>1, <4>2 DEF CacheOk, ServedWithinTTL, Verified, Projected
      <4> QED
        BY <4>1, <4>2
    <3>5. \A k \in Keys : cache'[k] # NoEntry => cache'[k] \in Entries(k)'
      BY <3>1, ConsultKeeps
    <3> QED
      BY <3>1, <3>4, <3>5 DEF CacheOk, Rows
  <2>4. ASSUME NEW r \in Rows, Replay(r) PROVE CacheOk'
    <3>1. UNCHANGED <<ods, until, now, facts>> /\ Consult(ods[r])
      BY <2>4 DEF Replay, control
    <3>2. \A k \in Keys : cache'[k] # NoEntry => cache'[k] \in Entries(k)'
      BY <3>1, ConsultKeeps
    <3> QED
      BY <3>1, <3>2, ServedKeeps DEF CacheOk, Rows
  <2>5. ASSUME NEW s \in Releases, Start(s) PROVE CacheOk'
    <3>1. UNCHANGED <<ods, until, now, facts>> /\ cache' = [k \in Keys |-> NoEntry]
      BY <2>5 DEF Start, control
    <3> QED
      BY <3>1, ServedKeeps DEF CacheOk, Rows
  <2>6. CASE \/ \E r \in Rows : LookupFails(r)
             \/ Drain \/ UNCHANGED vars
    <3>1. UNCHANGED <<ods, until, now, cache, facts>>
      BY <2>6 DEF LookupFails, Drain, vars, control, cached
    <3> QED
      BY <3>1, ServedKeeps DEF CacheOk, Rows, Entries
  <2> QED
    BY <2>1, <2>2, <2>3, <2>4, <2>5, <2>6 DEF Next
<1> QED
  BY <1>1, <1>2, PTL DEF Spec

\* The control event a fact was decided by is the one the table named for the
\* row's own time, at some moment less than a TTL before the projection
\* (cachedControlEventReader).
THEOREM CacheServesTheTable == Spec => []ServedWithinTTL
<1>1. CacheOk => ServedWithinTTL
  BY DEF CacheOk
<1> QED
  BY <1>1, CacheOkInvariant, PTL

----------------------------------------------------------------------------
(* The list of unpriced models.                                            *)

\* Where m stands in a queue.
Places(q, m) == {i \in DOMAIN q : q[i] = m}

LEMMA PlacesFinite ==
  ASSUME NEW M, NEW q \in Seq(M), NEW m
  PROVE  /\ IsFiniteSet(Places(q, m)) /\ Cardinality(Places(q, m)) \in Nat
         /\ q = <<>> => Cardinality(Places(q, m)) = 0
<1>1. Len(q) \in Int /\ DOMAIN q = 1..Len(q) /\ Places(q, m) \in SUBSET (1..Len(q))
  BY DEF Places
<1>2. IsFiniteSet(1..Len(q))
  BY <1>1, FS_Interval
<1>3. q = <<>> => Places(q, m) = {}
  BY DEF Places
<1> QED
  BY <1>1, <1>2, <1>3, FS_Subset, FS_CardinalityType, FS_EmptySet

LEMMA PlacesAppend ==
  ASSUME NEW M, NEW q \in Seq(M), NEW x \in M, NEW m
  PROVE  Cardinality(Places(Append(q, x), m)) =
           Cardinality(Places(q, m)) + (IF x = m THEN 1 ELSE 0)
<1> DEFINE P == Places(q, m)
           n == Len(q) + 1
<1>1. /\ Len(q) \in Nat /\ n \notin P
      /\ Places(Append(q, x), m) = IF x = m THEN P \cup {n} ELSE P
  BY DEF Places
<1>2. IsFiniteSet(P) /\ Cardinality(P) \in Nat
  BY PlacesFinite
<1> HIDE DEF P, n
<1>3. Cardinality(P \cup {n}) = Cardinality(P) + 1
  BY <1>1, <1>2, FS_AddElement
<1> QED
  BY <1>1, <1>2, <1>3 DEF P

LEMMA PlacesTail ==
  ASSUME NEW M, NEW q \in Seq(M), q # <<>>, NEW m
  PROVE  Cardinality(Places(q, m)) =
           Cardinality(Places(Tail(q), m)) + (IF Head(q) = m THEN 1 ELSE 0)
<1> DEFINE P == Places(q, m)
           T == Places(Tail(q), m)
           R == P \ {1}
<1>1. /\ Len(q) \in Nat \ {0} /\ Tail(q) \in Seq(M) /\ Head(q) = q[1]
      /\ Len(Tail(q)) = Len(q) - 1
      /\ \A i \in 1..(Len(q) - 1) : Tail(q)[i] = q[i + 1]
  OBVIOUS
<1>2. /\ P = {i \in 1..Len(q) : q[i] = m}
      /\ T = {i \in 1..(Len(q) - 1) : Tail(q)[i] = m}
      /\ 1 \in P <=> Head(q) = m
  BY <1>1 DEF Places
<1>3. IsFiniteSet(P) /\ Cardinality(P) \in Nat /\ IsFiniteSet(T) /\ Cardinality(T) \in Nat
  BY <1>1, PlacesFinite
<1>4. Cardinality(R) = Cardinality(T)
  <2> DEFINE F == [i \in T |-> i + 1]
  <2>1. F \in [T -> R] /\ \A i, j \in T : F[i] = F[j] => i = j
    BY <1>1, <1>2
  <2>2. \A k \in R : \E i \in T : F[i] = k
    <3> SUFFICES ASSUME NEW k \in R PROVE k - 1 \in T /\ F[k - 1] = k
      OBVIOUS
    <3>1. k \in 2..Len(q) /\ q[k] = m
      BY <1>1, <1>2
    <3>2. k - 1 \in 1..(Len(q) - 1) /\ (k - 1) + 1 = k
      BY <1>1, <3>1
    <3> QED
      BY <1>1, <1>2, <3>1, <3>2
  <2> HIDE DEF F, T, R
  <2>3. F \in Bijection(T, R)
    BY <2>1, <2>2, Fun_IsBij
  <2> QED
    BY <1>3, <2>3, FS_Bijection, Fun_ExistsBij
<1> HIDE DEF P, T
<1>5. Cardinality(R) = IF 1 \in P THEN Cardinality(P) - 1 ELSE Cardinality(P)
  BY <1>3, FS_RemoveElement
<1> QED
  BY <1>2, <1>3, <1>4, <1>5 DEF P, T

\* What a model's misses come to: counted, queued or given up, and at least one
\* for a fact that was inserted without its price.
Accounted ==
  /\ misses \in [UnpricedKeys -> Nat] /\ counts \in [UnpricedKeys -> Nat]
  /\ queue \in Seq(UnpricedKeys)
  /\ \A m \in UnpricedKeys :
       /\ counts[m] + Cardinality(Places(queue, m)) <= misses[m]
       /\ m \notin lost => counts[m] + Cardinality(Places(queue, m)) = misses[m]

Listing ==
  /\ Accounted
  /\ DOMAIN facts = Rows
  /\ \A r \in Rows :
       /\ facts[r] # NoFact /\ ods[r].model # Absent /\ facts[r].price = Unknown
       => misses[UnpricedKey(ods[r])] > 0

\* An enrichment counts its miss, and queues it or gives it up.
LEMMA EnqueueCounts ==
  ASSUME Accounted, NEW r \in Rows, Enqueue(ods[r]), UNCHANGED ods
  PROVE  /\ Accounted'
         /\ \A m \in UnpricedKeys : misses[m] <= misses'[m]
         /\ Missed(ods[r]) => misses'[UnpricedKey(ods[r])] > 0
<1> DEFINE k == UnpricedKey(ods[r])
<1>1. k \in UnpricedKeys
  BY DEF UnpricedKeys
<1>2. CASE ~ Missed(ods[r])
  BY <1>2 DEF Enqueue, unpriced, Accounted, Rows, UnpricedKeys
<1>3. CASE Missed(ods[r])
  <2>1. /\ misses' = [misses EXCEPT ![k] = @ + 1] /\ UNCHANGED counts
        /\ \/ queue' = Append(queue, k) /\ UNCHANGED lost
           \/ lost' = lost \cup {k} /\ UNCHANGED queue
    BY <1>3 DEF Enqueue
  <2> HIDE DEF k
  <2> DEFINE n(m) == Cardinality(Places(queue, m))
             n1(m) == Cardinality(Places(queue', m))
  <2>2. queue \in Seq(UnpricedKeys)
    BY DEF Accounted
  <2>3. queue' \in Seq(UnpricedKeys)
    <3>1. Append(queue, k) \in Seq(UnpricedKeys)
      BY <1>1, <2>2
    <3> QED
      BY <2>2, <2>1, <3>1
  <2>4. \A m : n(m) \in Nat /\ n1(m) \in Nat
    BY <2>2, <2>3, PlacesFinite
  <2>5. \A m : \/ n1(m) = n(m) + (IF k = m THEN 1 ELSE 0) /\ UNCHANGED lost
               \/ n1(m) = n(m) /\ lost' = lost \cup {k}
    <3>1. CASE queue' = Append(queue, k) /\ UNCHANGED lost
      BY <1>1, <2>2, <3>1, PlacesAppend
    <3>2. CASE lost' = lost \cup {k} /\ UNCHANGED queue
      BY <3>2
    <3> QED
      BY <2>1, <3>1, <3>2
  <2> HIDE DEF n, n1
  <2>6. misses' \in [UnpricedKeys -> Nat] /\ \A m \in UnpricedKeys : misses[m] <= misses'[m]
    BY <1>1, <2>1 DEF Accounted
  <2>7. ASSUME NEW m \in UnpricedKeys
        PROVE  /\ counts[m] + n1(m) <= misses'[m]
               /\ m \notin lost' => counts[m] + n1(m) = misses'[m]
    <3>1. /\ counts[m] \in Nat /\ misses[m] \in Nat
          /\ counts[m] + n(m) <= misses[m]
          /\ m \notin lost => counts[m] + n(m) = misses[m]
      BY DEF Accounted, n
    <3>2. misses'[m] = misses[m] + (IF k = m THEN 1 ELSE 0)
      BY <1>1, <2>1 DEF Accounted
    <3> QED
      BY <2>4, <2>5, <3>1, <3>2
  <2>8. misses'[k] > 0
    BY <1>1, <2>1 DEF Accounted
  <2> QED
    BY <2>1, <2>3, <2>6, <2>7, <2>8 DEF Accounted, Rows, UnpricedKeys, n1, k
<1> QED
  BY <1>2, <1>3

\* The writer takes the first of the queue, and counts it or gives it up.
LEMMA DrainKeeps ==
  ASSUME Accounted, Drain
  PROVE  Accounted'
<1> DEFINE h == Head(queue)
           n(m) == Cardinality(Places(queue, m))
           n1(m) == Cardinality(Places(queue', m))
<1>1. /\ queue # <<>> /\ queue' = Tail(queue) /\ UNCHANGED <<ods, facts, misses>>
      /\ \/ counts' = [counts EXCEPT ![h] = @ + 1] /\ UNCHANGED lost
         \/ lost' = lost \cup {h} /\ UNCHANGED counts
  BY DEF Drain
<1>2. queue \in Seq(UnpricedKeys) /\ queue' \in Seq(UnpricedKeys) /\ h \in UnpricedKeys
  <2>1. queue \in Seq(UnpricedKeys)
    BY DEF Accounted
  <2> QED
    BY <1>1, <2>1
<1>3. \A m : n(m) = n1(m) + (IF h = m THEN 1 ELSE 0) /\ n1(m) \in Nat
  BY <1>1, <1>2, PlacesTail, PlacesFinite
<1> HIDE DEF n, n1, h
<1>4. counts' \in [UnpricedKeys -> Nat]
  BY <1>1, <1>2 DEF Accounted
<1>5. ASSUME NEW m \in UnpricedKeys
      PROVE  /\ counts'[m] + n1(m) <= misses[m]
             /\ m \notin lost' => counts'[m] + n1(m) = misses[m]
  <2>1. /\ counts[m] \in Nat /\ misses[m] \in Nat
        /\ counts[m] + n(m) <= misses[m]
        /\ m \notin lost => counts[m] + n(m) = misses[m]
    BY DEF Accounted, n
  <2>2. \/ counts'[m] = counts[m] + (IF h = m THEN 1 ELSE 0) /\ UNCHANGED lost
        \/ counts'[m] = counts[m] /\ lost' = lost \cup {h}
    BY <1>1, <1>2 DEF Accounted
  <2> QED
    BY <1>3, <2>1, <2>2
<1> QED
  BY <1>1, <1>2, <1>4, <1>5 DEF Accounted, Rows, UnpricedKeys, n1

\* A start loses what is queued.
LEMMA StartLoses ==
  ASSUME Accounted, NEW s \in Releases, Start(s)
  PROVE  Accounted'
<1>1. /\ UNCHANGED <<ods, facts, misses, counts>> /\ queue' = <<>>
      /\ lost' = lost \cup {queue[i] : i \in DOMAIN queue}
  BY DEF Start
<1>2. ASSUME NEW m \in UnpricedKeys
      PROVE  /\ counts[m] + Cardinality(Places(queue', m)) <= misses[m]
             /\ m \notin lost' => counts[m] + Cardinality(Places(queue', m)) = misses[m]
  <2>1. /\ counts[m] \in Nat /\ misses[m] \in Nat /\ queue \in Seq(UnpricedKeys)
        /\ counts[m] + Cardinality(Places(queue, m)) <= misses[m]
        /\ m \notin lost => counts[m] + Cardinality(Places(queue, m)) = misses[m]
    BY DEF Accounted
  <2>2. Cardinality(Places(queue, m)) \in Nat
    BY <2>1, PlacesFinite
  <2>3. Cardinality(Places(queue', m)) = 0
    <3>1. Places(queue', m) = {}
      BY <1>1 DEF Places
    <3> QED
      BY <3>1, FS_EmptySet
  <2>4. m \notin lost' => m \notin lost /\ Cardinality(Places(queue, m)) = 0
    <3> SUFFICES ASSUME m \notin lost' PROVE Places(queue, m) = {}
      BY <1>1, FS_EmptySet
    <3> QED
      BY <1>1 DEF Places
  <2> QED
    BY <2>1, <2>2, <2>3, <2>4
<1> QED
  BY <1>1, <1>2 DEF Accounted, Rows, UnpricedKeys

LEMMA ListingStep ==
  ASSUME Listing, [Next]_vars
  PROVE  Listing'
<1>1. ASSUME UNCHANGED <<ods, facts>>, Accounted',
             \A m \in UnpricedKeys : misses[m] <= misses'[m]
      PROVE  Listing'
  BY <1>1 DEF Listing, Accounted, Rows, UnpricedKeys
<1>2. ASSUME NEW r \in Rows, Replay(r) \/ LookupFails(r) PROVE Listing'
  <2>1. Enqueue(ods[r]) /\ UNCHANGED <<ods, facts>>
    BY <1>2 DEF Replay, LookupFails
  <2> QED
    BY <1>1, <2>1, EnqueueCounts DEF Listing
<1>3. ASSUME NEW r \in Rows, Project(r) PROVE Listing'
  <2> DEFINE a == IF Asks(ods[r]) THEN Answer(ods[r].key, ods[r].time) ELSE NoEntry
             f == Fact(ods[r], a)
  <2>1. /\ Enqueue(ods[r]) /\ facts' = [facts EXCEPT ![r] = f] /\ UNCHANGED ods
    BY <1>3 DEF Project
  <2>2. f.price = Price(ods[r])
    BY FactParts
  <2> HIDE DEF f
  <2>3. /\ Accounted'
        /\ \A m \in UnpricedKeys : misses[m] <= misses'[m]
        /\ Missed(ods[r]) => misses'[UnpricedKey(ods[r])] > 0
    BY <2>1, EnqueueCounts DEF Listing
  <2>4. ASSUME NEW q \in Rows, facts'[q] # NoFact, ods[q].model # Absent,
               facts'[q].price = Unknown
        PROVE  misses'[UnpricedKey(ods[q])] > 0
    <3>1. CASE q = r
      <4>1. facts'[q] = f
        BY <2>1, <3>1 DEF Listing
      <4> QED
        BY <2>2, <2>3, <2>4, <3>1, <4>1 DEF Missed
    <3>2. CASE q # r
      <4>1. UnpricedKey(ods[q]) \in UnpricedKeys
        BY DEF UnpricedKeys
      <4>2. misses[UnpricedKey(ods[q])] > 0 /\ misses[UnpricedKey(ods[q])] \in Nat
        BY <2>1, <2>4, <3>2, <4>1 DEF Listing, Accounted
      <4>3. misses'[UnpricedKey(ods[q])] \in Nat
        BY <2>1, <2>3, <4>1 DEF Accounted, UnpricedKeys, Rows
      <4> QED
        BY <2>3, <4>1, <4>2, <4>3
    <3> QED
      BY <3>1, <3>2
  <2> QED
    BY <2>1, <2>3, <2>4 DEF Listing, Rows
<1>4. ASSUME NEW s \in Releases, Start(s) PROVE Listing'
  <2>1. UNCHANGED <<ods, facts, misses>>
    BY <1>4 DEF Start
  <2> QED
    BY <1>4, <2>1, StartLoses DEF Listing, Rows
<1>5. CASE Drain
  <2>1. UNCHANGED <<ods, facts, misses>>
    BY <1>5 DEF Drain
  <2> QED
    BY <1>5, <2>1, DrainKeeps DEF Listing, Rows
<1>6. ASSUME UNCHANGED <<ods, facts, misses, unpriced>> PROVE Listing'
  BY <1>6 DEF Listing, Accounted, unpriced, Rows, UnpricedKeys
<1>7. CASE \/ \E e \in Events : Publish(e) \/ Revoke(e)
           \/ Tick \/ UNCHANGED vars
  BY <1>6, <1>7 DEF Publish, Revoke, Tick, vars
<1> QED
  BY <1>2, <1>3, <1>4, <1>5, <1>7 DEF Next

LEMMA ListingInvariant == Spec => []Listing
<1>1. Init => Listing
  <2> SUFFICES ASSUME Init PROVE Listing
    OBVIOUS
  <2>1. /\ facts = [r \in Rows |-> NoFact]
        /\ misses = [m \in UnpricedKeys |-> 0] /\ counts = [m \in UnpricedKeys |-> 0]
        /\ queue = <<>> /\ queue \in Seq(UnpricedKeys)
    BY DEF Init
  <2>2. \A m : Cardinality(Places(queue, m)) = 0
    BY <2>1, PlacesFinite
  <2> QED
    BY <2>1, <2>2 DEF Listing, Accounted
<1> QED
  BY <1>1, ListingStep, PTL DEF Spec

\* A fact without a price is on the list of unpriced models or about to be,
\* unless a miss was dropped or lost; and event_count counts no miss twice
\* (UnpricedQueue).
THEOREM MissesListed == Spec => []UnpricedListed
<1>1. Listing => UnpricedListed
  <2> SUFFICES ASSUME Listing PROVE UnpricedListed
    OBVIOUS
  <2>1. \A m : Queued(m) = Cardinality(Places(queue, m))
    BY DEF Queued, Places
  <2>2. \A r \in Rows : UnpricedKey(ods[r]) \in UnpricedKeys
    BY DEF UnpricedKeys
  <2> QED
    BY <2>1, <2>2 DEF Listing, Accounted, UnpricedListed, Projected
<1> QED
  BY <1>1, ListingInvariant, PTL

----------------------------------------------------------------------------
(* The types, and the recency list of the cache.                           *)

\* A list without repetitions.
Lists(S) == {s \in Seq(S) : \A i, j \in DOMAIN s : s[i] = s[j] => i = j}
Members(s) == {s[i] : i \in DOMAIN s}

LEMMA WithoutFacts ==
  ASSUME NEW S, NEW s \in Lists(S), NEW k
  PROVE  /\ Without(s, k) \in Lists(S)
         /\ Members(Without(s, k)) = Members(s) \ {k}
         /\ Len(Without(s, k)) = Len(s) - (IF k \in Members(s) THEN 1 ELSE 0)
<1> DEFINE w == Without(s, k)
<1>1. s \in Seq(S) /\ Len(s) \in Nat /\ DOMAIN s = 1..Len(s)
  BY DEF Lists
<1>2. CASE \A i \in DOMAIN s : s[i] # k
  <2>1. w = s
    BY <1>2 DEF Without
  <2>2. k \notin Members(s)
    BY <1>2 DEF Members
  <2> QED
    BY <1>1, <2>1, <2>2
<1>3. CASE \E i \in DOMAIN s : s[i] = k
  <2> DEFINE p == CHOOSE i \in DOMAIN s : s[i] = k
  <2>1. p \in DOMAIN s /\ s[p] = k
    BY <1>3
  <2>2. w = SubSeq(s, 1, p - 1) \o SubSeq(s, p + 1, Len(s))
    BY <1>3 DEF Without
  <2> HIDE DEF p
  <2>3. /\ w \in Seq(S) /\ Len(w) = Len(s) - 1
        /\ \A j \in 1..(Len(s) - 1) : w[j] = IF j < p THEN s[j] ELSE s[j + 1]
    <3> DEFINE u == SubSeq(s, 1, p - 1)
               v == SubSeq(s, p + 1, Len(s))
    <3>1. /\ u \in Seq(S) /\ Len(u) = p - 1
          /\ \A j \in 1..(p - 1) : u[j] = s[j]
      BY <1>1, <2>1
    <3>2. /\ v \in Seq(S) /\ Len(v) = Len(s) - p
          /\ \A j \in 1..(Len(s) - p) : v[j] = s[p + j]
      BY <1>1, <2>1
    <3> HIDE DEF u, v
    <3>3. /\ u \o v \in Seq(S) /\ Len(u \o v) = Len(u) + Len(v)
          /\ \A j \in 1..(Len(u) + Len(v)) :
               (u \o v)[j] = IF j <= Len(u) THEN u[j] ELSE v[j - Len(u)]
      BY <3>1, <3>2
    <3>4. w = u \o v
      BY <2>2 DEF u, v
    <3>5. Len(u) + Len(v) = Len(s) - 1
      BY <1>1, <2>1, <3>1, <3>2
    <3>6. ASSUME NEW j \in 1..(Len(s) - 1)
          PROVE  w[j] = IF j < p THEN s[j] ELSE s[j + 1]
      <4>1. CASE j < p
        BY <1>1, <2>1, <3>1, <3>3, <3>4, <3>5, <4>1
      <4>2. CASE ~ (j < p)
        <5>1. /\ j - Len(u) \in 1..(Len(s) - p) /\ ~ (j <= Len(u))
              /\ p + (j - Len(u)) = j + 1
          BY <1>1, <2>1, <3>1, <4>2
        <5> QED
          BY <3>2, <3>3, <3>4, <3>5, <4>2, <5>1
      <4> QED
        BY <4>1, <4>2
    <3> QED
      BY <3>3, <3>4, <3>5, <3>6
  <2> HIDE DEF w
  <2>4. DOMAIN w = 1..(Len(s) - 1)
    BY <1>1, <2>3
  <2>5. w \in Lists(S)
    <3> SUFFICES ASSUME NEW i \in DOMAIN w, NEW j \in DOMAIN w, w[i] = w[j]
                 PROVE  i = j
      BY <2>3 DEF Lists
    <3> DEFINE from(n) == IF n < p THEN n ELSE n + 1
    <3>1. /\ from(i) \in DOMAIN s /\ from(j) \in DOMAIN s
          /\ w[i] = s[from(i)] /\ w[j] = s[from(j)]
      BY <1>1, <2>1, <2>3, <2>4
    <3>2. from(i) = from(j)
      BY <3>1 DEF Lists
    <3> QED
      BY <1>1, <2>1, <2>4, <3>2
  <2>6. Members(w) = Members(s) \ {k}
    <3>1. ASSUME NEW x \in Members(w) PROVE x \in Members(s) \ {k}
      <4>1. PICK j \in 1..(Len(s) - 1) : x = w[j]
        BY <2>4 DEF Members
      <4> DEFINE i == IF j < p THEN j ELSE j + 1
      <4>2. i \in DOMAIN s /\ i # p /\ x = s[i]
        BY <1>1, <2>1, <2>3, <4>1
      <4> QED
        BY <2>1, <4>2 DEF Members, Lists
    <3>2. ASSUME NEW x \in Members(s) \ {k} PROVE x \in Members(w)
      <4>1. PICK i \in DOMAIN s : x = s[i]
        BY DEF Members
      <4> DEFINE j == IF i < p THEN i ELSE i - 1
      <4>2. j \in 1..(Len(s) - 1) /\ w[j] = x
        BY <1>1, <2>1, <2>3, <4>1
      <4> QED
        BY <2>4, <4>2 DEF Members
    <3> QED
      BY <3>1, <3>2
  <2> QED
    BY <2>1, <2>3, <2>5, <2>6 DEF Members, w
<1> QED
  BY <1>2, <1>3

\* A key used, and made the last of the list.
LEMMA UsedLast ==
  ASSUME NEW S, NEW s \in Lists(S), NEW k \in S
  PROVE  LET q == Append(Without(s, k), k) IN
         /\ q \in Lists(S) /\ Members(q) = Members(s) \cup {k}
         /\ Len(q) = Len(s) + (IF k \in Members(s) THEN 0 ELSE 1)
         /\ Len(q) >= 1 /\ q[Len(q)] = k
<1> DEFINE w == Without(s, k)
           q == Append(w, k)
<1>1. /\ w \in Lists(S) /\ Members(w) = Members(s) \ {k}
      /\ Len(w) = Len(s) - (IF k \in Members(s) THEN 1 ELSE 0)
  BY WithoutFacts
<1> HIDE DEF w
<1>2. /\ Len(s) \in Nat /\ w \in Seq(S) /\ Len(w) \in Nat /\ DOMAIN w = 1..Len(w)
      /\ \A i, j \in DOMAIN w : w[i] = w[j] => i = j
      /\ \A i \in DOMAIN w : w[i] # k
  <2>1. \A i \in DOMAIN w : w[i] \in Members(w)
    BY DEF Members
  <2>2. \A i \in DOMAIN w : w[i] # k
    BY <1>1, <2>1
  <2> QED
    BY <1>1, <2>2 DEF Lists
<1>3. /\ q \in Seq(S) /\ Len(q) = Len(w) + 1 /\ DOMAIN q = 1..(Len(w) + 1)
      /\ q[Len(w) + 1] = k /\ \A i \in DOMAIN w : q[i] = w[i]
  BY <1>2
<1> HIDE DEF q
<1>4. q \in Lists(S)
  <2> SUFFICES ASSUME NEW i \in DOMAIN q, NEW j \in DOMAIN q, q[i] = q[j]
               PROVE  i = j
    BY <1>3 DEF Lists
  <2> QED
    BY <1>2, <1>3
<1>5. Members(q) = Members(w) \cup {k}
  BY <1>2, <1>3 DEF Members
<1> QED
  BY <1>1, <1>2, <1>3, <1>4, <1>5 DEF q, w

\* The first of a list dropped.
LEMMA FirstDropped ==
  ASSUME NEW S, NEW s \in Lists(S), Len(s) >= 1
  PROVE  /\ Tail(s) \in Lists(S) /\ Members(Tail(s)) = Members(s) \ {s[1]}
         /\ Len(Tail(s)) = Len(s) - 1
<1>1. /\ s \in Seq(S) /\ Len(s) \in Nat /\ DOMAIN s = 1..Len(s) /\ s # <<>>
      /\ \A i, j \in DOMAIN s : s[i] = s[j] => i = j
  BY DEF Lists
<1> DEFINE q == Tail(s)
<1>2. /\ q \in Seq(S) /\ Len(q) = Len(s) - 1 /\ DOMAIN q = 1..(Len(s) - 1)
      /\ \A i \in DOMAIN q : q[i] = s[i + 1]
  BY <1>1
<1> HIDE DEF q
<1>3. q \in Lists(S)
  BY <1>1, <1>2 DEF Lists
<1>4. Members(q) \subseteq Members(s) \ {s[1]}
  BY <1>1, <1>2 DEF Members
<1>5. Members(s) \ {s[1]} \subseteq Members(q)
  <2> SUFFICES ASSUME NEW i \in DOMAIN s, i # 1 PROVE s[i] \in Members(q)
    BY DEF Members
  <2>1. i - 1 \in DOMAIN q /\ q[i - 1] = s[i]
    BY <1>1, <1>2
  <2> QED
    BY <2>1 DEF Members
<1>6. Members(q) = Members(s) \ {s[1]}
  BY <1>4, <1>5
<1> QED
  BY <1>2, <1>3, <1>6 DEF q

\* The list names the keys the cache has an entry of, and no more than it may.
Recency ==
  /\ recent \in Lists(Keys) /\ Len(recent) <= Size
  /\ Members(recent) = {k \in Keys : cache[k] # NoEntry}

\* A lookup that answers keeps it so: the key it evicts is not the one it used.
LEMMA RememberKeeps ==
  ASSUME Recency, NEW k \in Keys, NEW t, Answer(k, t) # NoEntry, Remember(k, t)
  PROVE  Recency'
<1> DEFINE order == Append(Without(recent, k), k)
           n == Len(order)
<1>1. /\ order \in Lists(Keys) /\ Members(order) = Members(recent) \cup {k}
      /\ n = Len(recent) + (IF k \in Members(recent) THEN 0 ELSE 1)
      /\ n >= 1 /\ order[n] = k
  BY UsedLast DEF Recency
<1>2. Size \in Nat /\ Size >= 1 /\ Len(recent) \in Nat /\ Len(recent) <= Size
  BY EnrichmentAssumption DEF Recency, Lists
<1>3. CASE n > Size
  <2>1. /\ recent' = Tail(order)
        /\ cache' = [x \in Keys |-> IF x = k THEN Answer(k, t)
                                    ELSE IF x \in {order[1]} THEN NoEntry ELSE cache[x]]
    BY <1>3 DEF Remember
  <2> HIDE DEF order
  <2>2. order[1] # k
    BY <1>1, <1>2, <1>3 DEF Lists
  <2>3. /\ recent' \in Lists(Keys) /\ Members(recent') = Members(order) \ {order[1]}
        /\ Len(recent') = n - 1
    BY <1>1, <2>1, FirstDropped
  <2>4. {x \in Keys : cache'[x] # NoEntry} =
          ({x \in Keys : cache[x] # NoEntry} \cup {k}) \ {order[1]}
    BY <2>1, <2>2
  <2> QED
    BY <1>1, <1>2, <2>3, <2>4 DEF Recency
<1>4. CASE ~ (n > Size)
  <2>1. /\ recent' = order
        /\ cache' = [x \in Keys |-> IF x = k THEN Answer(k, t)
                                    ELSE IF x \in {} THEN NoEntry ELSE cache[x]]
    BY <1>4 DEF Remember
  <2> HIDE DEF order
  <2>2. {x \in Keys : cache'[x] # NoEntry} = {x \in Keys : cache[x] # NoEntry} \cup {k}
    BY <2>1
  <2> QED
    BY <1>1, <1>2, <1>4, <2>1, <2>2 DEF Recency
<1> QED
  BY <1>3, <1>4

LEMMA RecencyStep ==
  ASSUME Recency, CacheOk, [Next]_vars
  PROVE  Recency'
<1>1. CASE UNCHANGED cached
  BY <1>1 DEF Recency, cached
<1>2. ASSUME NEW r \in Rows, Consult(ods[r]) PROVE Recency'
  <2>1. CASE Asks(ods[r])
    <3> DEFINE k == ods[r].key
               t == ods[r].time
    <3>1. k \in Keys /\ t \in Times /\ Remember(k, t)
      BY <1>2, <2>1, EnrichmentAssumption DEF Asks, Consult, CacheOk, Rows
    <3>2. Answer(k, t) \in Entries(k)
      BY <3>1, AnswerFacts
    <3> HIDE DEF k, t
    <3>3. Answer(k, t) # NoEntry
      BY <3>2 DEF Entries, NoEntry
    <3> QED
      BY <3>1, <3>3, RememberKeeps
  <2> QED
    BY <1>1, <1>2, <2>1 DEF Consult
<1>3. ASSUME NEW r \in Rows, LookupFails(r) PROVE Recency'
  <2> DEFINE k == ods[r].key
  <2>1. /\ k \in Keys /\ UNCHANGED cache
        /\ recent' = IF cache[k] = NoEntry THEN recent ELSE Append(Without(recent, k), k)
    BY <1>3 DEF LookupFails
  <2>2. CASE cache[k] = NoEntry
    BY <2>1, <2>2 DEF Recency
  <2>3. CASE cache[k] # NoEntry
    <3>1. k \in Members(recent)
      BY <2>1, <2>3 DEF Recency
    <3> HIDE DEF k
    <3>2. recent' \in Lists(Keys) /\ Members(recent') = Members(recent) /\ Len(recent') = Len(recent)
      BY <2>1, <2>3, <3>1, UsedLast DEF Recency, Lists
    <3> QED
      BY <2>1, <3>2 DEF Recency
  <2> QED
    BY <2>2, <2>3
<1>4. ASSUME NEW s \in Releases, Start(s) PROVE Recency'
  <2>1. cache' = [k \in Keys |-> NoEntry] /\ recent' = <<>>
    BY <1>4 DEF Start
  <2> QED
    BY <2>1, EnrichmentAssumption DEF Recency, Lists, Members
<1> QED
  BY <1>1, <1>2, <1>3, <1>4
  DEF Next, vars, Publish, Revoke, Tick, Drain, Project, Replay

LEMMA LookupSource ==
  ASSUME NEW row
  PROVE  Price(row).source \in Sources
  BY DEF Price, Lookup, Priced, Unknown, Sources

\* The bounds of what is neither cached nor counted.
Bounded ==
  /\ now \in 0..MaxNow /\ replays \in 0..MaxReplays
  /\ \A r \in Rows : facts[r] # NoFact => facts[r].at \in 0..now
  /\ Len(queue) <= QueueSize /\ lost \subseteq UnpricedKeys
  /\ running \in Releases /\ starts \in 1..MaxStarts

LEMMA BoundedStep ==
  ASSUME Bounded, EachFact, Accounted, [Next]_vars
  PROVE  Bounded'
<1> USE DEF Bounded
<1>1. /\ MaxNow \in Nat /\ MaxReplays \in Nat /\ QueueSize \in Nat
      /\ queue \in Seq(UnpricedKeys) /\ Len(queue) \in Nat
  BY EnrichmentAssumption DEF Accounted
<1>2. ASSUME NEW r \in Rows, Enqueue(ods[r]), UNCHANGED ods
      PROVE  Len(queue') <= QueueSize /\ lost' \subseteq UnpricedKeys'
  <2>1. UnpricedKey(ods[r]) \in UnpricedKeys /\ UnpricedKeys' = UnpricedKeys
    BY <1>2 DEF UnpricedKeys, Rows
  <2> QED
    BY <1>1, <1>2, <2>1 DEF Enqueue, unpriced
<1>3. ASSUME NEW r \in Rows, Project(r) PROVE Bounded'
  <2> DEFINE a == IF Asks(ods[r]) THEN Answer(ods[r].key, ods[r].time) ELSE NoEntry
  <2>1. /\ facts' = [facts EXCEPT ![r] = Fact(ods[r], a)] /\ Enqueue(ods[r])
        /\ UNCHANGED <<ods, now, replays, running, starts>>
    BY <1>3 DEF Project, control, prices
  <2>2. Fact(ods[r], a).at = now
    BY DEF Fact
  <2> HIDE DEF a
  <2>3. \A q \in Rows' : facts'[q] # NoFact => facts'[q].at \in 0..now
    BY <2>1, <2>2, <1>1 DEF EachFact, Rows
  <2> QED
    BY <1>2, <2>1, <2>3
<1>4. ASSUME NEW r \in Rows, Replay(r) \/ LookupFails(r) PROVE Bounded'
  <2>1. /\ Enqueue(ods[r]) /\ replays < MaxReplays /\ replays' = replays + 1
        /\ UNCHANGED <<ods, facts, now, running, starts>>
    BY <1>4 DEF Replay, LookupFails, control, prices
  <2> QED
    BY <1>1, <1>2, <2>1 DEF Rows
<1>5. ASSUME NEW s \in Releases, Start(s) PROVE Bounded'
  <2>1. /\ starts < MaxStarts /\ starts' = starts + 1 /\ running' = s
        /\ queue' = <<>> /\ lost' = lost \cup Members(queue)
        /\ UNCHANGED <<ods, facts, now, replays>>
    BY <1>5 DEF Start, Members, control
  <2>2. Members(queue) \subseteq UnpricedKeys /\ Len(<<>>) = 0
    BY <1>1 DEF Members
  <2>3. MaxStarts \in Int
    BY EnrichmentAssumption
  <2> QED
    BY <1>1, <2>1, <2>2, <2>3 DEF Rows, UnpricedKeys
<1>6. CASE Drain
  <2>1. /\ queue # <<>> /\ queue' = Tail(queue)
        /\ lost' = lost \/ lost' = lost \cup {Head(queue)}
        /\ UNCHANGED <<ods, facts, now, replays, running, starts>>
    BY <1>6 DEF Drain, control, prices
  <2>2. Len(queue') = Len(queue) - 1 /\ Head(queue) \in UnpricedKeys
    BY <1>1, <2>1
  <2> QED
    BY <1>1, <2>1, <2>2 DEF Rows, UnpricedKeys
<1>7. CASE Tick
  BY <1>1, <1>7 DEF Tick, unpriced, prices, Rows, UnpricedKeys
<1>8. CASE UNCHANGED vars \/ \E e \in Events : Publish(e) \/ Revoke(e)
  BY <1>8 DEF Publish, Revoke, vars, unpriced, prices, control, Rows, UnpricedKeys
<1> QED
  BY <1>3, <1>4, <1>5, <1>6, <1>7, <1>8 DEF Next

\* Every value is of its type; and the cache holds no more keys than it may,
\* each of them in the recency list, whatever is looked up, evicted, retried
\* and lost with the process (cachedControlEventReader, UnpricedQueue).
THEOREM EnrichmentTyped == Spec => []TypeOK
<1>1. Init => Recency /\ Bounded
  <2> SUFFICES ASSUME Init PROVE Recency /\ Bounded
    OBVIOUS
  <2>1. /\ now = 0 /\ cache = [k \in Keys |-> NoEntry] /\ recent = <<>>
        /\ facts = [r \in Rows |-> NoFact] /\ replays = 0 /\ queue = <<>>
        /\ lost = {} /\ running \in Releases /\ starts = 1
    BY DEF Init
  <2>2. Recency
    BY <2>1, EnrichmentAssumption DEF Recency, Lists, Members
  <2> QED
    BY <2>1, <2>2, EnrichmentAssumption DEF Bounded
<1>2. Recency /\ CacheOk /\ [Next]_vars => Recency'
  BY RecencyStep
<1>3. Bounded /\ EachFact /\ Listing /\ [Next]_vars => Bounded'
  BY BoundedStep DEF Listing
<1>4. Recency /\ Bounded /\ CacheOk /\ EachFact /\ Listing /\ OneOpen => TypeOK
  <2> SUFFICES ASSUME Recency, Bounded, CacheOk, EachFact, Listing, OneOpen
               PROVE  TypeOK
    OBVIOUS
  <2>1. \A k \in Keys : cache[k] # NoEntry =>
          cache[k].event \in Events \cup {None} /\ cache[k].readAt \in 0..now
    <3> SUFFICES ASSUME NEW k \in Keys, cache[k] # NoEntry
                 PROVE  cache[k].event \in Events \cup {None} /\ cache[k].readAt \in 0..now
      OBVIOUS
    <3>1. /\ cache[k].event \in OfKey(k) \cup {None}
          /\ cache[k].readAt \in Nat /\ cache[k].readAt <= now /\ now \in Nat
      BY DEF CacheOk, Entries
    <3> QED
      BY <3>1 DEF OfKey
  <2>2. \A r \in Rows : facts[r] # NoFact =>
          facts[r].at \in 0..now /\ facts[r].price.source \in Sources
    BY LookupSource DEF Bounded, EachFact
  <2> QED
    BY <2>1, <2>2 DEF TypeOK, Recency, Members, Bounded, CacheOk, Tables, Listing,
                      Accounted, OneOpen
<1> QED
  BY <1>1, <1>2, <1>3, <1>4, CacheOkInvariant, EachFactInvariant,
     ListingInvariant, OneOpenInvariant, PTL DEF Spec
=============================================================================
