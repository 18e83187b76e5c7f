------------------------------ MODULE Pricing ------------------------------
(***************************************************************************)
(* The price table of the collector: what one token of a model costs at a  *)
(* time, for an org, and what an event costs.  The three embedded files    *)
(* are constants; everything here is a pure function of them (Resolver is  *)
(* built once and never changes).                                          *)
(***************************************************************************)
EXTENDS Integers, Sequences, FiniteSetsExt

CONSTANTS
  LiteLLM,    \* the model objects of the LiteLLM file, by model name
  Bare,       \* canonicalModel: the name without region, vendor and version
  KeyOrder,   \* the model names, sorted
  History,    \* the entries of pricing-history.json, in file order
  Overrides,  \* the entries of pricing-overrides.json, in file order
  Threshold   \* longContextThreshold

Models == DOMAIN Bare

ASSUME PriceTableAssumption ==
  /\ DOMAIN LiteLLM \subseteq Models /\ Bare \in [Models -> Models]
  /\ DOMAIN LiteLLM = {KeyOrder[i] : i \in DOMAIN KeyOrder}
  /\ \A i \in DOMAIN History : History[i].from \in Int
  \* Of two prices of a model from one instant on, the sort keeps either first.
  /\ \A i, j \in DOMAIN History :
       i # j => \/ History[i].provider # History[j].provider
                \/ History[i].model # History[j].model
                \/ History[i].from # History[j].from
  /\ Threshold \in Nat

\* parseLiteLLM: entries without a provider are not models; reasoning is billed
\* as output.
Listed == {m \in DOMAIN LiteLLM : LiteLLM[m].provider # ""}
ListPrice(m) ==
  LET e == LiteLLM[m] IN
  [input |-> e.input, output |-> e.output, creation |-> e.creation,
   read |-> e.read, reasoning |-> e.output,
   inputAbove |-> e.inputAbove, outputAbove |-> e.outputAbove]

\* toUnitPrices: an overlay has no tiers.
OverlayPrice(e) ==
  [input |-> e.input, output |-> e.output, creation |-> e.creation,
   read |-> e.read,
   reasoning |-> IF e.reasoning = 0 THEN e.output ELSE e.reasoning,
   inputAbove |-> 0, outputAbove |-> 0]

OverridesFor(org, provider, model) ==
  {i \in DOMAIN Overrides : /\ Overrides[i].org = org
                            /\ Overrides[i].provider = provider
                            /\ Overrides[i].model = model}
HistoryOf(provider, model) ==
  {i \in DOMAIN History : /\ History[i].provider = provider
                          /\ History[i].model = model}

\* The entry in force at ts: the first of the entries sorted by descending
\* effective_from that has begun.
InForce(H, ts) ==
  CHOOSE i \in H : /\ History[i].from <= ts
                   /\ \A j \in H : History[j].from <= ts => History[j].from <= History[i].from

\* Seeded fault: the first key in order wins, native or not.
CanonicalFirst(name) ==
  LET S == {i \in DOMAIN KeyOrder : KeyOrder[i] \in Listed /\ Bare[KeyOrder[i]] = name}
  IN IF S = {} THEN {} ELSE {KeyOrder[Min(S)]}

\* The entries whose name is bare already.  (A bare name need not be its own:
\* stripping one version suffix may leave another.)
Native == {m \in Listed : Bare[m] = m}

\* buildCanonicalIndex: the entry a bare name stands for, if there is one.
\* The native entry is authoritative; of the others the first in order.
Canonical(name) ==
  LET S == {i \in DOMAIN KeyOrder : KeyOrder[i] \in Listed /\ Bare[KeyOrder[i]] = name}
  IN IF name \in Native THEN {name}
     ELSE IF S = {} THEN {} ELSE {KeyOrder[Min(S)]}

\* applyTier: above the threshold the long-context rates, where there are any.
Tiered(p, context) ==
  LET long == context > Threshold IN
  [p EXCEPT !.input = IF long /\ p.inputAbove > 0 THEN p.inputAbove ELSE @,
            !.output = IF long /\ p.outputAbove > 0 THEN p.outputAbove ELSE @,
            !.inputAbove = 0, !.outputAbove = 0]

Unknown == [source |-> "unknown"]
Priced(source, from, p, context) ==
  [source |-> source, from |-> from, rates |-> Tiered(p, context)]

\* Resolver.Lookup: overrides, history, the list, the list by bare name.
Lookup(provider, model, ts, context, org) ==
  LET O == OverridesFor(org, provider, model)
      H == HistoryOf(provider, model)
  IN IF org # "" /\ O # {}
     THEN Priced("overrides", 0, OverlayPrice(Overrides[Max(O)]), context)
     ELSE IF \E i \in H : History[i].from <= ts
     THEN LET h == History[InForce(H, ts)] IN
          Priced("history", h.from, OverlayPrice(h), context)
     ELSE IF model \in Listed /\ LiteLLM[model].provider = provider
     THEN Priced("litellm", 0, ListPrice(model), context)
     ELSE IF Canonical(Bare[model]) # {}
     THEN Priced("litellm_normalized", 0,
                 ListPrice(CHOOSE m \in Canonical(Bare[model]) : TRUE), context)
     ELSE Unknown

\* ComputeCost, for a provider whose input is reported without the cache.
Cost(p, t) ==
  t.input * p.input + t.creation * p.creation + t.read * p.read
  + t.output * p.output + t.reasoning * p.reasoning

\* buildSummaryFrom: the models whose list price the edge is given, of the names
\* the pools route to.
Summary(pooled) ==
  [m \in {m \in Listed : /\ m \in pooled
                         /\ LiteLLM[m].provider \in {"anthropic", "openai"}}
     |-> ListPrice(m)]
=============================================================================
