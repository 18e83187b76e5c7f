---------------------------- MODULE MCEnrichment ----------------------------
(* Instances of Enrichment for TLC. *)
EXTENDS Enrichment, TLC

CONSTANTS v1, v2
Symmetry == Permutations(Releases)

\* One key handed over at time 1, and a second key.
MCControl ==
  LET C(key, from, org, seat) ==
        [key |-> key, from |-> from, org |-> org, account |-> "ann", seat |-> seat,
         binding |-> "b1", credential |-> "c1", provider |-> "p1", revision |-> "v1"]
  IN [e \in {"e1", "e2", "e3"} |->
        CASE e = "e1" -> C("k1", 0, "o1", "s1")
          [] e = "e2" -> C("k1", 1, "o1", "s2")
          [] e = "e3" -> [C("k2", 0, "o1", "s1") EXCEPT !.account = Absent]]

Tokens(input, read, output) ==
  [input |-> input, read |-> read, creation |-> 0, output |-> output, reasoning |-> 0]

Row(key, time) ==
  [key |-> key, time |-> time, org |-> "o1", account |-> "ann", seat |-> "s1",
   binding |-> Absent, credential |-> Absent, provider |-> Absent,
   revision |-> Absent, code |-> "anthropic", model |-> Absent,
   path |-> "generation", tokens |-> Tokens(1, 0, 1), total |-> <<2>>]

\* Rows that differ from a plain one in what is said of their owner, and in
\* path, tokens and their total, if one is given.
Owners(row) ==
  {[row EXCEPT !.org = "o2"]}
  \cup {[[row EXCEPT ![f] = x] EXCEPT ![g] = y] :
          f \in {"account", "seat", "credential"}, x \in {Absent, "x"},
          g \in {"binding", "provider", "revision"}, y \in {Absent, "x"}}
Paths(row) ==
  {[row EXCEPT !.path = p, !.tokens = t, !.total = n] :
     p \in {Absent, "generation", "other"}, t \in {Tokens(0, 0, 0), Tokens(0, 0, 1)},
     n \in {<<>>, <<0>>, <<1>>}}

\* Rows that differ in what is to be priced: an override of o1, prices of two
\* times, a native entry beside a prefixed one, a prefixed one alone, none.
Priceable(row) ==
  {[row EXCEPT !.code = c, !.model = m, !.tokens = Tokens(1, x, 1)] :
     c \in {"anthropic", "bedrock"}, x \in {1, 2},
     m \in {"claude", "anthropic.claude", "haiku", "vendor.opus", "opus", "novel", Absent}}

Base == ("claude" :> "claude") @@ ("anthropic.claude" :> "claude") @@ ("haiku" :> "haiku")
        @@ ("vendor.opus" :> "opus") @@ ("opus" :> "opus") @@ ("novel" :> "novel")
Entry(provider, n, above) ==
  [provider |-> provider, input |-> n, output |-> 2 * n, creation |-> n, read |-> n,
   inputAbove |-> above, outputAbove |-> 0]
MCLiteLLM ==
  ("claude" :> Entry("anthropic", 3, 5)) @@ ("anthropic.claude" :> Entry("bedrock", 4, 0))
  @@ ("haiku" :> Entry("", 9, 0)) @@ ("vendor.opus" :> Entry("bedrock", 7, 0))
MCKeyOrder == <<"anthropic.claude", "claude", "haiku", "vendor.opus">>
Overlay(org, provider, model, from, n) ==
  [org |-> org, provider |-> provider, model |-> model, from |-> from,
   input |-> n, output |-> n, creation |-> n, read |-> n, reasoning |-> 0]
MCHistory == <<Overlay("", "anthropic", "haiku", 2, 30), Overlay("", "anthropic", "haiku", 1, 20),
               Overlay("", "bedrock", "claude", 1, 10)>>
MCOverrides == <<Overlay("o1", "bedrock", "anthropic.claude", 0, 1), Overlay("o1", "bedrock", "anthropic.claude", 0, 2)>>
MCPooled == {"claude"}

\* Two rows of one key, before and after its handover, or of two keys; or one
\* row of any sort.
Alone ==
  Owners(Row("k1", 0)) \cup Paths([Row("k1", 0) EXCEPT !.seat = "x"])
  \cup UNION {Priceable(Row("", t)) : t \in 0..2}
  \cup {Row("personal:x", 0), [Row("k2", 0) EXCEPT !.account = "bob"]}
Together == {<<Row("k1", 1), Row("k1", 0)>>, <<Row("k1", 1), Row("k2", 0)>>}
MCOdsRows == {<<r>> : r \in Alone} \cup Together
=============================================================================
