--------------------------- MODULE MCContextMerge ---------------------------
(* Small instances of ContextMerge for TLC. *)
EXTENDS ContextMerge, TLC

CONSTANTS decision, fact, x, y, f, g

Unlimited == [labels |-> [d \in {} |-> None], from |-> None, to |-> None, tags |-> {}]
On(place) == [Unlimited EXCEPT !.labels = [d \in {"component"} |-> place]]

Object(fields, atom) == [field \in fields |-> atom]

MCTopics == {decision, fact}
MCHighRisk == {decision}
MCExpandable == {fact}
MCScopes == {Unlimited, On("web")}

Says(topic, scope, fields, atom) ==
  [topic |-> topic, scope |-> scope, value |-> Object(fields, atom)]

\* A decision, and a fact that grows field by field.
MCProposals ==
  {Says(decision, Unlimited, {f}, x), Says(fact, Unlimited, {f}, x), Says(fact, Unlimited, {g}, y)}
MCFacts == {p \in MCProposals : p.topic = fact}
MCOneFact == {Says(fact, Unlimited, {f}, x)}

\* Two facts that disagree: in one scope, in overlapping scopes; two topics.
MCDisagreeing == {Says(fact, Unlimited, {f}, x), Says(fact, Unlimited, {f}, y)}
MCRivals == {Says(fact, Unlimited, {f}, x), Says(fact, On("web"), {f}, y)}
MCOneDecision == {Says(decision, Unlimited, {f}, x)}
MCGrowing == MCFacts \cup MCRivals

MCEditValues == {Object({f}, y)}
MCNoEdits == {}

Ids == Permutations(DeltaIds) \cup Permutations(RequestIds) \cup Permutations(ChangeIds)
         \cup Permutations(CommitIds \ {Genesis}) \cup Permutations(ClientKeys)
=============================================================================
