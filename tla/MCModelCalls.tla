---------------------------- MODULE MCModelCalls ----------------------------
(* Small instances of four modules about what a model is asked, and who     *)
(* still waits for it, for TLC: requests of the provider, extractions, the  *)
(* pack of a project, or a browser tab.                                     *)
EXTENDS ModelProvider, Extraction, ContextPack, Client, TLC

CONSTANTS ours, other, foreign, e1, ana, bo

-----------------------------------------------------------------------------
Named == {ours, other, foreign}
Ours == {ours, other}

Chunk(who, choice, text, finish, usage) ==
  [kind |-> "chunk", identity |-> who, choice |-> choice, text |-> text, finish |-> finish,
   usage |-> usage]
Kind(kind) == [kind |-> kind]

First == Chunk(ours, TRUE, 1, None, FALSE)
More == Chunk(None, TRUE, 1, None, FALSE)
Last == Chunk(None, TRUE, 0, "stop", FALSE)
Counted == Chunk(ours, FALSE, 0, None, TRUE)
Strange == Chunk(foreign, TRUE, 1, "length", TRUE)
Changed == Chunk(other, TRUE, 1, "stop", FALSE)

Events ==
  {First, More, Last, Counted, Strange, Changed, Kind("done"), Kind("malformed"), Kind("comment")}

P(bytes, event) == [bytes |-> bytes, event |-> event]

\* Whole events, halves of events, and reads that end one event and begin another.
Reads ==
  {<<P(1, e)>> : e \in Events}
  \cup {<<P(1, None)>>, <<P(2, None)>>, <<P(2, More), P(1, None)>>,
        <<P(1, First), P(1, Last)>>, <<P(1, Last), P(1, Kind("done"))>>}

Bodies ==
  {[identity |-> who, text |-> text, finish |-> "stop"] :
     who \in {ours, foreign}, text \in {1, 2, 9, None}}
  \cup {[malformed |-> TRUE]}

Two == {2}

-----------------------------------------------------------------------------
OneExtraction == {e1}
TwoUsers == {ana, bo}

Item(id, kind, key, authority, lifecycle) ==
  [id |-> id, kind |-> kind, key |-> key, authority |-> authority, lifecycle |-> lifecycle,
   length |-> 1]

Some ==
  <<Item(4, "risk", 1, "authoritative", "active"), Item(6, "decision", 2, "authoritative", "active"),
    Item(5, "decision", 1, "authoritative", "active"), Item(3, "decision", 1, "alternative", "active"),
    Item(1, "architecture", 1, "alternative", "active"), Item(2, "decision", 1, "alternative", "active"),
    Item(7, "decision", 3, "authoritative", "deprecated")>>

OneOfEach ==
  [i \in DOMAIN ContextKinds |-> Item(i + 7, ContextKinds[i], 1, "authoritative", "active")]

SomeHistory == <<[deliveryState |-> "completed", length |-> 1]>>

Said == [deliveryState : {"completed", "streaming"}, length : 1..3]

\* Parts of HEAD in any order, and its whole; one HEAD and every short conversation.
Packs ==
  {[items |-> items, messages |-> SomeHistory, maximum |-> 1, budget |-> 2] :
     items \in {[i \in 1..3 |-> Some[f[i]]] : f \in Injection(1..3, DOMAIN Some)}
              \cup {Some, OneOfEach, Append(OneOfEach, Some[7]), Append(OneOfEach, Some[6])}}
  \cup [items : {<<Some[3]>>}, messages : UNION {[1..n -> Said] : n \in 0..3},
        maximum : 0..3, budget : 0..4]

-----------------------------------------------------------------------------
VARIABLE subject

NoTab ==
  /\ user = None /\ ready = FALSE /\ cookie = None /\ page = None /\ navigation = Nowhere
  /\ fatal = FALSE /\ signingOut = FALSE /\ shown = ShowsNothing /\ requests = {}

NoPack ==
  /\ read = [items |-> <<>>, messages |-> <<>>, maximum |-> 0, budget |-> 0]
  /\ pack = None

Init ==
  /\ ProviderInit /\ ExtractionInit
  /\ \/ subject \in {"provider", "extraction"} /\ NoPack /\ NoTab
     \/ subject = "pack" /\ PackInit /\ NoTab
     \/ subject = "client" /\ NoPack /\ ClientInit

Next ==
  /\ \/ subject = "provider" /\ ProviderNext /\ UNCHANGED <<extractionVars, packVars, clientVars>>
     \/ subject = "extraction" /\ ExtractionNext /\ UNCHANGED <<providerVars, packVars, clientVars>>
     \/ subject = "pack" /\ PackNext /\ UNCHANGED <<providerVars, extractionVars, clientVars>>
     \/ subject = "client" /\ ClientNext /\ UNCHANGED <<providerVars, extractionVars, packVars>>
  /\ UNCHANGED subject

vars == <<subject, providerVars, extractionVars, packVars, clientVars>>

Calls == Init /\ [][Next]_vars /\ ProviderFairness
=============================================================================
