---------------------------- MODULE ExportedPath ----------------------------
(***************************************************************************)
(* How a conversation of a ChatGPT export is read: its mapping, a graph of *)
(* messages that name their parents, becomes nodes and warnings, and the   *)
(* path that ends in the current message becomes evidence.                 *)
(*                                                                         *)
(* Texts, times and content other than text are left out: a message has    *)
(* text or it has not.                                                     *)
(***************************************************************************)
EXTENDS Null, Selection, SequencesExt

CONSTANTS
  Exports,                        \* what may be in a file
  ExternalIds,                    \* names of messages and of entries
  MaximumMessagesPerConversation

VARIABLES
  export,  \* [mapping |-> entries, current |-> current_node], as in the file
  parsed   \* the ExternalConversation, how it was refused, or None

exportVars == <<export, parsed>>

ExternalRoles == {"user", "assistant", "system", "tool", "unknown"}

ExportedMessage == [id : ExternalIds \cup {None}, role : ExternalRoles, text : BOOLEAN]

\* Names are strings.  An entry need not have a message, and a message no id and no parent.
ExportedEntry ==
  [key : ExternalIds, message : ExportedMessage \cup {None}, parent : ExternalIds \cup {None}]

ASSUME ExportAssumption ==
  /\ None \notin ExternalIds \cup ExportedMessage
  /\ Exports \subseteq [mapping : Seq(ExportedEntry), current : ExternalIds \cup {None}]

-----------------------------------------------------------------------------
(* parseConversation *)

\* A message without an id of its own has that of its entry.
Node(entry) ==
  [id |-> IF entry.message.id = None THEN entry.key ELSE entry.message.id,
   parent |-> entry.parent, role |-> entry.message.role, text |-> entry.message.text]

\* Entries of the graph without a message are left out.
HasMessage(entry) == entry.message # None

Nodes(mapping) ==
  LET rows == Filtered(mapping, {i \in DOMAIN mapping : HasMessage(mapping[i])})
  IN [i \in DOMAIN rows |-> Node(rows[i])]

\* An entry that is looked at when there are enough messages is too much.
TooMany(mapping) ==
  \E i \in DOMAIN mapping :
    Cardinality({j \in 1..(i - 1) : HasMessage(mapping[j])}) >= MaximumMessagesPerConversation

Ids(nodes) == {nodes[i].id : i \in DOMAIN nodes}

Duplicates(nodes) ==
  {nodes[j].id : j \in {j \in DOMAIN nodes : \E i \in 1..(j - 1) : nodes[i].id = nodes[j].id}}

MissingParents(nodes) == {nodes[i].parent : i \in DOMAIN nodes} \ (Ids(nodes) \cup {None})

Branches(nodes) ==
  {p \in {nodes[i].parent : i \in DOMAIN nodes} \ {None} :
     Cardinality({i \in DOMAIN nodes : nodes[i].parent = p}) > 1}

ParseConversation ==
  /\ parsed = None
  /\ parsed' =
       IF TooMany(export.mapping) THEN [refused |-> "LIMIT_EXCEEDED"]
       ELSE LET nodes == Nodes(export.mapping) IN
         [nodes |-> nodes, current |-> export.current,
          warnings |-> [duplicate |-> Duplicates(nodes), missing |-> MissingParents(nodes),
                        branchPoints |-> Cardinality(Branches(nodes))],
          evidence |-> None]
  /\ UNCHANGED export

-----------------------------------------------------------------------------
(* selectCurrentPath *)

\* The last of those with this id.
ById(nodes, id) == nodes[SelectLastInSeq(nodes, LAMBDA n : n.id = id)]

\* Without a current message: the first that nobody has for a parent.
Leaf(nodes) ==
  LET i == SelectInSeq(nodes, LAMBDA n : \A j \in DOMAIN nodes : nodes[j].parent # n.id)
  IN IF i = 0 THEN None ELSE nodes[i].id

Start(conversation) ==
  IF conversation.current = None THEN Leaf(conversation.nodes) ELSE conversation.current

\* Mutant: the next message, not the parent.
NextMessage(nodes, id) ==
  LET i == SelectLastInSeq(nodes, LAMBDA n : n.id = id)
  IN IF i \in {0, 1} THEN None ELSE nodes[i - 1].id

Parent(nodes, id) == IF id \in Ids(nodes) THEN ById(nodes, id).parent ELSE None

\* The ids that are followed.  One more than there are, and one was seen before.
Walk(conversation) ==
  LET walk[n \in Nat] ==
        IF n = 0 THEN Start(conversation) ELSE Parent(conversation.nodes, walk[n - 1])
  IN [n \in 0..Cardinality(Ids(conversation.nodes)) |-> walk[n]]

Cyclic(conversation) ==
  \A n \in DOMAIN Walk(conversation) : Walk(conversation)[n] \in Ids(conversation.nodes)

CurrentPath(conversation) ==
  LET walk == Walk(conversation)
      steps == {n \in DOMAIN walk : walk[n] \in Ids(conversation.nodes)}
  IN Reverse([i \in 1..Cardinality(steps) |-> ById(conversation.nodes, walk[i - 1])])

\* A node whose role is not known, or that has no text, is in the manifest only.
Evidence(path) ==
  Filtered(path, {i \in DOMAIN path : path[i].role # "unknown" /\ path[i].text})

SelectCurrentPath ==
  /\ parsed # None /\ "evidence" \in DOMAIN parsed /\ parsed.evidence = None
  /\ parsed' =
       IF Cyclic(parsed) THEN [refused |-> "MALFORMED"]
       ELSE [parsed EXCEPT !.evidence = Evidence(CurrentPath(parsed))]
  /\ UNCHANGED export

ExportInit == export \in Exports /\ parsed = None

ExportNext == ParseConversation \/ SelectCurrentPath

ExportSpec == ExportInit /\ [][ExportNext]_exportVars

-----------------------------------------------------------------------------
(* Properties *)

\* The entry that counts for a name: the last message of that name.
Named(id) ==
  {i \in DOMAIN export.mapping :
     LET entry == export.mapping[i] IN
       entry.message # None /\ id = (IF entry.message.id = None THEN entry.key ELSE entry.message.id)}

Names == {id \in UNION {{export.mapping[i].key} \cup
            (IF export.mapping[i].message = None THEN {} ELSE {export.mapping[i].message.id}) :
              i \in DOMAIN export.mapping} : Named(id) # {}}

Counts(id) == export.mapping[CHOOSE i \in Named(id) : \A j \in Named(id) : j <= i]

\* In every set that holds the parent of this one and the parents of what it holds.
Ancestors(id) ==
  LET Parents(S) == {Counts(a).parent : a \in S} \cap Names
  IN {a \in Names : \A S \in SUBSET Names : Parents(S \cup {id}) \subseteq S => a \in S}

Lineage(id) == {id} \cup Ancestors(id)

Looping(id) == \E a \in Lineage(id) : a \in Ancestors(a)

\* Evidence is the lineage of the current message, or of one nobody answered, oldest
\* first: no other branch enters it, no message is there twice or before its parent, what
\* is missing from it has no text, no known role, or was warned about; a lineage that
\* comes back to itself is refused, and nothing else is ("Source graph contains branch
\* points; only the current path will become CCE evidence").
EvidenceIsTheCurrentPath ==
  LET refused == parsed # None /\ "refused" \in DOMAIN parsed
      read == parsed # None /\ ~refused /\ parsed.evidence # None
      answered == {export.mapping[i].parent :
                     i \in {i \in DOMAIN export.mapping : export.mapping[i].message # None}}
      leaves == Names \ answered
  IN /\ refused /\ parsed.refused = "MALFORMED" =>
          IF export.current = None THEN \E id \in Names : Looping(id)
          ELSE export.current \in Names /\ Looping(export.current)
     /\ read =>
          \E id \in (IF export.current # None THEN {export.current}
                     ELSE IF leaves = {} THEN {None} ELSE leaves) :
            LET told(a) == Counts(a).message.role # "unknown" /\ Counts(a).message.text
                ids == [i \in DOMAIN parsed.evidence |-> parsed.evidence[i].id]
                lineage == IF id \in Names THEN Lineage(id) ELSE {}
            IN /\ lineage # {} => ~Looping(id)
               /\ {ids[i] : i \in DOMAIN ids} = {a \in lineage : told(a)}
               /\ \A i, j \in DOMAIN ids : i < j => ids[i] \in Ancestors(ids[j])
               /\ \A a \in lineage :
                    Counts(a).parent \notin Names \cup {None} =>
                      Counts(a).parent \in parsed.warnings.missing
=============================================================================
