----------------------------- MODULE ContextPack -----------------------------
(***************************************************************************)
(* What a model is told of a project: the items of HEAD, sorted into the   *)
(* sections of a pack, and the newest messages of a conversation, as far   *)
(* as they fit.  A specialist may be told less.                            *)
(*                                                                         *)
(* Whoever asks for a pack is a member; it is built from what one          *)
(* transaction has read, and nothing is stored.                            *)
(***************************************************************************)
EXTENDS Null, Selection, FiniteSets, Functions

CONSTANTS
  PackInputs,          \* what packs are built from
  MaximumActiveItems,  \* the most items that are told
  MaximumCharacters    \* and how long they may be, serialized

VARIABLES
  read,  \* the snapshot of HEAD, the messages, and the limits that were asked for
  pack   \* None before it is built, and when it is refused

packVars == <<read, pack>>

-----------------------------------------------------------------------------
\* In the order of their names.
ContextKinds ==
  <<"architecture", "artifact", "assumption", "constraint", "decision", "fact", "preference",
    "question", "rejected_option", "requirement", "risk", "task">>

\* Ids are unique, and a message that is completed has content.
PackItem ==
  [id : Nat, kind : Range(ContextKinds), key : Nat, authority : {"authoritative", "alternative"},
   lifecycle : {"active", "deprecated", "superseded"}, length : Nat]

PackMessage ==
  {m \in [deliveryState : {"pending", "streaming", "completed", "interrupted", "failed"}, length : Nat] :
     m.deliveryState = "completed" => m.length > 0}

Distinct(items) == \A i, j \in DOMAIN items : i # j => items[i].id # items[j].id

Rank(kind) == CHOOSE i \in DOMAIN ContextKinds : ContextKinds[i] = kind

Sections ==
  [decisions |-> "decision", requirements |-> "requirement", constraints |-> "constraint",
   facts |-> "fact", assumptions |-> "assumption", tasks |-> "task",
   openQuestions |-> "question", risks |-> "risk", artifacts |-> "artifact",
   preferences |-> "preference", rejectedOptions |-> "rejected_option",
   architecture |-> "architecture"]

\* The sections a route leaves empty.
Withheld ==
  [coding |-> {"facts", "assumptions", "openQuestions", "risks", "preferences",
               "rejectedOptions"},
   research |-> {"tasks", "architecture"},
   conflict |-> {"recentMessages"},
   review |-> {"recentMessages"},
   extraction |-> {"alternatives"},
   chat |-> {},
   manager |-> {}]

ASSUME PackAssumption ==
  /\ None \notin DOMAIN Withheld
  /\ PackInputs \subseteq
       [items : Seq(PackItem), messages : Seq(PackMessage), maximum : Nat, budget : Nat]
  /\ \A input \in PackInputs : Distinct(input.items)

\* compareItems; key stands for key, scope and value.
Precedes(x, y) ==
  IF x.kind # y.kind THEN Rank(x.kind) < Rank(y.kind)
  ELSE IF x.key # y.key THEN x.key < y.key
  ELSE x.id < y.id

Active(items) == Filtered(items, {i \in DOMAIN items : items[i].lifecycle = "active"})

Authority(items, authority) == Filtered(items, {i \in DOMAIN items : items[i].authority = authority})

\* Array.prototype.sort, by compareItems.
Sorted(items) ==
  LET place == CHOOSE p \in Bijection(DOMAIN items, DOMAIN items) :
                 \A i, j \in DOMAIN items : i < j => ~Precedes(items[p[j]], items[p[i]])
  IN [i \in DOMAIN items |-> items[place[i]]]

SelectKind(items, kind) == Sorted(Filtered(items, {i \in DOMAIN items : items[i].kind = kind}))

Total(items) ==
  LET sum[i \in 0..Len(items)] == IF i = 0 THEN 0 ELSE sum[i - 1] + items[i].length
  IN sum[Len(items)]

-----------------------------------------------------------------------------
(* selectRecentMessages *)

Candidates(messages) ==
  Filtered(messages, {i \in DOMAIN messages : messages[i].deliveryState = "completed"})

\* Mutant: one that does not fit is passed over.
TakeWhatFits(taken, m, maximum) ==
  IF Len(taken.messages) < maximum /\ m.length <= taken.left
  THEN [taken EXCEPT !.messages = <<m>> \o @, !.left = @ - m.length]
  ELSE taken

\* The first that does not fit is the last that is looked at.  If it is the newest, it
\* is cut.
Take(taken, m, maximum) ==
  IF ~taken.more \/ Len(taken.messages) >= maximum \/ taken.left <= 0
  THEN [taken EXCEPT !.more = FALSE]
  ELSE IF m.length > taken.left
       THEN [taken EXCEPT !.more = FALSE,
                          !.messages = IF @ = <<>> THEN <<[m EXCEPT !.length = taken.left]>>
                                       ELSE @]
  ELSE [taken EXCEPT !.messages = <<m>> \o @, !.left = @ - m.length]

\* The newest first; what is taken is in the order of the conversation.
SelectRecentMessages(messages, maximum, budget) ==
  LET candidates == Candidates(messages)
      taken[k \in 0..Len(candidates)] ==
        IF k = 0 THEN [messages |-> <<>>, left |-> budget, more |-> TRUE]
        ELSE Take(taken[k - 1], candidates[Len(candidates) - k + 1], maximum)
  IN taken[Len(candidates)].messages

-----------------------------------------------------------------------------
Acceptable(items) == Len(items) <= MaximumActiveItems /\ Total(items) <= MaximumCharacters

Built(input) ==
  LET authoritative == Authority(Active(input.items), "authoritative")
  IN [route |-> None,
      sections |-> [s \in DOMAIN Sections |-> SelectKind(authoritative, Sections[s])],
      alternatives |-> Sorted(Authority(Active(input.items), "alternative")),
      recentMessages |->
        SelectRecentMessages(input.messages, input.maximum, input.budget)]

BuildContextPack ==
  /\ pack = None
  /\ Acceptable(Active(read.items))
  /\ pack' = Built(read)
  /\ UNCHANGED read

RouteContext(route) ==
  /\ pack # None /\ pack.route = None
  /\ pack' =
       [route |-> route,
        sections |-> [s \in DOMAIN Sections |->
                        IF s \in Withheld[route] THEN <<>> ELSE pack.sections[s]],
        alternatives |-> IF "alternatives" \in Withheld[route] THEN <<>> ELSE pack.alternatives,
        recentMessages |->
          IF "recentMessages" \in Withheld[route] THEN <<>> ELSE pack.recentMessages]
  /\ UNCHANGED read

PackInit == read \in PackInputs /\ pack = None

PackNext == BuildContextPack \/ \E route \in DOMAIN Withheld : RouteContext(route)

PackSpec == PackInit /\ [][PackNext]_packVars

-----------------------------------------------------------------------------
(* Properties *)

Hidden == IF pack.route = None THEN {} ELSE Withheld[pack.route]

Elements(s) == {s[i] : i \in DOMAIN s}

\* s lists S, each once, in the one order there is.
Lists(s, S) ==
  /\ Elements(s) = S /\ Len(s) = Cardinality(S)
  /\ \A i, j \in DOMAIN s : i < j => Precedes(s[i], s[j])

Newest(messages, n) == SubSeq(messages, Len(messages) - n + 1, Len(messages))

TellsItems(active) ==
  /\ \A x \in active : x.authority = "authoritative" =>
       Cardinality({s \in DOMAIN Sections : Sections[s] = x.kind}) = 1
  /\ \A s \in DOMAIN Sections :
       IF s \in Hidden THEN pack.sections[s] = <<>>
       ELSE Lists(pack.sections[s],
                  {x \in active : x.authority = "authoritative" /\ x.kind = Sections[s]})
  /\ "alternatives" \notin Hidden =>
       Lists(pack.alternatives, {x \in active : x.authority = "alternative"})

TellsMessages(completed) ==
  LET fits(n) == n <= read.maximum /\ Total(Newest(completed, n)) <= read.budget
      most == CHOOSE n \in 0..Len(completed) :
                fits(n) /\ \A k \in 0..Len(completed) : fits(k) => k <= n
  IN pack.recentMessages =
       IF most = 0 /\ completed # <<>> /\ read.maximum > 0 /\ read.budget > 0
       THEN <<[Newest(completed, 1)[1] EXCEPT !.length = read.budget]>>
       ELSE Newest(completed, most)

\* What is in force in HEAD is told once, in its section and in one order, whatever order
\* it was read in, and no alternative is told as being in force.  Of the conversation the
\* model hears as many of the newest messages as fit, without a gap, none that is still
\* being written, and the newest even if only its beginning fits.  A route tells a part of
\* that or nothing (buildContextPack, routeContext).
PackTellsHead ==
  pack # None =>
    /\ TellsItems({x \in Elements(read.items) : x.lifecycle = "active"})
    /\ "recentMessages" \notin Hidden =>
         TellsMessages(Filtered(read.messages, {i \in DOMAIN read.messages :
                                                  read.messages[i].deliveryState = "completed"}))
=============================================================================
