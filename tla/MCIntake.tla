------------------------------ MODULE MCIntake ------------------------------
(* A small instance of Intake, and conversations of three messages for       *)
(* ExportedPath, for TLC: a run is about the one or the others.              *)
EXTENDS Intake, ExportedPath, TLC

CONSTANTS ana, bo, s0, c1, c2, k1, a, b, f1, i1, i2, i3, gone

VARIABLE subject

TwoUsers == {ana, bo}
StagedAndTwo == {s0, c1, c2}
OneKey == {k1}
TwoContents == {a, b}
OneFile == {f1}

First == [content |-> a, previous |-> 0, attachments |-> {}]
Second == [content |-> b, previous |-> 1, attachments |-> {s0}]
Rival == [content |-> a, previous |-> 1, attachments |-> {}]
Aside == [content |-> a, previous |-> 0, attachments |-> {s0}]
Ongoing == <<1, 1>>

\* Bo, an editor, has imported a conversation from a provider, staged a file and
\* previewed the conversation's next part.
IntakeBegins ==
  /\ role = (ana :> "owner" @@ bo :> "editor") /\ archived = FALSE
  /\ conversations = (Home :> "active" @@ Ongoing :> "active")
  /\ messages = (Home :> <<>> @@ Ongoing :> <<[key |-> None, by |-> None, content |-> a]>>)
  /\ attachments = {} /\ objects = {s0}
  /\ uploads = {[id |-> s0, by |-> bo, key |-> k1, content |-> a, fresh |-> TRUE]}
  /\ previews = <<[by |-> bo, submission |-> Second, fresh |-> TRUE]>>
  /\ imports = <<[by |-> bo, identity |-> First, previous |-> 0, conversations |-> {Ongoing}]>>
  /\ projectLock = None /\ rowLock = [x \in {Home, Ongoing} |-> None]
  /\ calls = [c \in Calls |->
       IF c = s0 THEN [NewCall("stage", bo, "done") EXCEPT !.key = k1, !.content = a] ELSE None]

\* What is asked for, besides: c1 before c2, c1 with content a, messages and files for the
\* ongoing conversation.  Bo is demoted, or the project archived.
Asked ==
  /\ role[ana] = "owner" /\ role[bo] \in {"editor", "viewer"} /\ ~(archived /\ role[bo] = "viewer")
  /\ Len(previews) = 2 =>
       /\ previews[2].by = bo /\ previews[2].fresh
       /\ previews[2].submission \in {Rival, Aside}
  /\ calls[c2] # None => calls[c1] # None
  /\ calls[c1] # None => calls[c1].content # b
  /\ \A c \in {c1, c2} :
       calls[c] # None =>
         /\ calls[c].target # Home
         /\ calls[c].kind = "stage" => calls[c].by = bo
         /\ calls[c].kind = "confirm" =>
              calls[c].selection = IF calls[c].by = ana THEN {1} ELSE {1, 2}

-----------------------------------------------------------------------------
FourNames == {i1, i2, i3, gone}
Name == FourNames \cup {None}

Entries(key, message) == [key : {key}, message : message, parent : Name]

Written(id, role_, text) == [id |-> id, role |-> role_, text |-> text]
Said == Written(None, "user", TRUE)

\* An entry without a message, one of nobody that is known, a name that comes twice.
Mappings ==
  Entries(i1, {None, Said}) \X Entries(i2, {Said, Written(None, "unknown", TRUE)})
    \X Entries(i3, {Said, Written(i1, "assistant", TRUE), Written(None, "tool", FALSE)})

TooLong ==
  [i \in 1..4 |-> [key |-> <<i1, i2, i3, gone>>[i], message |-> Said, parent |-> None]]

ExportedFiles == [mapping : Mappings \cup {TooLong}, current : Name]

-----------------------------------------------------------------------------
Init ==
  /\ IntakeBegins
  /\ \/ subject = "intake" /\ export = None /\ parsed = None
     \/ subject = "export" /\ ExportInit

Next ==
  /\ \/ /\ subject = "intake" /\ IntakeNext /\ Asked' /\ (role[bo] = "viewer" => role' = role)
        /\ UNCHANGED exportVars
     \/ subject = "export" /\ ExportNext /\ UNCHANGED intakeVars
  /\ UNCHANGED subject

vars == <<subject, intakeVars, exportVars>>

Spec == Init /\ [][Next]_vars /\ IntakeFairness
=============================================================================
