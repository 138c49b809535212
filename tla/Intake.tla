------------------------------- MODULE Intake -------------------------------
(***************************************************************************)
(* What enters a project as evidence: messages, uploaded files, and        *)
(* conversations imported from a provider or from an export file.  Calls   *)
(* of ConversationService, AttachmentService and ConversationImportService *)
(* are transactions of PostgresUnitOfWork, which wait for each other's row *)
(* locks: on the project, FOR UPDATE, and on a conversation.  The file of  *)
(* an upload is stored before the transaction that refers to it.           *)
(*                                                                         *)
(* Writes are made when the transaction commits.  A submission has one     *)
(* message; its hash is taken over all of it, so stands for it.            *)
(***************************************************************************)
EXTENDS Membership, Sequences, Integers, FiniteSets

CONSTANTS
  Calls,        \* bound on the calls ever made
  Keys,         \* clientMessageId and uploadId, chosen by clients
  Contents,     \* texts, or bytes with their name and type
  Files,        \* export files; each holds the conversations 1 and 2
  MaxPreviews,  \* bound on the previews ever made
  MaxImports    \* bound on the previous imports a submission may name

VARIABLES
  conversations,  \* status of each conversation
  messages,       \* rows of messages of each conversation, by sequence
  attachments,    \* rows of attachments
  objects,        \* files in the attachment storage, by the call that stored them
  uploads,        \* rows of import_attachment_uploads
  previews,       \* rows of conversation_import_previews, by order
  imports,        \* rows of conversation_imports
  projectLock,    \* the call that has locked the project row
  rowLock,        \* the call that has locked each conversation row
  calls           \* what each call is doing

intakeMembers == <<role, archived>>
intakeTables ==
  <<conversations, messages, attachments, objects, uploads, previews, imports>>
intakeLocks == <<projectLock, rowLock>>
intakeVars == <<intakeMembers, intakeTables, intakeLocks, calls>>

-----------------------------------------------------------------------------
(* Rows *)

\* The first conversation, and those that import n creates.
Home == <<0, 1>>
ConversationIds == {Home} \cup (Nat \X {1, 2})

\* key and by are None for an imported message.
Message == [key : Keys \cup {None}, by : Users \cup {None}, content : Contents \cup Files]

\* id is that of the object: the call that stored it.
Attachment == [id : Calls, by : Users, conversation : ConversationIds, sequence : Nat \ {0}]

Upload == [id : Calls, by : Users, key : Keys, content : Contents, fresh : BOOLEAN]

\* previous is 0 when the submission continues no import.
Submission == [content : Contents, previous : Nat, attachments : SUBSET Calls]

\* One that has expired cannot be submitted, deleted or not.
Preview == [by : Users, submission : Submission, fresh : BOOLEAN]

\* Policy current_path has a file for identity, provided_messages a submission.
Import ==
  [by : Users, identity : Files \cup Submission, previous : Nat,
   conversations : SUBSET ConversationIds]

Kinds == {"say", "archive", "upload", "stage", "submit", "confirm"}

Stages ==
  {"storing",       \* the bytes are on their way to the storage
   "project",       \* waits for the project row
   "conversation",  \* waits for the conversation row
   "commit",        \* has what it needs to write
   "done",
   "failed"}

\* target is the conversation; source a submission, or a file and a selection.
Call ==
  [kind : Kinds, by : Users, at : Stages, target : ConversationIds \cup {None},
   key : Keys \cup {None}, content : Contents \cup {None},
   identity : Files \cup Submission \cup {None}, selection : SUBSET {1, 2}, preview : Nat]

ASSUME IntakeAssumption ==
  /\ MaxPreviews \in Nat /\ MaxImports \in Nat
  /\ Keys # {} /\ Contents # {}
  /\ None \notin Calls \cup Keys \cup Contents \cup Files \cup Call \cup ConversationIds
                 \cup Submission

NewCall(kind, u, at) ==
  [kind |-> kind, by |-> u, at |-> at, target |-> None, key |-> None, content |-> None,
   identity |-> None, selection |-> {}, preview |-> 0]

At(c, stage) == calls[c] # None /\ calls[c].at = stage
Ended(c) == calls[c] # None /\ calls[c].at \in {"done", "failed"}

Begin(c, call) == calls[c] = None /\ calls' = [calls EXCEPT ![c] = call]
GoTo(c, stage) == calls' = [calls EXCEPT ![c].at = stage]

Active(conversation) ==
  conversation \in DOMAIN conversations /\ conversations[conversation] = "active"

-----------------------------------------------------------------------------
(* Locks *)

LockProject(c) == projectLock = None /\ projectLock' = c
LockConversation(c, conversation) ==
  rowLock[conversation] = None /\ rowLock' = [rowLock EXCEPT ![conversation] = c]

Released(locks, c) == [x \in DOMAIN locks |-> IF locks[x] = c THEN None ELSE locks[x]]

\* Mutant: a failed transaction is not rolled back.
KeepLocks(c) == UNCHANGED intakeLocks

\* ROLLBACK and release: PostgresUnitOfWork does both whatever was thrown.
Rollback(c) ==
  /\ projectLock' = IF projectLock = c THEN None ELSE projectLock
  /\ rowLock' = Released(rowLock, c)

Fail(c) == GoTo(c, "failed") /\ Rollback(c) /\ UNCHANGED <<intakeMembers, intakeTables>>

\* Answers without having written anything.
Answer(c) == GoTo(c, "done") /\ Rollback(c) /\ UNCHANGED <<intakeMembers, intakeTables>>

\* The row of a conversation that was inserted belongs to nobody after COMMIT.
Unlocked(c, all) ==
  /\ projectLock' = IF projectLock = c THEN None ELSE projectLock
  /\ rowLock' = [x \in all |-> IF x \in DOMAIN rowLock /\ rowLock[x] # c THEN rowLock[x] ELSE None]

\* Inserting a row that references the project takes a share of its lock, which is
\* refused while somebody holds it FOR UPDATE.
ShareProject(c) == projectLock \in {None, c}

\* Whom a call waits for.
WaitsFor(c) ==
  IF At(c, "project") \/ At(c, "commit") THEN {projectLock} \ {None, c}
  ELSE IF At(c, "conversation") THEN {rowLock[calls[c].target]} \ {None, c}
  ELSE {}

Circles == {S \in SUBSET Calls : S # {} /\ \A c \in S : WaitsFor(c) \cap S # {}}

\* PostgreSQL makes one of them fail (40P01).
DeadlockDetected(c) ==
  /\ \E S \in Circles : c \in S /\ \A T \in Circles : ~(T \subseteq S /\ T # S)
  /\ Fail(c)

-----------------------------------------------------------------------------
(* ConversationService.appendUserMessage, and update with archive *)

AppendUserMessage(c, u, conversation, k, content) ==
  /\ Authorized(u, "conversation:write") /\ RequireActiveProject
  /\ conversation \in DOMAIN conversations
  /\ Begin(c, [NewCall("say", u, "conversation") EXCEPT !.target = conversation, !.key = k,
                                                       !.content = content])
  /\ UNCHANGED <<intakeMembers, intakeTables, intakeLocks>>

ArchiveConversation(c, u, conversation) ==
  /\ Authorized(u, "conversation:write") /\ RequireActiveProject
  /\ conversation \in DOMAIN conversations
  /\ Begin(c, [NewCall("archive", u, "conversation") EXCEPT !.target = conversation])
  /\ UNCHANGED <<intakeMembers, intakeTables, intakeLocks>>

FindMessageByClientId(conversation, k) ==
  {i \in DOMAIN messages[conversation] : messages[conversation][i].key = k}

ListForMessage(conversation, i) ==
  {a \in attachments : a.conversation = conversation /\ a.sequence = i}

\* A retry of the same message is answered with it.
SameMessage(call, i) ==
  messages[call.target][i] = [key |-> call.key, by |-> call.by, content |-> call.content]

\* A message of a member names what it attached as its content.
SameUpload(call, i) ==
  SameMessage(call, i) /\ Cardinality(ListForMessage(call.target, i)) = 1

LockTarget(c) ==
  /\ At(c, "conversation") /\ calls[c].kind \in {"say", "upload", "submit"}
  /\ rowLock[calls[c].target] = None
  /\ LET call == calls[c]
         found == IF call.kind = "submit" THEN {} ELSE FindMessageByClientId(call.target, call.key)
     IN IF ~Active(call.target) THEN Fail(c)
        ELSE IF found = {}
             THEN /\ LockConversation(c, call.target) /\ GoTo(c, "commit")
                  /\ UNCHANGED <<intakeMembers, intakeTables, projectLock>>
        ELSE IF \E i \in found : IF call.kind = "say" THEN SameMessage(call, i)
                                 ELSE SameUpload(call, i)
             THEN Answer(c)
        ELSE Fail(c)

LockToArchive(c) ==
  /\ At(c, "conversation") /\ calls[c].kind = "archive"
  /\ rowLock[calls[c].target] = None
  /\ IF Active(calls[c].target)
     THEN /\ LockConversation(c, calls[c].target) /\ GoTo(c, "commit")
          /\ UNCHANGED <<intakeMembers, intakeTables, projectLock>>
     ELSE Answer(c)

InsertMessage(conversation, message) ==
  messages' = [messages EXCEPT ![conversation] = Append(@, message)]

NextMessageSequence(conversation) == Len(messages[conversation]) + 1

\* The audit event is what references the project.
CommitMessage(c) ==
  /\ At(c, "commit") /\ calls[c].kind = "say" /\ ShareProject(c)
  /\ InsertMessage(calls[c].target,
                   [key |-> calls[c].key, by |-> calls[c].by, content |-> calls[c].content])
  /\ GoTo(c, "done") /\ Rollback(c)
  /\ UNCHANGED <<intakeMembers, conversations, attachments, objects, uploads, previews, imports>>

CommitArchive(c) ==
  /\ At(c, "commit") /\ calls[c].kind = "archive" /\ ShareProject(c)
  /\ conversations' = [conversations EXCEPT ![calls[c].target] = "archived"]
  /\ GoTo(c, "done") /\ Rollback(c)
  /\ UNCHANGED <<intakeMembers, messages, attachments, objects, uploads, previews, imports>>

-----------------------------------------------------------------------------
(* AttachmentService.upload and uploadForImport *)

AuthorizeUpload(call) ==
  /\ Authorized(call.by, "conversation:write") /\ RequireActiveProject
  /\ Active(call.target)

AuthorizeImport(u) == Authorized(u, "conversation:import") /\ RequireActiveProject

BeginUpload(c, u, conversation, k, content) ==
  LET call == [NewCall("upload", u, "storing") EXCEPT !.target = conversation, !.key = k,
                                                      !.content = content]
  IN /\ AuthorizeUpload(call)
     /\ Begin(c, call)
     /\ UNCHANGED <<intakeMembers, intakeTables, intakeLocks>>

BeginStage(c, u, k, content) ==
  /\ AuthorizeImport(u)
  /\ Begin(c, [NewCall("stage", u, "storing") EXCEPT !.key = k, !.content = content])
  /\ UNCHANGED <<intakeMembers, intakeTables, intakeLocks>>

StoreBytes(c) ==
  /\ At(c, "storing")
  /\ objects' = objects \cup {c}
  /\ GoTo(c, "project")
  /\ UNCHANGED <<intakeMembers, intakeLocks, conversations, messages, attachments, uploads,
                 previews, imports>>

\* Too large, empty, of another type, or not written; what was written is unlinked.
StoreBytesFails(c) == At(c, "storing") /\ Fail(c)

\* Mutant: what was allowed before the bytes arrived still is.
AuthorizedBefore(call) == TRUE

AuthorizedStill(call) == AuthorizeUpload(call)

LockProjectToUpload(c) ==
  /\ At(c, "project") /\ calls[c].kind = "upload" /\ projectLock = None
  /\ IF AuthorizedStill(calls[c])
     THEN /\ LockProject(c) /\ GoTo(c, "conversation")
          /\ UNCHANGED <<intakeMembers, intakeTables, rowLock>>
     ELSE Fail(c)

\* Mutant: the file is referred to as what the client calls it.
ObjectByKey(c) == CHOOSE d \in Calls : calls[d] # None /\ calls[d].key = calls[c].key

Object(c) == c

\* upload: message, attachment, event and audit event.
CommitUpload(c) ==
  /\ At(c, "commit") /\ calls[c].kind = "upload"
  /\ LET call == calls[c] IN
       /\ attachments' = attachments \cup
            {[id |-> Object(c), by |-> call.by, conversation |-> call.target,
              sequence |-> NextMessageSequence(call.target)]}
       /\ InsertMessage(call.target, [key |-> call.key, by |-> call.by, content |-> call.content])
  /\ GoTo(c, "done") /\ Rollback(c)
  /\ UNCHANGED <<intakeMembers, conversations, objects, uploads, previews, imports>>

FindImportUploadByRequest(u, k) == {s \in uploads : s.by = u /\ s.key = k}

\* uploadForImport holds nothing but the project row, and commits at once.
CommitStage(c) ==
  /\ At(c, "project") /\ calls[c].kind = "stage" /\ projectLock = None
  /\ LET call == calls[c]
         previous == FindImportUploadByRequest(call.by, call.key)
     IN IF ~AuthorizeImport(call.by) THEN Fail(c)
        ELSE IF previous # {}
             THEN IF \A s \in previous : s.content = call.content THEN Answer(c) ELSE Fail(c)
        ELSE /\ uploads' = uploads \cup {[id |-> c, by |-> call.by, key |-> call.key,
                                          content |-> call.content, fresh |-> TRUE]}
             /\ GoTo(c, "done")
             /\ UNCHANGED <<intakeMembers, intakeLocks, conversations, messages, attachments,
                            objects, previews, imports>>

-----------------------------------------------------------------------------
(* ConversationImportService *)

FindCompletedByIdentity(identity) == {n \in DOMAIN imports : imports[n].identity = identity}

\* Mutant: an import may be continued again.
AnyContinuation(n) == {}

FindContinuation(n) == {m \in DOMAIN imports : imports[m].previous = n}

\* The conversation of an import under provided_messages.
Continued(n) == CHOOSE conversation \in imports[n].conversations : TRUE

\* Only its importer continues an import, in its conversation while that is active, and
\* only its last part; duplicates are the imports that do not count.
ResolveContinuation(u, submission, duplicates) ==
  submission.previous # 0 =>
    /\ submission.previous \in DOMAIN imports
    /\ imports[submission.previous].by = u
    /\ imports[submission.previous].identity \notin Files
    /\ Active(Continued(submission.previous))
    /\ FindContinuation(submission.previous) \subseteq duplicates

\* validateAttachments: staged by this user, and not expired.
Bindable(u, ids) == \A id \in ids : \E s \in uploads : s.id = id /\ s.by = u /\ s.fresh

\* Reads before it waits for the project row; nobody can tell that from inserting at once.
PreviewProviderSubmission(u, submission) ==
  /\ Len(previews) < MaxPreviews /\ submission.previous <= MaxImports
  /\ AuthorizeImport(u)
  /\ ResolveContinuation(u, submission, FindCompletedByIdentity(submission))
  /\ Bindable(u, submission.attachments)
  /\ previews' = Append(previews, [by |-> u, submission |-> submission, fresh |-> TRUE])
  /\ UNCHANGED <<intakeMembers, intakeLocks, conversations, messages, attachments, objects,
                 uploads, imports, calls>>

SubmitProviderPreview(c, u, p) ==
  /\ p \in DOMAIN previews /\ previews[p].by = u
  /\ AuthorizeImport(u)
  /\ Begin(c, [NewCall("submit", u, "project") EXCEPT !.identity = previews[p].submission,
                                                     !.selection = {1}, !.preview = p])
  /\ UNCHANGED <<intakeMembers, intakeTables, intakeLocks>>

Confirm(c, u, file, selection) ==
  /\ AuthorizeImport(u) /\ selection # {}
  /\ Begin(c, [NewCall("confirm", u, "project") EXCEPT !.identity = file,
                                                      !.selection = selection])
  /\ UNCHANGED <<intakeMembers, intakeTables, intakeLocks>>

IsImport(c) == calls[c] # None /\ calls[c].kind \in {"submit", "confirm"}

Previous(call) == IF call.kind = "submit" THEN call.identity.previous ELSE 0

Binds(call) == IF call.kind = "submit" THEN call.identity.attachments ELSE {}

Expired(call) == call.kind = "submit" /\ ~previews[call.preview].fresh

\* persist, as far as it reads.  Authority and archive were asked before waiting.
LockProjectToImport(c) ==
  /\ At(c, "project") /\ IsImport(c) /\ projectLock = None
  /\ LET call == calls[c] IN
       IF Expired(call) THEN Fail(c)
       ELSE IF FindCompletedByIdentity(call.identity) # {} THEN Answer(c)
       ELSE IF /\ Bindable(call.by, Binds(call))
               /\ call.kind = "submit" => ResolveContinuation(call.by, call.identity, {})
            THEN /\ LockProject(c)
                 /\ calls' =
                      IF Previous(call) = 0 THEN [calls EXCEPT ![c].at = "commit"]
                      ELSE [calls EXCEPT ![c].at = "conversation",
                                         ![c].target = Continued(Previous(call))]
                 /\ UNCHANGED <<intakeMembers, intakeTables, rowLock>>
       ELSE Fail(c)

Bound(id) == \E a \in attachments : a.id = id

StillBindable(call) ==
  /\ Bindable(call.by, Binds(call))
  /\ \A id \in Binds(call) : ~Bound(id)

\* The conversations an import writes its messages to: one it continues, or new ones.
Destinations(call) ==
  IF call.target # None THEN {call.target}
  ELSE {<<Len(imports) + 1, i>> : i \in call.selection}

Imported(call) ==
  [key |-> None, by |-> None,
   content |-> IF call.kind = "submit" THEN call.identity.content ELSE call.identity]

\* persistConversation, the import and its audit event.
CommitImport(c) ==
  /\ At(c, "commit") /\ IsImport(c)
  /\ LET call == calls[c]
         into == Destinations(call)
         all == DOMAIN conversations \cup into
         before(x) == IF x \in DOMAIN messages THEN messages[x] ELSE <<>>
     IN IF ~StillBindable(call) THEN Fail(c)
        ELSE /\ conversations' =
                  [x \in all |-> IF x \in DOMAIN conversations THEN conversations[x]
                                 ELSE "active"]
             /\ messages' =
                  [x \in all |-> IF x \in into THEN Append(before(x), Imported(call))
                                 ELSE messages[x]]
             /\ attachments' = attachments \cup
                  {[id |-> id, by |-> call.by, conversation |-> x,
                    sequence |-> Len(before(x)) + 1] : id \in Binds(call), x \in into}
             /\ imports' = Append(imports, [by |-> call.by, identity |-> call.identity,
                                            previous |-> Previous(call), conversations |-> into])
             /\ GoTo(c, "done") /\ Unlocked(c, all)
             /\ UNCHANGED <<intakeMembers, objects, uploads, previews>>

-----------------------------------------------------------------------------
(* Time *)

ExpireUpload(s) ==
  /\ s.fresh
  /\ uploads' = (uploads \ {s}) \cup {[s EXCEPT !.fresh = FALSE]}
  /\ UNCHANGED <<intakeMembers, intakeLocks, conversations, messages, attachments, objects,
                 previews, imports, calls>>

ExpirePreview(p) ==
  /\ previews[p].fresh
  /\ previews' = [previews EXCEPT ![p].fresh = FALSE]
  /\ UNCHANGED <<intakeMembers, intakeLocks, conversations, messages, attachments, objects,
                 uploads, imports, calls>>

\* ProjectService locks the project row too.
MembersChange ==
  /\ projectLock = None /\ MembershipNext
  /\ UNCHANGED <<intakeTables, intakeLocks, calls>>

-----------------------------------------------------------------------------
IntakeInit ==
  /\ MembershipInit
  /\ conversations = [x \in {Home} |-> "active"]
  /\ messages = [x \in {Home} |-> <<>>]
  /\ attachments = {} /\ objects = {} /\ uploads = {}
  /\ previews = <<>> /\ imports = <<>>
  /\ projectLock = None /\ rowLock = [x \in {Home} |-> None]
  /\ calls = [c \in Calls |-> None]

Request(c, u) ==
  \/ \E conversation \in DOMAIN conversations, k \in Keys, content \in Contents :
       \/ AppendUserMessage(c, u, conversation, k, content)
       \/ BeginUpload(c, u, conversation, k, content)
  \/ \E conversation \in DOMAIN conversations : ArchiveConversation(c, u, conversation)
  \/ \E k \in Keys, content \in Contents : BeginStage(c, u, k, content)
  \/ \E p \in DOMAIN previews : SubmitProviderPreview(c, u, p)
  \/ \E file \in Files, selection \in SUBSET {1, 2} : Confirm(c, u, file, selection)

Proceed(c) ==
  \/ LockTarget(c) \/ LockToArchive(c) \/ CommitMessage(c) \/ CommitArchive(c)
  \/ StoreBytes(c) \/ StoreBytesFails(c) \/ LockProjectToUpload(c)
  \/ CommitUpload(c) \/ CommitStage(c) \/ LockProjectToImport(c) \/ CommitImport(c)

Previewing ==
  \E u \in Users, content \in Contents, previous \in 0..MaxImports, ids \in SUBSET Calls :
    PreviewProviderSubmission(u, [content |-> content, previous |-> previous,
                                  attachments |-> ids])

Expiring ==
  \/ \E s \in uploads : ExpireUpload(s)
  \/ \E p \in DOMAIN previews : ExpirePreview(p)

BreakDeadlock == \E c \in Calls : DeadlockDetected(c)

IntakeNext ==
  \/ \E c \in Calls, u \in Users : Request(c, u)
  \/ \E c \in Calls : Proceed(c)
  \/ BreakDeadlock
  \/ Previewing
  \/ Expiring
  \/ MembersChange

\* Statements end, and PostgreSQL looks for deadlocks.
IntakeFairness ==
  /\ \A c \in Calls : WF_intakeVars(Proceed(c))
  /\ WF_intakeVars(BreakDeadlock)

IntakeSpec == IntakeInit /\ [][IntakeNext]_intakeVars /\ IntakeFairness

-----------------------------------------------------------------------------
(* Properties *)

Staged(id) == \E s \in uploads : s.id = id

Holders == {projectLock} \cup {rowLock[x] : x \in DOMAIN rowLock}

\* The tables have their columns, and a row lock is held by a call that is still going
\* to write (PostgresUnitOfWork releases its connection whatever happened).
IntakeTypeOK ==
  /\ DOMAIN messages = DOMAIN conversations /\ DOMAIN rowLock = DOMAIN conversations
  /\ DOMAIN conversations =
       {Home} \cup UNION {imports[n].conversations : n \in DOMAIN imports}
  /\ \A x \in DOMAIN conversations :
       /\ conversations[x] \in {"active", "archived"}
       /\ \A i \in DOMAIN messages[x] : messages[x][i] \in Message
  /\ attachments \subseteq Attachment /\ uploads \subseteq Upload /\ objects \subseteq Calls
  /\ \A p \in DOMAIN previews : previews[p] \in Preview
  /\ \A n \in DOMAIN imports : imports[n] \in Import
  /\ \A c \in Calls : calls[c] \in Call \cup {None}
  /\ \A c \in Holders \ {None} :
       \/ At(c, "commit")
       \/ At(c, "conversation") /\ \A x \in DOMAIN rowLock : rowLock[x] # c

\* Whatever fails or is retried, the evidence of a conversation is whole: a client's
\* message is there once, an attachment belongs to a message that is there, its file was
\* stored, it is bound to one message only, and one that was staged by whoever staged it
\* (upload and uploadForImport store the file before they have written anything).
EvidenceIsWhole ==
  /\ IntakeTypeOK
  /\ \A x \in DOMAIN messages : \A k \in Keys : Cardinality(FindMessageByClientId(x, k)) <= 1
  /\ \A a \in attachments :
       /\ a.sequence \in DOMAIN messages[a.conversation]
       /\ a.id \in objects
       /\ \A b \in attachments : b.id = a.id => b = a
       /\ messages[a.conversation][a.sequence].key = None =>
            \E s \in uploads : s.id = a.id /\ s.by = a.by
  /\ \A s \in uploads : s.id \in objects

\* No file becomes evidence of a conversation that is archived; and by upload, only of a
\* project that is active and for a member who may still write, though storing the file
\* took any time ("Serialize binding with project archive and membership changes").
BoundUnderAuthority ==
  [][\A a \in attachments' \ attachments :
       /\ a.conversation \in DOMAIN conversations => Active(a.conversation)
       /\ ~Staged(a.id) => Authorized(a.by, "conversation:write") /\ RequireActiveProject
    ]_intakeVars

\* An import is made once for its file or submission, however often and by however many it
\* is confirmed at once; a provider's conversation is continued by its importer, in one
\* conversation, and no two imports continue the same one, whatever each saw when it was
\* asked for (persist locks the project before it looks).
ImportsNeverRepeatOrFork ==
  \A n, m \in DOMAIN imports :
    /\ imports[n].identity = imports[m].identity => n = m
    /\ imports[n].previous = imports[m].previous /\ imports[n].previous # 0 => n = m
    /\ imports[n].previous = m =>
         m < n /\ imports[n].by = imports[m].by /\ imports[n].conversations = imports[m].conversations

\* Every call is answered, though uploads and imports lock the project before the
\* conversation, and messages the conversation before the project.
CallsEnd == \A c \in Calls : calls[c] # None ~> Ended(c)
=============================================================================
