------------------------------- MODULE Client -------------------------------
(***************************************************************************)
(* The Vue front end in one tab: the session, the router, the views that   *)
(* are mounted, and the requests they have in flight.  A request that is   *)
(* aborted is gone: whatever the server makes of it, nobody hears of it.   *)
(* Who somebody is travels in a cookie, which the browser changes as soon  *)
(* as it has the headers of a response.                                    *)
(*                                                                         *)
(* The pages of a project are views in a view: ProjectView stays mounted   *)
(* from one to the other, and has a child once its project is loaded.      *)
(*                                                                         *)
(* Busy flags are those of the requests they wait for.  Roles and what is  *)
(* shown of a resource, besides who has read it, are left out.             *)
(***************************************************************************)
EXTENDS Null

CONSTANT People

VARIABLES
  user,        \* Session.user
  ready,       \* Session.ready
  cookie,      \* whose session the browser's cookie holds
  page,        \* the router's current route
  navigation,  \* where it is going, and whether the guards have let it pass
  fatal,       \* App shows an error instead of the view
  signingOut,  \* App shows that it is signing out
  shown,       \* in whose name each part of the view has read what it shows
  requests     \* in flight

clientVars ==
  <<user, ready, cookie, page, navigation, fatal, signingOut, shown, requests>>

-----------------------------------------------------------------------------
(* "conversations" stands for a list, "public" for a page that asks for nothing. *)
InProject == {"overview", "conversations", "conversation", "merge"}
Private == InProject \cup {"projects"}
Pages == Private \cup {"login", "public"}

ASSUME ClientAssumption == None \notin People \cup Pages

\* What has a resource of its own: ProjectView, the view of the page, and in that
\* the evidence of a conversation or a MergeReview.
Parts == {"project", "page", "detail"}

PartsOf(p) ==
  CASE p = "projects" -> {"page"}
    [] p = "overview" -> {"project"}
    [] p = "conversations" -> {"project", "page"}
    [] p \in {"conversation", "merge"} -> Parts
    [] OTHER -> {}

\* ProjectView waits for its project before it mounts what is in it.
Within(p, project) == IF p \in InProject /\ project = None THEN {"project"} ELSE PartsOf(p)

Displayed == page # None /\ ~fatal /\ ~signingOut
Mounted == IF Displayed THEN Within(page, shown["project"]) ELSE {}

ShowsNothing == [part \in Parts |-> None]

-----------------------------------------------------------------------------
SessionKinds == {"bootstrap", "login", "logout"}
Actions == {"act", "chat", "upload"}
ViewKinds == Actions \cup {"load"}

\* An action waits for the load it has asked for, and then the list of requests is
\* loaded again, or its failure is told.
Awaited == {"updated", "failed"}

\* What is done with an answer.
Follows == {"nothing", "access", "reload", "again", "overview", "conversation", "merge"} \cup Awaited

\* by is the part that asked; as whose cookie it carries, or whose token; mine whether
\* who asked is still mounted; current whether its generation is.
ClientRequest ==
  [kind : SessionKinds \cup ViewKinds, by : Parts \cup {None}, as : People \cup {None},
   follow : Follows, mine : BOOLEAN, current : BOOLEAN, heard : BOOLEAN]

Ask(kind, by, as, follow) ==
  [kind |-> kind, by |-> by, as |-> as, follow |-> follow,
   mine |-> TRUE, current |-> TRUE, heard |-> FALSE]

Nowhere == [to |-> None, passed |-> FALSE]
To(p) == [to |-> p, passed |-> FALSE]

Of(kinds) == {r \in requests : r.kind \in kinds /\ r.mine}

\* The busy of the useAction of a part.  What waits is never ProjectView's.
Busy(part) ==
  \/ \E r \in Of({"act", "chat"}) : r.by = part
  \/ part # "project" /\ \E r \in Of({"load"}) : r.follow \in Awaited

-----------------------------------------------------------------------------
(* Requests come and go *)

\* Mutant: nothing is aborted.
CancelNothing(S) == S

\* A chat's controller is not one of those the client keeps.
CancelAll(S) == {r \in S : r.kind = "chat"}

Overtaken(S) == {[r EXCEPT !.current = FALSE] : r \in S}

\* Together with the watcher that leaves for the login.
Invalidate ==
  /\ user' = None /\ ready' = TRUE
  /\ navigation' = IF user # None THEN To("login") ELSE navigation

LeftBehind(S, gone) == {[r EXCEPT !.mine = FALSE] : r \in {s \in S : s.kind = "login" /\ s.by \in gone}}

\* Mutant: an upload goes on when its component is unmounted.
TornDownButUploads(S, gone) ==
  {r \in S : r.by \notin gone \/ r.kind = "upload"} \cup LeftBehind(S, gone)

\* What is left when parts of the view are unmounted: what they have asked for is
\* aborted, but for a login.
TornDown(S, gone) == {r \in S : r.by \notin gone} \cup LeftBehind(S, gone)

\* useResource in the setup of what is mounted
Loads(parts) == {Ask("load", part, cookie, "nothing") : part \in parts}

\* reload
Reloaded(S, part, follow) ==
  {r \in S : ~(r.kind = "load" /\ r.by = part)} \cup {Ask("load", part, cookie, follow)}

-----------------------------------------------------------------------------
(* The router *)

\* A link, or the browser's buttons.
Go(p) ==
  /\ navigation' = To(p)
  /\ UNCHANGED <<user, ready, cookie, page, fatal, signingOut, shown, requests>>

Bootstrap ==
  /\ navigation.to # None /\ ~ready
  /\ \A r \in requests : r.kind # "bootstrap"
  /\ requests' = requests \cup {Ask("bootstrap", None, cookie, "nothing")}
  /\ UNCHANGED <<user, ready, cookie, page, navigation, fatal, signingOut, shown>>

Guard ==
  /\ navigation.to # None /\ ~navigation.passed /\ ready
  /\ navigation' =
       IF navigation.to \in Private /\ user = None THEN To("login")
       ELSE IF navigation.to = "login" /\ user # None THEN To("projects")
       ELSE [navigation EXCEPT !.passed = TRUE]
  /\ UNCHANGED <<user, ready, cookie, page, fatal, signingOut, shown, requests>>

\* What may stay from one page to the next: all where one already is, ProjectView within
\* its project, and MergeView from one review to another.  A project, a conversation or
\* a review may be left for another.
MayStay(p, q) ==
  (IF p = q THEN {Parts} ELSE {})
  \cup (IF {p, q} = {"merge"} THEN {{"project", "page"}}
        ELSE IF {p, q} \subseteq InProject THEN {{"project"}} ELSE {})
  \cup (IF p # q \/ p \in InProject THEN {{}} ELSE {})

\* The component has been loaded.
Arrive ==
  /\ navigation.passed
  /\ page' = navigation.to /\ navigation' = Nowhere
  /\ IF fatal \/ signingOut THEN UNCHANGED <<shown, requests>>
     ELSE \E stays \in MayStay(page, navigation.to) :
            /\ shown' = [part \in Parts |-> IF part \in stays THEN shown[part] ELSE None]
            /\ requests' = TornDown(requests, Parts \ stays)
                             \cup Loads(Within(navigation.to, shown'["project"]) \ stays)
  /\ UNCHANGED <<user, ready, cookie, fatal, signingOut>>

RefreshPage ==
  /\ \E p \in Pages : navigation' = To(p)
  /\ user' = None /\ ready' = FALSE /\ page' = None
  /\ fatal' = FALSE /\ signingOut' = FALSE
  /\ shown' = ShowsNothing /\ requests' = {}
  /\ UNCHANGED cookie

\* report: an error nobody caught, or a component that could not be loaded, whose
\* navigation ends with it.
Report ==
  /\ fatal' = TRUE
  /\ navigation' \in {navigation, Nowhere}
  /\ shown' = ShowsNothing /\ requests' = TornDown(requests, Parts)
  /\ UNCHANGED <<user, ready, cookie, page, signingOut>>

-----------------------------------------------------------------------------
(* The session *)

Login(u) ==
  /\ Displayed /\ page = "login" /\ Of({"login"}) = {}
  /\ Invalidate
  /\ requests' = Overtaken(CancelAll(requests)) \cup {Ask("login", "page", u, "nothing")}
  /\ UNCHANGED <<cookie, page, fatal, signingOut, shown>>

Logout ==
  /\ user # None /\ ~signingOut
  /\ signingOut' = TRUE
  /\ Invalidate
  /\ requests' = Overtaken(CancelAll(TornDown(requests, Parts)))
                   \cup {Ask("logout", None, cookie, "nothing")}
  /\ shown' = ShowsNothing
  /\ UNCHANGED <<cookie, page, fatal>>

-----------------------------------------------------------------------------
(* What the view asks for *)

\* perform: one action at a time, and an upload gives way to it.
Perform(kind, part, follow) ==
  /\ part \in Mounted /\ ~Busy(part)
  /\ requests' = {r \in requests : ~(r.kind = "upload" /\ r.by = part)}
                   \cup {Ask(kind, part, cookie, follow)}
  /\ UNCHANGED <<user, ready, cookie, page, navigation, fatal, signingOut, shown>>

Create == page = "projects" /\ Perform("act", "page", "overview")
UpdateProject == shown["project"] # None /\ Perform("act", "project", "nothing")
CreateConversation == page = "conversations" /\ Perform("act", "page", "conversation")

\* ConversationView's forms
Converses == page = "conversation" /\ shown["page"] # None

Update == Converses /\ Perform("act", "page", "nothing")
ExtractDelta == Converses /\ Perform("act", "page", "nothing")
RunAgent == Converses /\ Perform("act", "page", "nothing")
ResumeAgent == Converses /\ Perform("act", "page", "nothing")
Review == Converses /\ Perform("act", "page", "merge")
Chat == Converses /\ shown["detail"] # None /\ Perform("chat", "page", "nothing")

\* MergeReview's buttons
Refresh == page = "merge" /\ Perform("act", "detail", "access")
Resolve == page = "merge" /\ shown["detail"] # None /\ Perform("act", "detail", "reload")
Finalize == page = "merge" /\ shown["detail"] # None /\ Perform("act", "detail", "again")

Upload ==
  /\ Converses /\ "page" \in Mounted /\ ~Busy("page") /\ Of({"upload"}) = {}
  /\ requests' = requests \cup {Ask("upload", "page", cookie, "nothing")}
  /\ UNCHANGED <<user, ready, cookie, page, navigation, fatal, signingOut, shown>>

CancelUpload ==
  /\ Of({"upload"}) # {}
  /\ requests' = requests \ Of({"upload"})
  /\ UNCHANGED <<user, ready, cookie, page, navigation, fatal, signingOut, shown>>

\* ResourceState's button, beside an error.  The evidence is in the conversation's.
RetryLoad ==
  \E part \in Mounted :
    /\ shown[part] = None /\ \A r \in Of({"load"}) : r.by # part
    /\ page = "conversation" /\ part = "detail" => shown["page"] # None
    /\ requests' = Reloaded(requests, part, "nothing")
    /\ UNCHANGED <<user, ready, cookie, page, navigation, fatal, signingOut, shown>>

-----------------------------------------------------------------------------
(* Answers *)

\* The session route's POST sets the cookie of whose token it was given, DELETE clears it.
CookieAfter(r) ==
  CASE r.kind = "login" -> r.as
    [] r.kind = "logout" -> None
    [] OTHER -> cookie

\* The headers of a response that says ok.  What a view has asked changes no cookie,
\* and its headers and its body are told apart by nobody.
Hear(r) ==
  /\ r.kind \in SessionKinds /\ ~r.heard
  /\ r.kind # "logout" => r.as # None
  /\ cookie' = CookieAfter(r)
  /\ requests' = (requests \ {r}) \cup {[r EXCEPT !.heard = TRUE]}
  /\ UNCHANGED <<user, ready, page, navigation, fatal, signingOut, shown>>

\* MergeReview's updated, once its reload is over.
Updates(waiting, S) ==
  IF "updated" \in {r.follow : r \in waiting} THEN Reloaded(S, "page", "nothing") ELSE S
ShownAfter(waiting) ==
  IF "updated" \in {r.follow : r \in waiting} THEN [shown EXCEPT !["page"] = None] ELSE shown

\* 401: no cookie, an expired or revoked one, or a wrong token.  A reload that is waited
\* for is over when it is aborted.
Unauthorized(r) ==
  /\ ~r.heard /\ r.kind # "logout"
  /\ Invalidate
  /\ requests' = Updates(requests, Overtaken(CancelAll(requests \ {r})))
  /\ shown' = ShownAfter(requests)
  /\ UNCHANGED <<cookie, page, fatal, signingOut>>

\* The network, the server, a timeout, or an answer that does not parse.
BootstrapFails(r) ==
  /\ r.kind = "bootstrap"
  /\ fatal' = TRUE /\ navigation' = Nowhere
  /\ requests' = requests \ {r}
  /\ UNCHANGED <<user, ready, cookie, page, signingOut, shown>>

BootstrapEnds(r) ==
  /\ r.kind = "bootstrap" /\ r.heard
  /\ IF r.current THEN user' = r.as /\ ready' = TRUE ELSE UNCHANGED <<user, ready>>
  /\ requests' = requests \ {r}
  /\ UNCHANGED <<cookie, page, navigation, fatal, signingOut, shown>>

\* LoginView goes on even if it is no longer mounted.
LoginEnds(r) ==
  /\ r.kind = "login" /\ r.heard
  /\ user' = IF r.current THEN r.as ELSE user
  /\ navigation' = To("projects")
  /\ requests' = requests \ {r}
  /\ UNCHANGED <<ready, cookie, page, fatal, signingOut, shown>>

\* The view is mounted again, whichever it is by now.
LogoutEnds(r) ==
  /\ r.kind = "logout" /\ r.heard
  /\ signingOut' = FALSE
  /\ requests' = (requests \ {r}) \cup (IF fatal \/ page = None THEN {} ELSE Loads(Within(page, None)))
  /\ UNCHANGED <<user, ready, cookie, page, navigation, fatal, shown>>

LogoutFails(r) ==
  /\ r.kind = "logout"
  /\ signingOut' = FALSE /\ fatal' = TRUE
  /\ requests' = requests \ {r}
  /\ UNCHANGED <<user, ready, cookie, page, navigation, shown>>

\* Once the project is there, what is in it is mounted.
LoadEnds(r) ==
  /\ r.kind = "load" /\ r.as # None
  /\ shown' = [ShownAfter({r}) EXCEPT ![r.by] = r.as]
  /\ requests' = Updates({r}, requests \ {r})
                   \cup (IF r.by = "project" THEN Loads(PartsOf(page) \ {"project"}) ELSE {})
  /\ UNCHANGED <<user, ready, cookie, page, navigation, fatal, signingOut>>

LoadFails(r) ==
  /\ r.kind = "load"
  /\ requests' = Updates({r}, requests \ {r}) /\ shown' = ShownAfter({r})
  /\ UNCHANGED <<user, ready, cookie, page, navigation, fatal, signingOut>>

\* The answer is shown, or leads to another page.
ActEnds(r) ==
  /\ r.kind = "act" /\ r.as # None /\ r.follow \notin {"access", "reload", "again"}
  /\ IF r.follow = "nothing"
     THEN shown' = [shown EXCEPT ![r.by] = r.as] /\ UNCHANGED navigation
     ELSE navigation' = To(r.follow) /\ UNCHANGED shown
  /\ requests' = requests \ {r}
  /\ UNCHANGED <<user, ready, cookie, page, fatal, signingOut>>

\* A review is committed, and the project is read.
FinalizeEnds(r) ==
  /\ r.kind = "act" /\ r.as # None /\ r.follow = "again"
  /\ requests' = (requests \ {r}) \cup {Ask("act", r.by, cookie, "access")}
  /\ UNCHANGED <<user, ready, cookie, page, navigation, fatal, signingOut, shown>>

\* ProjectView shows the project as it has been read, and the review is loaded again.
ReviewReloads(r) ==
  /\ r.kind = "act" /\ r.as # None /\ r.follow \in {"access", "reload"}
  /\ shown' = [shown EXCEPT !["project"] = IF r.follow = "access" THEN r.as ELSE shown["project"],
                            ![r.by] = None]
  /\ requests' = Reloaded(requests \ {r}, r.by, "updated")
  /\ UNCHANGED <<user, ready, cookie, page, navigation, fatal, signingOut>>

ChatEnds(r) ==
  /\ r.kind = "chat" /\ r.as # None
  /\ shown' = [shown EXCEPT !["detail"] = r.as]
  /\ requests' = requests \ {r}
  /\ UNCHANGED <<user, ready, cookie, page, navigation, fatal, signingOut>>

\* What was persisted before the stream broke off is asked for.
ChatFails(r) ==
  /\ r.kind = "chat"
  /\ IF user # None
     THEN /\ requests' = Reloaded(requests \ {r}, "detail", "failed")
          /\ shown' = [shown EXCEPT !["detail"] = None]
     ELSE requests' = requests \ {r} /\ UNCHANGED shown
  /\ UNCHANGED <<user, ready, cookie, page, navigation, fatal, signingOut>>

UploadEnds(r) ==
  /\ r.kind = "upload" /\ r.as # None
  /\ requests' = Reloaded(requests \ {r}, "detail", "nothing")
  /\ shown' = [shown EXCEPT !["detail"] = None]
  /\ UNCHANGED <<user, ready, cookie, page, navigation, fatal, signingOut>>

\* An error is shown.
Fails(r) ==
  /\ r.kind \in {"login", "act", "upload"}
  /\ requests' = requests \ {r}
  /\ UNCHANGED <<user, ready, cookie, page, navigation, fatal, signingOut, shown>>

-----------------------------------------------------------------------------
ClientInit ==
  /\ user = None /\ ready = FALSE
  /\ cookie \in People \cup {None}
  /\ page = None /\ navigation \in {To(p) : p \in Pages}
  /\ fatal = FALSE /\ signingOut = FALSE
  /\ shown = ShowsNothing /\ requests = {}

ClientNext ==
  \/ \E p \in Pages : Go(p)
  \/ Bootstrap \/ Guard \/ Arrive \/ RefreshPage \/ Report
  \/ \E u \in People : Login(u)
  \/ Logout
  \/ Create \/ UpdateProject \/ CreateConversation
  \/ Update \/ ExtractDelta \/ RunAgent \/ ResumeAgent \/ Review \/ Chat
  \/ Refresh \/ Resolve \/ Finalize
  \/ Upload \/ CancelUpload \/ RetryLoad
  \/ \E r \in requests :
       \/ Hear(r) \/ Unauthorized(r)
       \/ BootstrapEnds(r) \/ BootstrapFails(r)
       \/ LoginEnds(r)
       \/ LogoutEnds(r) \/ LogoutFails(r)
       \/ LoadEnds(r) \/ LoadFails(r)
       \/ ActEnds(r) \/ FinalizeEnds(r) \/ ReviewReloads(r)
       \/ ChatEnds(r) \/ ChatFails(r)
       \/ UploadEnds(r)
       \/ Fails(r)

ClientSpec == ClientInit /\ [][ClientNext]_clientVars

-----------------------------------------------------------------------------
(* Properties *)

\* Whoever is signed in is who the server takes them for, and sees nothing that was read
\* in another's name, however sign-ins, sign-outs, expiry and late answers interleave
\* (a session that was left is not restored by what is still on its way).
OneIdentity ==
  user # None =>
    /\ cookie = user
    /\ \A part \in Parts : shown[part] \in {None, user}
    /\ ~signingOut

\* What a request takes, of what there is one of: the session, the load of a part, the
\* action of ProjectView and the action of the page, also while that waits for a load.
Slots(r) ==
  (IF r.kind \in SessionKinds THEN {"session"} ELSE {})
  \cup (IF r.kind = "load" THEN {r.by} ELSE {})
  \cup (IF r.kind \in Actions \/ r.follow \in Awaited
        THEN {IF r.by = "project" THEN "manage" ELSE "act"} ELSE {})

\* Only what is mounted has requests in flight, and each part of it does one thing at a
\* time: nothing that was left behind asks, navigates or races with what replaced it,
\* while a project goes on being loaded or renamed from one of its pages to the next.
RequestsBelongToTheView ==
  /\ requests \subseteq ClientRequest
  /\ \A r \in requests : r.kind \in ViewKinds => r.mine /\ r.by \in Mounted
  /\ \A r, s \in requests : r # s => Slots(r) \cap Slots(s) = {}
=============================================================================
