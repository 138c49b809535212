---------------------------- MODULE ClientProofs ----------------------------
(***************************************************************************)
(* Client.OneIdentity and Client.RequestsBelongToTheView for any people.   *)
(*                                                                         *)
(* Both are about what may still arrive, so the invariant says of every    *)
(* request in flight when it can be: a bootstrap only before anybody is    *)
(* known, a login only while nobody is signed in and no private page is    *)
(* displayed, a logout only while App says so, and what a part of the view *)
(* has asked only while that part is mounted, and in the name of whoever   *)
(* is signed in.                                                           *)
(***************************************************************************)
EXTENDS Client, TLAPS

-----------------------------------------------------------------------------
(* The invariant *)

Somebody == People \cup {None}
Navigations == [to : Pages \cup {None}, passed : BOOLEAN]

ClientTyped ==
  /\ user \in Somebody /\ cookie \in Somebody /\ shown \in [Parts -> Somebody]
  /\ ready \in BOOLEAN /\ fatal \in BOOLEAN /\ signingOut \in BOOLEAN
  /\ page \in Pages \cup {None}
  /\ navigation \in Navigations

\* The guards let nobody in before the session is known, nor to a private page
\* without one.
Guarded ==
  /\ navigation.passed =>
       ready /\ navigation.to # None /\ (navigation.to \in Private => user # None)
  /\ ~ready => user = None /\ page = None /\ ~signingOut

Identified ==
  /\ signingOut => user = None
  /\ user # None => cookie = user
  /\ \A part \in Parts : shown[part] # None => part \in Mounted /\ user \in {None, shown[part]}

\* The part whose useAction a page has, besides ProjectView's.
ActingPart == IF page = "merge" THEN "detail" ELSE "page"

\* When a request can be in flight, and what its answer would find.
TimelySession(r) ==
  /\ r.kind = "bootstrap" => ~ready /\ r.as = cookie
  /\ r.kind = "login" =>
       /\ page \in Pages \ Private /\ ~signingOut /\ user = None
       /\ r.heard => cookie = r.as
  /\ r.kind = "logout" => signingOut

TimelyView(r) ==
  /\ r.kind \in ViewKinds => r.mine /\ r.by \in Mounted /\ user \in {None, r.as}
  /\ r.kind \in {"chat", "upload"} => r.by = "page" /\ page = "conversation"
  /\ r.kind \in Actions /\ r.by # "project" => r.by = ActingPart
  /\ r.kind \in Actions /\ r.by = "project" => shown["project"] # None
  /\ r.kind = "load" /\ r.by = "project" => shown["project"] = None
  /\ r.follow \in Awaited => r.kind = "load" /\ r.by = "detail"
  /\ r.follow \in {"access", "reload", "again"} => r.kind = "act" /\ r.by = "detail"

Timely(r) == TimelySession(r) /\ TimelyView(r)

Alone(S) == \A r, s \in S : r # s => Slots(r) \cap Slots(s) = {}

ClientInv ==
  /\ ClientTyped /\ Guarded /\ Identified
  /\ requests \subseteq ClientRequest
  /\ \A r \in requests : Timely(r)
  /\ Alone(requests)

-----------------------------------------------------------------------------
(* Requests *)

Kinds == SessionKinds \cup ViewKinds

LEMMA Fields ==
  ASSUME NEW r \in ClientRequest
  PROVE  /\ r.kind \in Kinds /\ r.by \in Parts \cup {None} /\ r.as \in Somebody
         /\ r.follow \in Follows
         /\ r.mine \in BOOLEAN /\ r.current \in BOOLEAN /\ r.heard \in BOOLEAN
BY DEF ClientRequest, Kinds, Somebody

LEMMA AskedFor ==
  ASSUME NEW kind \in Kinds, NEW by \in Parts \cup {None}, NEW as \in Somebody,
         NEW follow \in Follows
  PROVE  /\ Ask(kind, by, as, follow) \in ClientRequest
         /\ Ask(kind, by, as, follow).kind = kind /\ Ask(kind, by, as, follow).by = by
         /\ Ask(kind, by, as, follow).as = as /\ Ask(kind, by, as, follow).follow = follow
         /\ Ask(kind, by, as, follow).mine /\ ~Ask(kind, by, as, follow).heard
BY DEF Ask, ClientRequest, Kinds, Somebody

LEMMA ToSomewhere ==
  ASSUME NEW p \in Pages
  PROVE  To(p) \in Navigations /\ To(p).passed = FALSE
BY DEF To, Navigations

LEMMA StayingNowhere == Nowhere \in Navigations /\ Nowhere.passed = FALSE
BY DEF Nowhere, Navigations

\* Those fields a request keeps whatever happens to it.
Alike(q, r) == q.kind = r.kind /\ q.by = r.by /\ q.as = r.as /\ q.follow = r.follow

LEMMA HeardOf ==
  ASSUME NEW r \in ClientRequest
  PROVE  \A q : q = [r EXCEPT !.heard = TRUE] =>
           q \in ClientRequest /\ Alike(q, r) /\ q.mine = r.mine /\ q.heard
BY DEF ClientRequest, Alike

LEMMA NoLongerMine ==
  ASSUME NEW r \in ClientRequest
  PROVE  \A q : q = [r EXCEPT !.mine = FALSE] =>
           q \in ClientRequest /\ Alike(q, r) /\ q.heard = r.heard
BY DEF ClientRequest, Alike

LEMMA NoLongerCurrent ==
  ASSUME NEW r \in ClientRequest
  PROVE  \A q : q = [r EXCEPT !.current = FALSE] =>
           q \in ClientRequest /\ Alike(q, r) /\ q.mine = r.mine /\ q.heard = r.heard
BY DEF ClientRequest, Alike

-----------------------------------------------------------------------------
(* What requests take *)

LEMMA AlikeSlots ==
  ASSUME NEW q, NEW r, Alike(q, r)
  PROVE  Slots(q) = Slots(r)
BY DEF Alike, Slots

LEMMA LoadSlots ==
  ASSUME NEW r
  PROVE  \A part \in Parts : part \in Slots(r) <=> r.kind = "load" /\ r.by = part
BY DEF Slots, Parts

LEMMA AloneInPart ==
  ASSUME NEW S, Alone(S), NEW T \in SUBSET S
  PROVE  Alone(T)
BY DEF Alone

LEMMA AloneByItself ==
  ASSUME NEW q
  PROVE  Alone({q})
BY DEF Alone

LEMMA AloneTogether ==
  ASSUME NEW S, Alone(S), NEW T, Alone(T),
         \A s \in S, t \in T : Slots(s) \cap Slots(t) = {}
  PROVE  Alone(S \cup T)
BY DEF Alone

LEMMA AloneWhenOvertaken ==
  ASSUME NEW S \in SUBSET ClientRequest, Alone(S)
  PROVE  Overtaken(S) \subseteq ClientRequest /\ Alone(Overtaken(S))
<1>1. ASSUME NEW p \in Overtaken(S)
      PROVE  \E s \in S : p = [s EXCEPT !.current = FALSE] /\ p \in ClientRequest /\ Slots(p) = Slots(s)
  BY NoLongerCurrent, AlikeSlots DEF Overtaken
<1>2. ASSUME NEW p \in Overtaken(S), NEW q \in Overtaken(S), p # q
      PROVE  Slots(p) \cap Slots(q) = {}
  <2>1. PICK s \in S : p = [s EXCEPT !.current = FALSE] /\ Slots(p) = Slots(s)
    BY <1>1
  <2>2. PICK t \in S : q = [t EXCEPT !.current = FALSE] /\ Slots(q) = Slots(t)
    BY <1>1
  <2>3. s # t
    BY <1>2, <2>1, <2>2
  <2>. QED BY <2>1, <2>2, <2>3 DEF Alone
<1>. QED BY <1>1, <1>2 DEF Alone

\* What remains in flight is what nobody has left behind, and logins.
LEMMA Remaining ==
  ASSUME NEW S \in SUBSET ClientRequest, NEW gone, NEW p \in TornDown(S, gone)
  PROVE  \E s \in S :
           /\ p \in ClientRequest /\ Alike(p, s) /\ p.heard = s.heard
           /\ s.by \notin gone => p = s
           /\ s.by \in gone => s.kind = "login" /\ p = [s EXCEPT !.mine = FALSE]
<1>1. CASE p \in S /\ p.by \notin gone
  BY <1>1 DEF Alike
<1>2. CASE p \in LeftBehind(S, gone)
  <2>1. PICK s \in S : s.kind = "login" /\ s.by \in gone /\ p = [s EXCEPT !.mine = FALSE]
    BY <1>2 DEF LeftBehind
  <2>2. s \in ClientRequest
    OBVIOUS
  <2>. QED BY <2>1, <2>2, NoLongerMine
<1>. QED BY <1>1, <1>2 DEF TornDown

LEMMA AloneWhenTornDown ==
  ASSUME NEW S \in SUBSET ClientRequest, Alone(S), NEW gone
  PROVE  TornDown(S, gone) \subseteq ClientRequest /\ Alone(TornDown(S, gone))
<1>1. ASSUME NEW p \in TornDown(S, gone), NEW q \in TornDown(S, gone), p # q
      PROVE  Slots(p) \cap Slots(q) = {}
  <2>1. PICK s \in S : /\ Alike(p, s)
                       /\ s.by \notin gone => p = s
                       /\ s.by \in gone => p = [s EXCEPT !.mine = FALSE]
    BY Remaining
  <2>2. PICK t \in S : /\ Alike(q, t)
                       /\ t.by \notin gone => q = t
                       /\ t.by \in gone => q = [t EXCEPT !.mine = FALSE]
    BY Remaining
  <2>3. s # t
    BY <1>1, <2>1, <2>2
  <2>4. Slots(s) \cap Slots(t) = {}
    BY <2>3 DEF Alone
  <2>5. Slots(p) = Slots(s) /\ Slots(q) = Slots(t)
    BY <2>1, <2>2, AlikeSlots
  <2>. QED BY <2>4, <2>5
<1>2. TornDown(S, gone) \subseteq ClientRequest
  BY Remaining
<1>. QED BY <1>1, <1>2 DEF Alone

-----------------------------------------------------------------------------
(* What is mounted *)

LEMMA MountedParts ==
  /\ Mounted \subseteq Parts
  /\ fatal \/ signingOut \/ page = None => Mounted = {}
  /\ "project" \in Mounted => page \in InProject
  /\ "detail" \in Mounted =>
       page \in {"conversation", "merge"} /\ Mounted = Parts /\ shown["project"] # None
  /\ page \notin Private => Mounted = {}
  /\ Mounted # {} => page \in Private /\ ~fatal /\ ~signingOut /\ page # None
BY DEF Mounted, Displayed, Within, PartsOf, Parts, InProject, Private

\* What is mounted depends on the page, and on whether its project is there.
LEMMA StillMounted ==
  ASSUME UNCHANGED <<page, fatal, signingOut>>, (shown'["project"] = None) <=> (shown["project"] = None)
  PROVE  Mounted' = Mounted
BY DEF Mounted, Displayed, Within

-----------------------------------------------------------------------------
(* What is asked for *)

\* A load, with nothing to wait for it or an action.
LEMMA LoadAsked ==
  ASSUME ClientInv, NEW part \in Mounted, NEW next \in {"nothing"} \cup Awaited,
         next \in Awaited => part = "detail",
         part = "project" => shown["project"] = None
  PROVE  \A q : q = Ask("load", part, cookie, next) =>
           /\ q \in ClientRequest /\ Timely(q)
           /\ Slots(q) = {part} \cup (IF next \in Awaited THEN {"act"} ELSE {})
<1>. SUFFICES ASSUME NEW q, q = Ask("load", part, cookie, next)
              PROVE  /\ q \in ClientRequest /\ Timely(q)
                     /\ Slots(q) = {part} \cup (IF next \in Awaited THEN {"act"} ELSE {})
  OBVIOUS
<1>1. cookie \in Somebody /\ "load" \in Kinds /\ next \in Follows /\ part \in Parts
  BY MountedParts DEF ClientInv, ClientTyped, Kinds, ViewKinds, Follows
<1>2. /\ q \in ClientRequest /\ q.kind = "load" /\ q.by = part /\ q.as = cookie
      /\ q.follow = next /\ q.mine
  BY <1>1, AskedFor
<1>3. Timely(q)
  BY <1>2 DEF Timely, TimelySession, TimelyView, ClientInv, Identified, Actions, Awaited
<1>4. Slots(q) = {part} \cup (IF next \in Awaited THEN {"act"} ELSE {})
  BY <1>2 DEF Slots, SessionKinds, Actions, Awaited
<1>. QED BY <1>2, <1>3, <1>4

\* The load of a part is asked for again; nobody else asks for it, nor acts if it is
\* waited for.
LEMMA Reloading ==
  ASSUME ClientInv, NEW S \in SUBSET ClientRequest, Alone(S), \A s \in S : Timely(s),
         NEW part \in Mounted, NEW next \in {"nothing"} \cup Awaited,
         next \in Awaited => part = "detail" /\ \A s \in S : "act" \notin Slots(s),
         part = "project" => shown["project"] = None
  PROVE  /\ Reloaded(S, part, next) \subseteq ClientRequest /\ Alone(Reloaded(S, part, next))
         /\ \A r \in Reloaded(S, part, next) : Timely(r)
<1>. DEFINE rest == {r \in S : ~(r.kind = "load" /\ r.by = part)}
            asked == Ask("load", part, cookie, next)
<1>1. Reloaded(S, part, next) = rest \cup {asked}
  BY DEF Reloaded
<1>2. /\ asked \in ClientRequest /\ Timely(asked)
      /\ Slots(asked) = {part} \cup (IF next \in Awaited THEN {"act"} ELSE {})
  BY LoadAsked
<1>3. part \in Parts
  BY MountedParts
<1>4. \A s \in rest : s \in S /\ part \notin Slots(s)
  BY <1>3, LoadSlots
<1>. HIDE DEF asked
<1>5. \A s \in rest, t \in {asked} : Slots(s) \cap Slots(t) = {}
  BY <1>2, <1>4
<1>6. Alone(rest \cup {asked})
  BY <1>5, AloneInPart, AloneByItself, AloneTogether
<1>. QED BY <1>1, <1>2, <1>4, <1>6

LEMMA AllLoaded ==
  ASSUME cookie \in Somebody, NEW P \in SUBSET Parts
  PROVE  /\ Loads(P) \subseteq ClientRequest /\ Alone(Loads(P))
         /\ \A r \in Loads(P) :
              /\ r.kind = "load" /\ r.by \in P /\ r.as = cookie /\ r.follow = "nothing" /\ r.mine
              /\ Slots(r) = {r.by}
<1>1. ASSUME NEW r \in Loads(P)
      PROVE  \E part \in P :
               /\ r = Ask("load", part, cookie, "nothing") /\ r \in ClientRequest
               /\ r.kind = "load" /\ r.by = part /\ r.as = cookie /\ r.follow = "nothing" /\ r.mine
               /\ Slots(r) = {part}
  <2>1. PICK part \in P : r = Ask("load", part, cookie, "nothing")
    BY DEF Loads
  <2>2. "load" \in Kinds /\ "nothing" \in Follows /\ part \in Parts
    BY DEF Kinds, ViewKinds, Follows
  <2>3. /\ r \in ClientRequest /\ r.kind = "load" /\ r.by = part /\ r.as = cookie
        /\ r.follow = "nothing" /\ r.mine
    BY <2>1, <2>2, AskedFor
  <2>4. Slots(r) = {part}
    BY <2>3 DEF Slots, SessionKinds, Actions, Awaited
  <2>. QED BY <2>1, <2>3, <2>4
<1>2. ASSUME NEW r \in Loads(P), NEW s \in Loads(P), r # s
      PROVE  Slots(r) \cap Slots(s) = {}
  <2>1. PICK p \in P : r = Ask("load", p, cookie, "nothing") /\ Slots(r) = {p}
    BY <1>1
  <2>2. PICK q \in P : s = Ask("load", q, cookie, "nothing") /\ Slots(s) = {q}
    BY <1>1
  <2>3. p # q
    BY <1>2, <2>1, <2>2
  <2>. QED BY <2>1, <2>2, <2>3
<1>. QED BY <1>1, <1>2 DEF Alone

\* Nothing but chats is left.
LEMMA OnlyChats ==
  ASSUME ClientInv, NEW S \in SUBSET requests
  PROVE  /\ Overtaken(CancelAll(S)) \subseteq ClientRequest /\ Alone(Overtaken(CancelAll(S)))
         /\ \A r \in Overtaken(CancelAll(S)) :
              r.kind = "chat" /\ Timely(r) /\ page = "conversation"
<1>1. CancelAll(S) \in SUBSET requests /\ \A s \in CancelAll(S) : s.kind = "chat"
  BY DEF CancelAll
<1>2. CancelAll(S) \in SUBSET ClientRequest /\ Alone(CancelAll(S))
  BY <1>1, AloneInPart DEF ClientInv
<1>3. ASSUME NEW r \in Overtaken(CancelAll(S))
      PROVE  r.kind = "chat" /\ Timely(r) /\ page = "conversation"
  <2>1. PICK s \in CancelAll(S) : r = [s EXCEPT !.current = FALSE]
    BY DEF Overtaken
  <2>2. s \in ClientRequest /\ s.kind = "chat" /\ Timely(s)
    BY <1>1, <1>2 DEF ClientInv
  <2>3. Alike(r, s) /\ r.mine = s.mine /\ r.heard = s.heard
    BY <2>1, <2>2, NoLongerCurrent
  <2>4. Timely(r)
    BY <2>2, <2>3 DEF Timely, TimelySession, TimelyView, Alike
  <2>. QED BY <2>2, <2>3, <2>4 DEF Timely, TimelyView, Alike
<1>. QED BY <1>2, <1>3, AloneWhenOvertaken

\* What the view's parts had asked for is gone, and what is left does not belong to them.
LEMMA ViewLeft ==
  ASSUME ClientInv, NEW gone
  PROVE  /\ TornDown(requests, gone) \subseteq ClientRequest /\ Alone(TornDown(requests, gone))
         /\ \A r \in TornDown(requests, gone) :
              /\ Timely(r)
              /\ r.kind \in ViewKinds => r.by \notin gone
              /\ \E s \in requests : r.kind = s.kind /\ r.as = s.as /\ r.heard = s.heard
<1>1. ASSUME NEW r \in TornDown(requests, gone)
      PROVE  /\ Timely(r)
             /\ r.kind \in ViewKinds => r.by \notin gone
             /\ \E s \in requests : r.kind = s.kind /\ r.as = s.as /\ r.heard = s.heard
  <2>1. PICK s \in requests :
          /\ Alike(r, s) /\ r.heard = s.heard
          /\ s.by \notin gone => r = s
          /\ s.by \in gone => s.kind = "login"
    BY Remaining DEF ClientInv
  <2>2. Timely(s)
    BY DEF ClientInv
  <2>3. CASE s.by \notin gone
    BY <2>1, <2>2, <2>3
  <2>4. CASE s.kind = "login"
    BY <2>1, <2>2, <2>4 DEF Timely, TimelySession, TimelyView, Alike, ViewKinds, Actions
  <2>. QED BY <2>1, <2>3, <2>4 DEF Alike
<1>. QED BY <1>1, AloneWhenTornDown DEF ClientInv

-----------------------------------------------------------------------------
(* The steps *)

\* The part of the invariant that is about requests, where it does not follow from it.
LEMMA Together ==
  ASSUME ClientTyped', Guarded', Identified', requests' \subseteq ClientRequest, Alone(requests'),
         \A r \in requests' : Timely(r)'
  PROVE  ClientInv'
<1>1. Alone(requests)'
  BY DEF Alone
<1>. QED BY <1>1 DEF ClientInv

LEMMA InitiallyNobody == ClientInit => ClientInv
<1>. SUFFICES ASSUME ClientInit PROVE ClientInv
  OBVIOUS
<1>1. navigation \in Navigations /\ ~navigation.passed
  BY ToSomewhere DEF ClientInit
<1>2. requests = {} /\ Alone(requests)
  BY DEF ClientInit, Alone
<1>3. shown \in [Parts -> Somebody] /\ \A part \in Parts : shown[part] = None
  BY DEF ClientInit, ShowsNothing, Somebody
<1>. QED BY <1>1, <1>2, <1>3 DEF ClientInit, ClientInv, ClientTyped, Guarded, Identified, Somebody

\* What the view shows and asks for changes, or where it goes, and what is in flight
\* was fitting already.
LEMMA ViewChanges ==
  ASSUME ClientInv, UNCHANGED <<user, ready, cookie, page, fatal, signingOut>>,
         navigation' = navigation \/ \E p \in Pages : navigation' = To(p),
         shown' \in [Parts -> Somebody],
         (shown'["project"] = None) <=> (shown["project"] = None),
         \A part \in Parts : shown'[part] # None => part \in Mounted /\ user \in {None, shown'[part]},
         requests' \subseteq ClientRequest, Alone(requests'), \A r \in requests' : Timely(r)
  PROVE  ClientInv'
<1>1. \/ navigation' = navigation
      \/ navigation' \in Navigations /\ ~navigation'.passed
  BY ToSomewhere
<1>2. Mounted' = Mounted
  BY StillMounted
<1>3. ClientTyped' /\ Guarded'
  BY <1>1 DEF ClientInv, ClientTyped, Guarded
<1>4. Identified'
  BY <1>2 DEF ClientInv, Identified
<1>5. \A r \in requests' : Timely(r)'
  BY <1>2 DEF Timely, TimelySession, TimelyView, ActingPart
<1>. QED BY <1>3, <1>4, <1>5, Together

\* Nothing is shown that was not.
LEMMA RequestsChange ==
  ASSUME ClientInv, UNCHANGED <<user, ready, cookie, page, fatal, signingOut, shown>>,
         navigation' = navigation \/ \E p \in Pages : navigation' = To(p),
         requests' \subseteq ClientRequest, Alone(requests'), \A r \in requests' : Timely(r)
  PROVE  ClientInv'
<1>1. shown' = shown
  OBVIOUS
<1>2. shown' \in [Parts -> Somebody]
  BY <1>1 DEF ClientInv, ClientTyped
<1>3. \A part \in Parts : shown'[part] # None => part \in Mounted /\ user \in {None, shown'[part]}
  BY <1>1 DEF ClientInv, Identified
<1>. QED BY <1>1, <1>2, <1>3, ViewChanges

\* A request ends, and nothing else changes.
LEMMA FewerInFlight ==
  ASSUME ClientInv, requests' \in SUBSET requests,
         UNCHANGED <<user, ready, cookie, page, navigation, fatal, signingOut, shown>>
  PROVE  ClientInv'
<1>1. requests' \subseteq ClientRequest /\ Alone(requests') /\ \A r \in requests' : Timely(r)
  BY AloneInPart DEF ClientInv
<1>. QED BY <1>1, RequestsChange

LEMMA GoStep ==
  ASSUME ClientInv, NEW p \in Pages, Go(p)
  PROVE  ClientInv'
<1>1. requests' \subseteq ClientRequest /\ Alone(requests') /\ \A r \in requests' : Timely(r)
  BY DEF Go, ClientInv
<1>. QED BY <1>1, RequestsChange DEF Go

LEMMA BootstrapStep ==
  ASSUME ClientInv, Bootstrap
  PROVE  ClientInv'
<1>. DEFINE asked == Ask("bootstrap", None, cookie, "nothing")
<1>1. cookie \in Somebody /\ "bootstrap" \in Kinds /\ "nothing" \in Follows
  BY DEF ClientInv, ClientTyped, Kinds, SessionKinds, Follows
<1>2. ASSUME NEW r \in requests PROVE r.kind = "bootstrap"
  <2>1. r.kind \in Kinds /\ Timely(r)
    BY Fields DEF ClientInv
  <2>2. ~ready /\ page = None /\ ~signingOut /\ None \notin Pages
    BY ClientAssumption DEF Bootstrap, ClientInv, Guarded
  <2>. QED BY <2>1, <2>2, MountedParts DEF Timely, TimelySession, TimelyView, Kinds, SessionKinds
<1>3. requests = {}
  BY <1>2 DEF Bootstrap
<1>4. requests' = {asked}
  BY <1>3 DEF Bootstrap
<1>5. /\ asked \in ClientRequest /\ asked.kind = "bootstrap" /\ asked.as = cookie
      /\ asked.follow = "nothing"
  BY <1>1, AskedFor
<1>. HIDE DEF asked
<1>6. requests' \subseteq ClientRequest /\ Alone(requests')
  BY <1>4, <1>5, AloneByItself
<1>7. \A r \in requests' : Timely(r)
  BY <1>4, <1>5 DEF Timely, TimelySession, TimelyView, ViewKinds, Actions, Awaited, Bootstrap
<1>. QED BY <1>6, <1>7, RequestsChange DEF Bootstrap

LEMMA GuardStep ==
  ASSUME ClientInv, Guard
  PROVE  ClientInv'
<1>. DEFINE passing == [navigation EXCEPT !.passed = TRUE]
<1>1. requests' \subseteq ClientRequest /\ Alone(requests') /\ \A r \in requests' : Timely(r)
  BY DEF ClientInv, Guard
<1>2. CASE \E p \in Pages : navigation' = To(p)
  BY <1>1, <1>2, RequestsChange DEF Guard
<1>3. CASE navigation' = passing /\ ~(navigation.to \in Private /\ user = None)
  <2>1. navigation'.to = navigation.to /\ navigation' \in Navigations
    BY <1>3 DEF ClientInv, ClientTyped, Navigations
  <2>2. ClientTyped' /\ Guarded'
    BY <1>3, <2>1 DEF Guard, ClientInv, ClientTyped, Guarded
  <2>3. Mounted' = Mounted
    BY DEF Guard, Mounted, Displayed
  <2>4. Identified'
    BY <2>3 DEF Guard, ClientInv, Identified
  <2>5. \A r \in requests' : Timely(r)'
    BY <1>1, <2>3 DEF Guard, Timely, TimelySession, TimelyView, ActingPart
  <2>. QED BY <1>1, <2>2, <2>4, <2>5, Together
<1>4. "login" \in Pages /\ "projects" \in Pages
  BY DEF Pages, Private
<1>. QED BY <1>2, <1>3, <1>4 DEF Guard

LEMMA RefreshStep ==
  ASSUME ClientInv, RefreshPage
  PROVE  ClientInv'
<1>1. navigation' \in Navigations /\ navigation'.passed = FALSE
  BY ToSomewhere DEF RefreshPage
<1>2. shown' \in [Parts -> Somebody] /\ \A part \in Parts : shown'[part] = None
  BY DEF RefreshPage, ShowsNothing, Somebody
<1>3. ClientTyped' /\ Guarded' /\ Identified'
  BY <1>1, <1>2 DEF RefreshPage, ClientInv, ClientTyped, Guarded, Identified, Somebody
<1>4. requests' = {} /\ Alone(requests')
  BY DEF RefreshPage, Alone
<1>. QED BY <1>3, <1>4, Together

\* Nothing is mounted any more: what is left in flight is the session's.
LEMMA ReportStep ==
  ASSUME ClientInv, Report
  PROVE  ClientInv'
<1>1. shown' \in [Parts -> Somebody] /\ \A part \in Parts : shown'[part] = None
  BY DEF Report, ShowsNothing, Somebody
<1>2. ClientTyped' /\ Guarded' /\ Identified'
  BY <1>1, StayingNowhere DEF Report, ClientInv, ClientTyped, Guarded, Identified
<1>3. /\ requests' \subseteq ClientRequest /\ Alone(requests')
      /\ \A r \in requests' : Timely(r) /\ (r.kind \in ViewKinds => r.by \notin Parts)
  BY ViewLeft DEF Report
<1>4. ASSUME NEW r \in requests' PROVE Timely(r)'
  <2>1. Timely(r) /\ r.kind \notin ViewKinds
    BY <1>3, MountedParts DEF Timely, TimelyView
  <2>2. r.follow \notin Awaited \cup {"access", "reload", "again"}
    BY <2>1 DEF Timely, TimelyView, ViewKinds, Actions
  <2>. QED BY <2>1, <2>2 DEF Report, Timely, TimelySession, TimelyView, ViewKinds, Actions
<1>. QED BY <1>2, <1>3, <1>4, Together

\* Whatever stays mounted was mounted before.
LEMMA WhatStays ==
  ASSUME page' \in Pages, ~fatal, ~signingOut, UNCHANGED <<fatal, signingOut>>,
         NEW stays \in MayStay(page, page'),
         shown' = [part \in Parts |-> IF part \in stays THEN shown[part] ELSE None]
  PROVE  /\ Mounted' = Within(page', shown'["project"])
         /\ \A part \in stays : part \in Mounted => part \in Mounted'
         /\ "page" \in stays \/ "detail" \in stays => page' = page
         /\ stays \subseteq Parts
<1>1. Mounted' = Within(page', shown'["project"])
  BY ClientAssumption DEF Mounted, Displayed
<1>2. \/ stays = Parts /\ page' = page
      \/ stays = {"project", "page"} /\ page' = page
      \/ stays = {"project"} /\ page \in InProject /\ page' \in InProject
      \/ stays = {}
  BY DEF MayStay
<1>3. CASE "project" \in stays /\ page' = page
  <2>1. shown'["project"] = shown["project"]
    BY <1>3 DEF Parts
  <2>2. Mounted' = Mounted
    BY <1>3, <2>1, StillMounted
  <2>. QED BY <1>1, <1>2, <1>3, <2>2 DEF Parts
<1>4. CASE stays = {"project"} /\ page' \in InProject
  <2>1. "project" \in Within(page', shown'["project"])
    BY <1>4 DEF Within, PartsOf, InProject, Parts
  <2>. QED BY <1>1, <1>4, <2>1 DEF Parts
<1>. QED BY <1>1, <1>2, <1>3, <1>4 DEF Parts

\* What is mounted asks for what it shows; what stays goes on.
LEMMA ArriveStep ==
  ASSUME ClientInv, Arrive
  PROVE  ClientInv'
<1>1. /\ ready /\ page' \in Pages /\ page' = navigation.to
      /\ page' \in Private => user # None
  BY DEF Arrive, ClientInv, ClientTyped, Guarded, Navigations
<1>2. navigation' \in Navigations /\ navigation'.passed = FALSE
  BY StayingNowhere DEF Arrive
<1>3. CASE fatal \/ signingOut
  <2>1. UNCHANGED <<shown, requests>> /\ Mounted = {} /\ Mounted' = {}
    BY <1>3, MountedParts DEF Arrive, Mounted, Displayed
  <2>2. ClientTyped' /\ Guarded' /\ Identified'
    BY <1>1, <1>2, <2>1 DEF Arrive, ClientInv, ClientTyped, Guarded, Identified
  <2>3. ASSUME NEW r \in requests' PROVE Timely(r)'
    <3>1. Timely(r) /\ r.kind \notin ViewKinds
      BY <2>1 DEF ClientInv, Timely, TimelyView
    <3>. QED BY <1>1, <2>1, <3>1 DEF Arrive, Timely, TimelySession, TimelyView, ViewKinds, Actions
  <2>. QED BY <2>1, <2>2, <2>3, Together DEF ClientInv
<1>4. CASE ~fatal /\ ~signingOut
  <2>1. PICK stays \in MayStay(page, page') :
          /\ shown' = [part \in Parts |-> IF part \in stays THEN shown[part] ELSE None]
          /\ requests' = TornDown(requests, Parts \ stays)
                           \cup Loads(Within(page', shown'["project"]) \ stays)
    BY <1>1, <1>4 DEF Arrive
  <2>. DEFINE left == TornDown(requests, Parts \ stays)
              asked == Loads(Mounted' \ stays)
  <2>2. /\ Mounted' = Within(page', shown'["project"])
        /\ \A part \in stays : part \in Mounted => part \in Mounted'
        /\ "page" \in stays \/ "detail" \in stays => page' = page
        /\ stays \subseteq Parts
    BY <1>1, <1>4, <2>1, WhatStays DEF Arrive
  <2>3. \A part \in Parts : shown'[part] = IF part \in stays THEN shown[part] ELSE None
    BY <2>1
  <2>4. ClientTyped' /\ Guarded'
    BY <1>1, <1>2, <2>1 DEF Arrive, ClientInv, ClientTyped, Guarded, Somebody
  <2>5. Identified'
    BY <2>2, <2>3 DEF Arrive, ClientInv, Identified
  <2>6. Mounted' \subseteq Parts
    BY <2>2 DEF Within, PartsOf, Parts
  <2>7. /\ asked \subseteq ClientRequest /\ Alone(asked)
        /\ \A r \in asked :
             /\ r.kind = "load" /\ r.by \in Mounted' \ stays /\ r.as = cookie
             /\ r.follow = "nothing" /\ r.mine /\ Slots(r) = {r.by}
    <3>1. Mounted' \ stays \in SUBSET Parts /\ cookie \in Somebody
      BY <2>6 DEF ClientInv, ClientTyped
    <3>. HIDE DEF Mounted
    <3>. QED BY <3>1, AllLoaded
  <2>8. /\ left \subseteq ClientRequest /\ Alone(left)
        /\ \A r \in left : Timely(r) /\ (r.kind \in ViewKinds => r.by \in stays)
    <3>1. \A r \in left : r.kind \in ViewKinds => r.by \in Parts
      BY ViewLeft, MountedParts DEF Timely, TimelyView
    <3>. QED BY <3>1, ViewLeft
  <2>9. requests' = left \cup asked
    BY <2>1, <2>2
  <2>. HIDE DEF left, asked
  <2>10. Alone(requests')
    <3>1. ASSUME NEW r \in left, NEW s \in asked PROVE Slots(r) \cap Slots(s) = {}
      <4>1. Slots(s) = {s.by} /\ s.by \in Parts /\ s.by \notin stays
        BY <2>6, <2>7
      <4>2. s.by \notin Slots(r)
        BY <2>8, <4>1, LoadSlots DEF ViewKinds
      <4>. QED BY <4>1, <4>2
    <3>. QED BY <2>7, <2>8, <2>9, <3>1, AloneTogether
  <2>11. ASSUME NEW r \in left PROVE Timely(r)'
    <3>1. Timely(r) /\ (r.kind \in ViewKinds => r.by \in stays)
      BY <2>8
    <3>2. TimelySession(r)'
      BY <1>1, <3>1 DEF Timely, TimelySession, Arrive
    <3>3. r.kind \in ViewKinds => r.mine /\ r.by \in Mounted' /\ user \in {None, r.as}
      BY <2>2, <3>1 DEF Timely, TimelyView
    <3>4. r.kind \in {"chat", "upload"} => r.by = "page" /\ page' = "conversation"
      BY <2>2, <3>1 DEF Timely, TimelyView, ViewKinds, Actions
    <3>5. r.kind \in Actions /\ r.by # "project" => r.by = ActingPart'
      BY <2>2, <3>1 DEF Timely, TimelyView, ViewKinds, ActingPart
    <3>6. r.kind \in ViewKinds /\ r.by = "project" => shown'["project"] = shown["project"]
      BY <2>3, <3>1 DEF Parts
    <3>. QED BY <3>1, <3>2, <3>3, <3>4, <3>5, <3>6 DEF Timely, TimelyView, ViewKinds, Arrive
  <2>12. ASSUME NEW r \in asked PROVE Timely(r)'
    <3>1. /\ r.kind = "load" /\ r.by \in Mounted' /\ r.by \notin stays /\ r.as = cookie
          /\ r.follow = "nothing" /\ r.mine
      BY <2>7
    <3>2. r.by = "project" => shown'["project"] = None
      BY <2>3, <3>1 DEF Parts
    <3>3. user' \in {None, r.as}
      BY <3>1 DEF Arrive, ClientInv, Identified
    <3>. QED BY <3>1, <3>2, <3>3 DEF Timely, TimelySession, TimelyView, Actions, Awaited
  <2>. QED BY <2>4, <2>5, <2>7, <2>8, <2>9, <2>10, <2>11, <2>12, Together
<1>. QED BY <1>3, <1>4

\* What Invalidate leaves behind.
LEMMA Invalidated ==
  ASSUME ClientInv, Invalidate, page' = page, ~ready => page' = None
  PROVE  user' = None /\ ready' = TRUE /\ navigation' \in Navigations /\ Guarded'
<1>1. "login" \in Pages
  BY DEF Pages
<1>2. \/ navigation' \in Navigations /\ navigation'.passed = FALSE
      \/ navigation' = navigation /\ user = None
  BY <1>1, ToSomewhere DEF Invalidate
<1>. QED BY <1>2 DEF Invalidate, ClientInv, ClientTyped, Guarded

LEMMA LoginStep ==
  ASSUME ClientInv, NEW u \in People, Login(u)
  PROVE  ClientInv'
<1>. DEFINE asked == Ask("login", "page", u, "nothing")
            left == Overtaken(CancelAll(requests))
<1>1. ready /\ page = "login" /\ ~signingOut /\ "login" \notin Private
  BY ClientAssumption DEF Login, Displayed, ClientInv, Guarded, Private, InProject
<1>2. Guarded' /\ user' = None /\ navigation' \in Navigations
  BY <1>1, Invalidated DEF Login
<1>3. Mounted' = Mounted
  BY StillMounted DEF Login
<1>4. ClientTyped' /\ Identified'
  BY <1>1, <1>2, <1>3 DEF Login, Invalidate, ClientInv, ClientTyped, Identified, Somebody
<1>5. left = {}
  BY <1>1, OnlyChats, requests \in SUBSET requests
<1>6. requests' = {asked}
  BY <1>5 DEF Login
<1>7. u \in Somebody /\ "login" \in Kinds /\ "nothing" \in Follows /\ "page" \in Parts
  BY DEF Somebody, Kinds, SessionKinds, Follows, Parts
<1>8. asked \in ClientRequest /\ asked.kind = "login" /\ asked.follow = "nothing" /\ ~asked.heard
  BY <1>7, AskedFor
<1>. HIDE DEF asked
<1>9. requests' \subseteq ClientRequest /\ Alone(requests')
  BY <1>6, <1>8, AloneByItself
<1>10. \A r \in requests' : Timely(r)'
  BY <1>1, <1>2, <1>6, <1>8
     DEF Timely, TimelySession, TimelyView, Login, ViewKinds, Actions, Awaited, Pages
<1>. QED BY <1>2, <1>4, <1>9, <1>10, Together

LEMMA LogoutStep ==
  ASSUME ClientInv, Logout
  PROVE  ClientInv'
<1>. DEFINE asked == Ask("logout", None, cookie, "nothing")
            left == Overtaken(CancelAll(TornDown(requests, Parts)))
<1>1. ready
  BY DEF Logout, ClientInv, Guarded
<1>2. Guarded' /\ user' = None /\ navigation' \in Navigations
  BY <1>1, Invalidated DEF Logout
<1>3. shown' \in [Parts -> Somebody] /\ \A part \in Parts : shown'[part] = None
  BY DEF Logout, ShowsNothing, Somebody
<1>4. ClientTyped' /\ Identified'
  BY <1>2, <1>3 DEF Logout, Invalidate, ClientInv, ClientTyped, Identified, Somebody
<1>5. left = {}
  <2>1. \A r \in TornDown(requests, Parts) : r.kind \notin ViewKinds
    BY ViewLeft, MountedParts DEF Timely, TimelyView
  <2>. QED BY <2>1 DEF CancelAll, Overtaken, ViewKinds, Actions
<1>6. requests' = {asked}
  BY <1>5 DEF Logout
<1>7. cookie \in Somebody /\ "logout" \in Kinds /\ "nothing" \in Follows
  BY DEF ClientInv, ClientTyped, Kinds, SessionKinds, Follows
<1>8. asked \in ClientRequest /\ asked.kind = "logout" /\ asked.follow = "nothing"
  BY <1>7, AskedFor
<1>. HIDE DEF asked
<1>9. requests' \subseteq ClientRequest /\ Alone(requests')
  BY <1>6, <1>8, AloneByItself
<1>10. \A r \in requests' : Timely(r)'
  BY <1>6, <1>8 DEF Timely, TimelySession, TimelyView, Logout, ViewKinds, Actions, Awaited
<1>. QED BY <1>2, <1>4, <1>9, <1>10, Together

-----------------------------------------------------------------------------
(* What the view asks for *)

\* A part asks for something that nothing in S, what else is in flight, excludes.
LEMMA ViewAsks ==
  ASSUME ClientInv, NEW S \in SUBSET requests, NEW part \in Mounted,
         NEW k \in Actions, NEW next \in Follows \ Awaited,
         k # "act" => part = "page" /\ page = "conversation",
         IF part = "project" THEN shown["project"] # None ELSE part = ActingPart,
         next \in {"access", "reload", "again"} => k = "act" /\ part = "detail",
         \A s \in S : (IF part = "project" THEN "manage" ELSE "act") \notin Slots(s),
         requests' = S \cup {Ask(k, part, cookie, next)},
         UNCHANGED <<user, ready, cookie, page, navigation, fatal, signingOut, shown>>
  PROVE  ClientInv'
<1>. DEFINE asked == Ask(k, part, cookie, next)
<1>1. cookie \in Somebody /\ k \in Kinds /\ part \in Parts /\ next \in Follows
  BY MountedParts DEF ClientInv, ClientTyped, Kinds, ViewKinds
<1>2. /\ asked \in ClientRequest /\ asked.kind = k /\ asked.by = part /\ asked.as = cookie
      /\ asked.follow = next /\ asked.mine
  BY <1>1, AskedFor
<1>. HIDE DEF asked
<1>3. Slots(asked) = {IF part = "project" THEN "manage" ELSE "act"}
  BY <1>2 DEF Slots, SessionKinds, Actions
<1>4. S \subseteq ClientRequest /\ Alone(S) /\ \A r \in S : Timely(r)
  BY AloneInPart DEF ClientInv
<1>5. \A s \in S, t \in {asked} : Slots(s) \cap Slots(t) = {}
  BY <1>3
<1>6. requests' = S \cup {asked}
  BY DEF asked
<1>7. Alone(requests')
  <2>1. Alone({asked})
    BY AloneByItself
  <2>2. Alone(S \cup {asked})
    BY <1>4, <1>5, <2>1, AloneTogether
  <2>. QED BY <1>6, <2>2
<1>8. Timely(asked)
  <2>1. user \in {None, cookie}
    BY DEF ClientInv, Identified
  <2>2. TimelySession(asked)
    BY <1>2 DEF TimelySession, Actions
  <2>3. asked.by = "project" => shown["project"] # None
    BY <1>2
  <2>4. asked.by # "project" => asked.by = ActingPart
    BY <1>2
  <2>5. asked.kind \in Actions /\ asked.kind # "load" /\ asked.follow \notin Awaited
    BY <1>2 DEF Actions
  <2>6. asked.kind # "act" => asked.by = "page" /\ page = "conversation"
    BY <1>2
  <2>. QED BY <1>2, <2>1, <2>2, <2>3, <2>4, <2>5, <2>6 DEF Timely, TimelyView
<1>9. \A r \in requests' : Timely(r)
  BY <1>4, <1>6, <1>8
<1>10. requests' \subseteq ClientRequest
  BY <1>2, <1>4, <1>6
<1>. QED BY <1>7, <1>9, <1>10, RequestsChange

\* Whose action it is.
LEMMA Acting ==
  ASSUME ClientInv, NEW r \in requests
  PROVE  /\ "manage" \in Slots(r) => r.kind = "act" /\ r.by = "project" /\ r.mine
         /\ "act" \in Slots(r) =>
              \/ r.kind \in Actions /\ r.by = ActingPart /\ r.mine
              \/ r.kind = "load" /\ r.follow \in Awaited /\ r.mine
<1>1. Timely(r)
  BY DEF ClientInv
<1>2. r.kind = "load" => r.by \in Parts
  BY <1>1, MountedParts DEF Timely, TimelyView, ViewKinds
<1>. QED BY <1>1, <1>2 DEF Timely, TimelyView, Slots, ViewKinds, Actions, SessionKinds, Parts

LEMMA PerformStep ==
  ASSUME ClientInv, NEW part, NEW k \in {"act", "chat"}, NEW next \in Follows \ Awaited,
         k # "act" => part = "page" /\ page = "conversation",
         IF part = "project" THEN shown["project"] # None ELSE part = ActingPart,
         next \in {"access", "reload", "again"} => k = "act" /\ part = "detail",
         Perform(k, part, next)
  PROVE  ClientInv'
<1>. DEFINE rest == {r \in requests : ~(r.kind = "upload" /\ r.by = part)}
<1>1. /\ part \in Mounted /\ ~Busy(part) /\ requests' = rest \cup {Ask(k, part, cookie, next)}
      /\ UNCHANGED <<user, ready, cookie, page, navigation, fatal, signingOut, shown>>
  BY DEF Perform
<1>2. ASSUME NEW s \in rest
      PROVE  (IF part = "project" THEN "manage" ELSE "act") \notin Slots(s)
  <2>1. CASE part = "project" /\ "manage" \in Slots(s)
    BY <1>1, <2>1, Acting DEF Busy, Of
  <2>2. CASE part # "project" /\ "act" \in Slots(s)
    <3>1. \/ s.kind \in Actions /\ s.by = part /\ s.mine
          \/ s.kind = "load" /\ s.follow \in Awaited /\ s.mine
      BY <2>2, Acting
    <3>. QED BY <1>1, <2>2, <3>1 DEF Busy, Of, Actions
  <2>. QED BY <2>1, <2>2
<1>3. rest \in SUBSET requests /\ k \in Actions
  BY DEF Actions
<1>. HIDE DEF rest
<1>. QED BY <1>1, <1>2, <1>3, ViewAsks

LEMMA UploadStep ==
  ASSUME ClientInv, Upload
  PROVE  ClientInv'
<1>1. /\ page = "conversation" /\ "page" \in Mounted /\ ~Busy("page") /\ Of({"upload"}) = {}
      /\ requests' = requests \cup {Ask("upload", "page", cookie, "nothing")}
      /\ UNCHANGED <<user, ready, cookie, page, navigation, fatal, signingOut, shown>>
  BY DEF Upload, Converses
<1>2. ActingPart = "page"
  BY <1>1 DEF ActingPart
<1>3. ASSUME NEW s \in requests PROVE "act" \notin Slots(s)
  BY <1>1, <1>2, Acting DEF Busy, Of, Actions
<1>4. "upload" \in Actions /\ "nothing" \in Follows \ Awaited
  BY DEF Actions, Follows, Awaited
<1>. QED BY <1>1, <1>2, <1>3, <1>4, ViewAsks, requests \in SUBSET requests

\* A part of the view has nothing to show while it is loaded.
LEMMA ReloadStep ==
  ASSUME ClientInv, NEW S \in SUBSET requests, NEW part \in Mounted,
         NEW next \in {"nothing"} \cup Awaited,
         next \in Awaited => part = "detail" /\ \A s \in S : "act" \notin Slots(s),
         part = "project" => shown["project"] = None,
         requests' = Reloaded(S, part, next), shown' = [shown EXCEPT ![part] = None],
         UNCHANGED <<user, ready, cookie, page, navigation, fatal, signingOut>>
  PROVE  ClientInv'
<1>1. S \in SUBSET ClientRequest /\ Alone(S) /\ \A s \in S : Timely(s)
  BY AloneInPart DEF ClientInv
<1>2. requests' \subseteq ClientRequest /\ Alone(requests') /\ \A r \in requests' : Timely(r)
  BY <1>1, Reloading
<1>3. part \in Parts /\ shown \in [Parts -> Somebody] /\ None \in Somebody
  BY MountedParts DEF ClientInv, ClientTyped, Somebody
<1>4. shown' \in [Parts -> Somebody] /\ (shown'["project"] = None <=> shown["project"] = None)
  BY <1>3 DEF Parts
<1>5. \A p \in Parts : shown'[p] # None => p \in Mounted /\ user \in {None, shown'[p]}
  BY <1>3 DEF ClientInv, Identified
<1>. QED BY <1>2, <1>4, <1>5, ViewChanges

LEMMA RetryStep ==
  ASSUME ClientInv, RetryLoad
  PROVE  ClientInv'
<1>1. PICK part \in Mounted :
        shown[part] = None /\ requests' = Reloaded(requests, part, "nothing")
  BY DEF RetryLoad
<1>2. requests \in SUBSET ClientRequest /\ "nothing" \in {"nothing"} \cup Awaited
      /\ "nothing" \notin Awaited
  BY DEF ClientInv, Awaited
<1>3. requests' \subseteq ClientRequest /\ Alone(requests') /\ \A r \in requests' : Timely(r)
  BY <1>1, <1>2, Reloading DEF ClientInv
<1>. QED BY <1>3, RequestsChange DEF RetryLoad

LEMMA ViewStep ==
  ASSUME ClientInv,
         \/ Create \/ UpdateProject \/ CreateConversation
         \/ Update \/ ExtractDelta \/ RunAgent \/ ResumeAgent \/ Review \/ Chat
         \/ Refresh \/ Resolve \/ Finalize
  PROVE  ClientInv'
<1>1. /\ {"nothing", "access", "reload", "again", "overview", "conversation", "merge"}
           \subseteq Follows \ Awaited
      /\ "act" \in {"act", "chat"} /\ "chat" \in {"act", "chat"}
  BY DEF Follows, Awaited
<1>2. CASE Create \/ CreateConversation
  <2>1. ActingPart = "page"
    BY <1>2 DEF Create, CreateConversation, ActingPart
  <2>. QED BY <1>1, <1>2, <2>1, PerformStep DEF Create, CreateConversation
<1>3. CASE UpdateProject
  BY <1>1, <1>3, PerformStep DEF UpdateProject
<1>4. CASE Update \/ ExtractDelta \/ RunAgent \/ ResumeAgent \/ Review \/ Chat
  <2>1. page = "conversation" /\ ActingPart = "page"
    BY <1>4 DEF Update, ExtractDelta, RunAgent, ResumeAgent, Review, Chat, Converses, ActingPart
  <2>. QED
    BY <1>1, <1>4, <2>1, PerformStep
       DEF Update, ExtractDelta, RunAgent, ResumeAgent, Review, Chat
<1>5. CASE Refresh \/ Resolve \/ Finalize
  <2>1. ActingPart = "detail"
    BY <1>5 DEF Refresh, Resolve, Finalize, ActingPart
  <2>. QED BY <1>1, <1>5, <2>1, PerformStep DEF Refresh, Resolve, Finalize
<1>. QED BY <1>2, <1>3, <1>4, <1>5

-----------------------------------------------------------------------------
(* Answers *)

\* Nobody is signed in while a request that changes the cookie is in flight, and
\* nothing else is that depends on it.
LEMMA HearStep ==
  ASSUME ClientInv, NEW r \in requests, Hear(r)
  PROVE  ClientInv'
<1>. DEFINE heard == [r EXCEPT !.heard = TRUE]
<1>1. r \in ClientRequest /\ Timely(r) /\ r.kind \in SessionKinds
  BY DEF ClientInv, Hear
<1>2. heard \in ClientRequest /\ Alike(heard, r) /\ heard.mine = r.mine
  BY <1>1, HeardOf
<1>3. requests' = (requests \ {r}) \cup {heard}
  BY DEF Hear
<1>. HIDE DEF heard
<1>4. cookie' \in Somebody /\ (user # None => cookie' = cookie)
  <2>1. (r.kind = "logout" => signingOut) /\ (r.kind = "login" => user = None)
    BY <1>1 DEF Timely, TimelySession
  <2>. QED BY <1>1, <2>1, Fields DEF Hear, CookieAfter, Somebody, ClientInv, ClientTyped, Identified
<1>5. Mounted' = Mounted
  BY StillMounted DEF Hear
<1>6. ClientTyped' /\ Guarded' /\ Identified'
  BY <1>4, <1>5 DEF Hear, ClientInv, ClientTyped, Guarded, Identified
<1>7. Slots(heard) = Slots(r)
  BY <1>2, AlikeSlots
<1>8. Alone(requests')
  <2>1. Alone(requests \ {r}) /\ Alone({heard})
    BY AloneInPart, AloneByItself DEF ClientInv
  <2>2. \A s \in requests \ {r}, t \in {heard} : Slots(s) \cap Slots(t) = {}
    BY <1>7 DEF ClientInv, Alone
  <2>. QED BY <1>3, <2>1, <2>2, AloneTogether
<1>9. ASSUME NEW s \in requests \ {r} PROVE Timely(s)'
  <2>1. Timely(s)
    BY DEF ClientInv
  <2>2. s.kind \notin SessionKinds
    BY <1>1 DEF ClientInv, Alone, Slots
  <2>. QED
    BY <1>5, <2>1, <2>2 DEF Timely, TimelySession, TimelyView, SessionKinds, Hear, ActingPart
<1>10. Timely(heard)'
  BY <1>1, <1>2, <1>5
     DEF Timely, TimelySession, TimelyView, Alike, Hear, CookieAfter, SessionKinds, ViewKinds,
         Actions, ActingPart
<1>11. requests' \subseteq ClientRequest
  BY <1>2, <1>3 DEF ClientInv
<1>12. \A s \in requests' : Timely(s)'
  BY <1>3, <1>9, <1>10
<1>. QED BY <1>6, <1>8, <1>11, <1>12, Together

\* The list of requests is loaded again, if a review has waited.
LEMMA WhenUpdated ==
  ASSUME ClientInv, NEW W \in SUBSET requests,
         NEW S \in SUBSET ClientRequest, Alone(S), \A s \in S : Timely(s)
  PROVE  /\ Updates(W, S) \subseteq ClientRequest /\ Alone(Updates(W, S))
         /\ \A r \in Updates(W, S) : Timely(r) /\ (r \in S \/ r.kind = "load")
         /\ ShownAfter(W) \in [Parts -> Somebody]
         /\ ShownAfter(W)["project"] = shown["project"]
         /\ \A part \in Parts : ShownAfter(W)[part] \in {shown[part], None}
<1>1. shown \in [Parts -> Somebody] /\ None \in Somebody /\ "page" \in Parts /\ "project" \in Parts
  BY DEF ClientInv, ClientTyped, Somebody, Parts
<1>2. CASE "updated" \in {r.follow : r \in W}
  <2>1. PICK w \in W : w.follow = "updated"
    BY <1>2
  <2>2. Timely(w)
    BY DEF ClientInv
  <2>3. "detail" \in Mounted
    BY <2>1, <2>2 DEF Timely, TimelyView, Awaited, ViewKinds
  <2>4. "page" \in Mounted
    BY <1>1, <2>3, MountedParts
  <2>5. "nothing" \in {"nothing"} \cup Awaited /\ "nothing" \notin Awaited
    BY DEF Awaited
  <2>6. /\ Reloaded(S, "page", "nothing") \subseteq ClientRequest
        /\ Alone(Reloaded(S, "page", "nothing"))
        /\ \A r \in Reloaded(S, "page", "nothing") : Timely(r)
    BY <2>4, <2>5, Reloading
  <2>7. \A r \in Reloaded(S, "page", "nothing") : r \in S \/ r.kind = "load"
    BY DEF Reloaded, Ask
  <2>8. /\ Updates(W, S) = Reloaded(S, "page", "nothing")
        /\ ShownAfter(W) = [shown EXCEPT !["page"] = None]
    BY <1>2 DEF Updates, ShownAfter
  <2>. QED BY <1>1, <2>6, <2>7, <2>8
<1>3. CASE "updated" \notin {r.follow : r \in W}
  <2>1. Updates(W, S) = S /\ ShownAfter(W) = shown
    BY <1>3 DEF Updates, ShownAfter
  <2>. QED BY <1>1, <2>1
<1>. QED BY <1>2, <1>3

LEMMA UnauthorizedStep ==
  ASSUME ClientInv, NEW r \in requests, Unauthorized(r)
  PROVE  ClientInv'
<1>. DEFINE left == Overtaken(CancelAll(requests \ {r}))
<1>1. ~signingOut
  <2>1. r.kind \in Kinds \ {"logout"} /\ Timely(r)
    BY Fields DEF ClientInv, Unauthorized
  <2>. QED
    BY <2>1, MountedParts
       DEF ClientInv, Guarded, Timely, TimelySession, TimelyView, Kinds, SessionKinds
<1>2. Guarded' /\ user' = None /\ navigation' \in Navigations
  <2>1. ~ready => page' = None
    BY DEF Unauthorized, ClientInv, Guarded
  <2>. QED BY <2>1, Invalidated DEF Unauthorized
<1>3. /\ left \in SUBSET ClientRequest /\ Alone(left)
      /\ \A s \in left : s.kind = "chat" /\ Timely(s)
  BY OnlyChats, requests \ {r} \in SUBSET requests
<1>4. requests' = Updates(requests, left) /\ shown' = ShownAfter(requests)
  BY DEF Unauthorized
<1>. HIDE DEF left
<1>5. /\ requests' \subseteq ClientRequest /\ Alone(requests')
      /\ \A s \in requests' : Timely(s) /\ s.kind \in {"chat", "load"}
      /\ shown' \in [Parts -> Somebody] /\ shown'["project"] = shown["project"]
      /\ \A part \in Parts : shown'[part] \in {shown[part], None}
  BY <1>3, <1>4, WhenUpdated, requests \in SUBSET requests
<1>6. Mounted' = Mounted
  BY <1>5, StillMounted DEF Unauthorized
<1>7. ClientTyped' /\ Identified'
  BY <1>1, <1>2, <1>5, <1>6
     DEF Unauthorized, Invalidate, ClientInv, ClientTyped, Identified, Somebody
<1>8. ASSUME NEW s \in requests' PROVE Timely(s)'
  <2>1. Timely(s) /\ s.kind \in {"chat", "load"}
    BY <1>5
  <2>2. TimelyView(s)'
    BY <1>2, <1>5, <1>6, <2>1 DEF Timely, TimelyView, Unauthorized, ActingPart
  <2>. QED BY <2>1, <2>2 DEF Timely, TimelySession
<1>. QED BY <1>2, <1>5, <1>7, <1>8, Together

LEMMA BootstrapEndsStep ==
  ASSUME ClientInv, NEW r \in requests, BootstrapEnds(r)
  PROVE  ClientInv'
<1>1. r \in ClientRequest /\ r.kind = "bootstrap" /\ ~ready /\ r.as = cookie /\ r.as \in Somebody
  BY Fields DEF ClientInv, Timely, TimelySession, BootstrapEnds
<1>2. user = None /\ page = None /\ ~signingOut /\ ~navigation.passed
  BY <1>1 DEF ClientInv, Guarded
<1>3. Mounted = {} /\ Mounted' = {}
  BY <1>2 DEF BootstrapEnds, Mounted, Displayed
<1>4. ClientTyped' /\ Guarded' /\ Identified'
  BY <1>1, <1>2, <1>3 DEF BootstrapEnds, ClientInv, ClientTyped, Guarded, Identified
<1>5. ASSUME NEW s \in requests PROVE s = r
  <2>1. s.kind \in Kinds /\ Timely(s) /\ None \notin Pages
    BY Fields, ClientAssumption DEF ClientInv
  <2>2. s.kind \in SessionKinds
    BY <1>3, <2>1 DEF Timely, TimelyView, Kinds
  <2>3. "session" \in Slots(r) /\ "session" \in Slots(s)
    BY <1>1, <2>2 DEF Slots, SessionKinds
  <2>. QED BY <2>3 DEF ClientInv, Alone
<1>6. requests' = {}
  BY <1>5 DEF BootstrapEnds
<1>. QED BY <1>4, <1>6, Together DEF Alone

LEMMA BootstrapFailsStep ==
  ASSUME ClientInv, NEW r \in requests, BootstrapFails(r)
  PROVE  ClientInv'
<1>1. ~ready
  BY DEF ClientInv, Timely, TimelySession, BootstrapFails
<1>2. page = None /\ Mounted = {} /\ Mounted' = {}
  BY <1>1 DEF ClientInv, Guarded, BootstrapFails, Mounted, Displayed
<1>3. ClientTyped' /\ Guarded' /\ Identified'
  BY <1>2, StayingNowhere DEF BootstrapFails, ClientInv, ClientTyped, Guarded, Identified
<1>4. requests' \subseteq ClientRequest /\ Alone(requests')
  BY AloneInPart DEF ClientInv, BootstrapFails
<1>5. \A s \in requests' : Timely(s)'
  BY <1>2 DEF ClientInv, Timely, TimelySession, TimelyView, BootstrapFails, ActingPart
<1>. QED BY <1>3, <1>4, <1>5, Together

\* Whoever is signed in by it has the cookie, and is shown nothing yet.
LEMMA LoginEndsStep ==
  ASSUME ClientInv, NEW r \in requests, LoginEnds(r)
  PROVE  ClientInv'
<1>1. /\ r.kind = "login" /\ cookie = r.as /\ r.as \in Somebody
      /\ page \in Pages \ Private /\ ~signingOut /\ user = None
  BY Fields DEF ClientInv, Timely, TimelySession, LoginEnds
<1>2. ready /\ Mounted = {} /\ Mounted' = {}
  BY <1>1, ClientAssumption, MountedParts DEF ClientInv, Guarded, LoginEnds, Mounted, Displayed
<1>3. navigation' \in Navigations /\ navigation'.passed = FALSE
  <2>1. "projects" \in Pages
    BY DEF Pages, Private
  <2>. QED BY <2>1, ToSomewhere DEF LoginEnds
<1>4. ClientTyped' /\ Guarded' /\ Identified'
  BY <1>1, <1>2, <1>3 DEF LoginEnds, ClientInv, ClientTyped, Guarded, Identified
<1>5. requests' \subseteq ClientRequest /\ Alone(requests')
  BY AloneInPart DEF ClientInv, LoginEnds
<1>6. ASSUME NEW s \in requests' PROVE Timely(s)'
  <2>1. s \in requests /\ s # r /\ Timely(s)
    BY DEF LoginEnds, ClientInv
  <2>2. s.kind \notin SessionKinds
    BY <1>1, <2>1 DEF ClientInv, Alone, Slots, SessionKinds
  <2>3. s.kind \notin ViewKinds
    BY <1>2, <2>1 DEF Timely, TimelyView
  <2>. QED
    BY <2>1, <2>2, <2>3 DEF Timely, TimelySession, TimelyView, SessionKinds, ViewKinds, Actions
<1>. QED BY <1>4, <1>5, <1>6, Together

LEMMA NothingButTheLogout ==
  ASSUME ClientInv, NEW r \in requests, r.kind = "logout"
  PROVE  /\ signingOut /\ ready /\ user = None /\ Mounted = {}
         /\ \A part \in Parts : shown[part] = None
         /\ requests \ {r} = {}
<1>1. signingOut
  BY DEF ClientInv, Timely, TimelySession
<1>2. ready /\ user = None /\ Mounted = {}
  BY <1>1, MountedParts DEF ClientInv, Guarded, Identified
<1>3. \A part \in Parts : shown[part] = None
  BY <1>2 DEF ClientInv, Identified
<1>4. ASSUME NEW s \in requests PROVE s = r
  <2>1. s.kind \in Kinds /\ Timely(s)
    BY Fields DEF ClientInv
  <2>2. s.kind \in SessionKinds
    BY <1>2, <2>1 DEF Timely, TimelyView, Kinds
  <2>3. "session" \in Slots(r) /\ "session" \in Slots(s)
    BY <2>2 DEF Slots, SessionKinds
  <2>. QED BY <2>3 DEF ClientInv, Alone
<1>. QED BY <1>1, <1>2, <1>3, <1>4

LEMMA LogoutEndsStep ==
  ASSUME ClientInv, NEW r \in requests, LogoutEnds(r)
  PROVE  ClientInv'
<1>1. /\ signingOut /\ ready /\ user = None /\ requests \ {r} = {}
      /\ \A part \in Parts : shown[part] = None
  BY NothingButTheLogout DEF LogoutEnds
<1>2. ClientTyped' /\ Guarded' /\ Identified'
  BY <1>1 DEF LogoutEnds, ClientInv, ClientTyped, Guarded, Identified
<1>3. Mounted' = IF fatal \/ page = None THEN {} ELSE Within(page, None)
  BY <1>1 DEF LogoutEnds, Mounted, Displayed, Parts
<1>4. requests' = Loads(Mounted')
  BY <1>1, <1>3 DEF LogoutEnds, Loads
<1>5. /\ requests' \subseteq ClientRequest /\ Alone(requests')
      /\ \A s \in requests' :
           s.kind = "load" /\ s.by \in Mounted' /\ s.follow = "nothing" /\ s.mine
  <2>1. Mounted' \in SUBSET Parts /\ cookie \in Somebody
    BY <1>3 DEF Within, PartsOf, Parts, ClientInv, ClientTyped
  <2>. HIDE DEF Mounted
  <2>. QED BY <1>4, <2>1, AllLoaded
<1>6. \A s \in requests' : Timely(s)'
  BY <1>1, <1>5
     DEF Timely, TimelySession, TimelyView, LogoutEnds, Actions, Awaited, Parts
<1>. QED BY <1>2, <1>5, <1>6, Together

LEMMA LogoutFailsStep ==
  ASSUME ClientInv, NEW r \in requests, LogoutFails(r)
  PROVE  ClientInv'
<1>1. /\ signingOut /\ ready /\ user = None /\ requests \ {r} = {}
      /\ \A part \in Parts : shown[part] = None
  BY NothingButTheLogout DEF LogoutFails
<1>2. ClientTyped' /\ Guarded' /\ Identified'
  BY <1>1 DEF LogoutFails, ClientInv, ClientTyped, Guarded, Identified
<1>3. requests' = {}
  BY <1>1 DEF LogoutFails
<1>. QED BY <1>2, <1>3, Together DEF Alone

\* What a part of the view has asked for is asked while that is mounted.
LEMMA Asking ==
  ASSUME ClientInv, NEW r \in requests, r.kind \in ViewKinds
  PROVE  /\ r \in ClientRequest /\ Timely(r) /\ r.as \in Somebody
         /\ r.by \in Mounted /\ r.by \in Parts /\ user \in {None, r.as}
         /\ requests \ {r} \in SUBSET ClientRequest /\ Alone(requests \ {r})
         /\ \A s \in requests \ {r} : Timely(s) /\ Slots(s) \cap Slots(r) = {}
<1>1. r \in ClientRequest /\ Timely(r)
  BY DEF ClientInv
<1>2. r.by \in Mounted /\ user \in {None, r.as}
  BY <1>1 DEF Timely, TimelyView
<1>3. requests \ {r} \in SUBSET ClientRequest /\ Alone(requests \ {r})
  BY AloneInPart DEF ClientInv
<1>4. \A s \in requests \ {r} : Timely(s) /\ Slots(s) \cap Slots(r) = {}
  BY DEF ClientInv, Alone
<1>. QED BY <1>1, <1>2, <1>3, <1>4, Fields, MountedParts

\* A part of the view shows what has been read for it.
LEMMA ShowStep ==
  ASSUME ClientInv, NEW r \in requests, r.kind \in ViewKinds, r.as # None,
         NEW part \in Mounted, part = "project" => shown["project"] # None,
         NEW before \in [Parts -> Somebody], before["project"] = shown["project"],
         \A p \in Parts : before[p] \in {shown[p], None},
         shown' = [before EXCEPT ![part] = r.as],
         requests' \subseteq ClientRequest, Alone(requests'), \A s \in requests' : Timely(s),
         UNCHANGED <<user, ready, cookie, page, navigation, fatal, signingOut>>
  PROVE  ClientInv'
<1>1. r.as \in Somebody /\ user \in {None, r.as} /\ part \in Parts
  BY Asking, MountedParts
<1>2. shown' \in [Parts -> Somebody] /\ "project" \in Parts
  BY <1>1 DEF Parts
<1>3. (shown'["project"] = None) <=> (shown["project"] = None)
  BY <1>2
<1>4. \A p \in Parts : shown'[p] # None => p \in Mounted /\ user \in {None, shown'[p]}
  BY <1>1 DEF ClientInv, Identified
<1>. QED BY <1>2, <1>3, <1>4, ViewChanges

\* ProjectView mounts what is in it, which asks for what it shows.
LEMMA ProjectLoadEndsStep ==
  ASSUME ClientInv, NEW r \in requests, LoadEnds(r), r.by = "project"
  PROVE  ClientInv'
<1>. DEFINE rest == requests \ {r}
            inner == PartsOf(page) \ {"project"}
<1>1. /\ r \in ClientRequest /\ Timely(r) /\ r.kind = "load" /\ r.as \in Somebody \ {None}
      /\ "project" \in Mounted /\ user \in {None, r.as}
      /\ rest \in SUBSET ClientRequest /\ Alone(rest)
      /\ \A s \in rest : Timely(s) /\ Slots(s) \cap Slots(r) = {}
  BY Asking DEF LoadEnds, ViewKinds
<1>2. shown["project"] = None /\ r.follow # "updated"
  BY <1>1 DEF Timely, TimelyView, Awaited
<1>3. /\ requests' = rest \cup Loads(inner)
      /\ shown' = [shown EXCEPT !["project"] = r.as]
  BY <1>2 DEF LoadEnds, Updates, ShownAfter
<1>4. page \in InProject /\ Mounted = {"project"} /\ ~fatal /\ ~signingOut /\ page # None
  BY <1>1, <1>2, MountedParts DEF Mounted, Displayed, Within
<1>5. shown \in [Parts -> Somebody] /\ "project" \in Parts
  BY DEF ClientInv, ClientTyped, Parts
<1>6. shown' \in [Parts -> Somebody] /\ shown'["project"] = r.as
  BY <1>1, <1>3, <1>5
<1>7. Mounted' = PartsOf(page)
  BY <1>1, <1>4, <1>6 DEF LoadEnds, Mounted, Displayed, Within
<1>8. "project" \in PartsOf(page) /\ PartsOf(page) \subseteq Parts
  BY <1>4 DEF PartsOf, InProject, Parts
<1>9. ClientTyped' /\ Guarded'
  BY <1>6 DEF LoadEnds, ClientInv, ClientTyped, Guarded
<1>10. Identified'
  <2>1. ASSUME NEW part \in Parts, shown'[part] # None
        PROVE  part \in Mounted' /\ user \in {None, shown'[part]}
    BY <1>1, <1>3, <1>4, <1>5, <1>6, <1>7, <1>8, <2>1 DEF ClientInv, Identified
  <2>. QED BY <2>1 DEF LoadEnds, ClientInv, Identified
<1>11. ASSUME NEW s \in rest PROVE s.kind \notin ViewKinds /\ Timely(s)
  <2>1. Timely(s) /\ "project" \notin Slots(s)
    BY <1>1, <1>5, LoadSlots
  <2>2. s.kind \in ViewKinds => s.by = "project"
    BY <1>4, <2>1 DEF Timely, TimelyView
  <2>. QED BY <1>2, <1>5, <2>1, <2>2, LoadSlots DEF Timely, TimelyView, ViewKinds
<1>12. /\ Loads(inner) \subseteq ClientRequest /\ Alone(Loads(inner))
       /\ \A s \in Loads(inner) :
            /\ s.kind = "load" /\ s.by \in inner /\ s.as = cookie /\ s.follow = "nothing" /\ s.mine
            /\ Slots(s) = {s.by}
  <2>1. cookie \in Somebody /\ inner \in SUBSET Parts
    BY <1>8 DEF ClientInv, ClientTyped
  <2>. HIDE DEF inner
  <2>. QED BY <2>1, AllLoaded
<1>13. Alone(requests')
  <2>1. ASSUME NEW s \in rest, NEW t \in Loads(inner) PROVE Slots(s) \cap Slots(t) = {}
    <3>1. Slots(t) = {t.by} /\ t.by \in Parts
      BY <1>8, <1>12
    <3>2. t.by \notin Slots(s)
      BY <1>11, <3>1, LoadSlots DEF ViewKinds
    <3>. QED BY <3>1, <3>2
  <2>. QED BY <1>1, <1>3, <1>12, <2>1, AloneTogether
<1>14. ASSUME NEW s \in rest PROVE Timely(s)'
  BY <1>11 DEF LoadEnds, Timely, TimelySession, TimelyView, ViewKinds, Actions
<1>15. ASSUME NEW s \in Loads(inner) PROVE Timely(s)'
  <2>1. /\ s.kind = "load" /\ s.by \in Mounted' /\ s.by # "project" /\ s.as = cookie
        /\ s.follow = "nothing" /\ s.mine
    BY <1>7, <1>12
  <2>2. user' \in {None, s.as}
    BY <2>1 DEF LoadEnds, ClientInv, Identified
  <2>. QED BY <2>1, <2>2 DEF Timely, TimelySession, TimelyView, Actions, Awaited
<1>16. requests' \subseteq ClientRequest /\ \A s \in requests' : Timely(s)'
  BY <1>1, <1>3, <1>12, <1>14, <1>15
<1>. QED BY <1>9, <1>10, <1>13, <1>16, Together

LEMMA LoadEndsStep ==
  ASSUME ClientInv, NEW r \in requests, LoadEnds(r)
  PROVE  ClientInv'
<1>. DEFINE rest == requests \ {r}
<1>1. /\ r.kind \in ViewKinds /\ r.by \in Mounted /\ r.as # None
      /\ rest \in SUBSET ClientRequest /\ Alone(rest) /\ \A s \in rest : Timely(s)
  BY Asking DEF LoadEnds, ViewKinds
<1>. HIDE DEF rest
<1>2. CASE r.by # "project"
  <2>. DEFINE before == ShownAfter({r})
  <2>1. requests' = Updates({r}, rest) /\ shown' = [before EXCEPT ![r.by] = r.as]
    BY <1>2 DEF LoadEnds, rest
  <2>2. {r} \in SUBSET requests
    OBVIOUS
  <2>3. /\ requests' \subseteq ClientRequest /\ Alone(requests') /\ \A s \in requests' : Timely(s)
        /\ before \in [Parts -> Somebody] /\ before["project"] = shown["project"]
        /\ \A p \in Parts : before[p] \in {shown[p], None}
    BY <1>1, <2>1, <2>2, WhenUpdated
  <2>4. UNCHANGED <<user, ready, cookie, page, navigation, fatal, signingOut>>
    BY DEF LoadEnds
  <2>. HIDE DEF before
  <2>. QED BY <1>1, <1>2, <2>1, <2>3, <2>4, ShowStep
<1>. QED BY <1>2, ProjectLoadEndsStep

LEMMA LoadFailsStep ==
  ASSUME ClientInv, NEW r \in requests, LoadFails(r)
  PROVE  ClientInv'
<1>. DEFINE rest == requests \ {r}
<1>1. rest \in SUBSET ClientRequest /\ Alone(rest) /\ \A s \in rest : Timely(s)
  BY Asking DEF LoadFails, ViewKinds
<1>2. requests' = Updates({r}, rest) /\ shown' = ShownAfter({r}) /\ {r} \in SUBSET requests
  BY DEF LoadFails
<1>. HIDE DEF rest
<1>3. /\ requests' \subseteq ClientRequest /\ Alone(requests') /\ \A s \in requests' : Timely(s)
      /\ shown' \in [Parts -> Somebody] /\ shown'["project"] = shown["project"]
      /\ \A part \in Parts : shown'[part] \in {shown[part], None}
  BY <1>1, <1>2, WhenUpdated
<1>4. \A part \in Parts : shown'[part] # None => part \in Mounted /\ user \in {None, shown'[part]}
  BY <1>3 DEF ClientInv, Identified
<1>. QED BY <1>3, <1>4, ViewChanges DEF LoadFails

LEMMA ActEndsStep ==
  ASSUME ClientInv, NEW r \in requests, ActEnds(r)
  PROVE  ClientInv'
<1>. DEFINE rest == requests \ {r}
<1>1. /\ r.kind \in ViewKinds /\ r.by \in Mounted /\ r.as # None /\ Timely(r)
      /\ rest \in SUBSET ClientRequest /\ Alone(rest) /\ \A s \in rest : Timely(s)
  BY Asking DEF ActEnds, ViewKinds, Actions
<1>2. requests' = rest
  BY DEF ActEnds
<1>. HIDE DEF rest
<1>3. CASE r.follow = "nothing"
  <2>1. r.by = "project" => shown["project"] # None
    BY <1>1 DEF ActEnds, Timely, TimelyView, Actions
  <2>2. /\ shown' = [shown EXCEPT ![r.by] = r.as]
        /\ UNCHANGED <<user, ready, cookie, page, navigation, fatal, signingOut>>
    BY <1>3 DEF ActEnds
  <2>3. shown \in [Parts -> Somebody]
    BY DEF ClientInv, ClientTyped
  <2>. QED BY <1>1, <1>2, <2>1, <2>2, <2>3, ShowStep
<1>4. CASE r.follow # "nothing"
  <2>1. r.follow \in Pages
    <3>1. r.follow \in Follows /\ r.follow \notin Awaited
      BY <1>1, Fields DEF ClientInv, Timely, TimelyView, ActEnds
    <3>. QED BY <1>4, <3>1 DEF ActEnds, Follows, Pages, Private, InProject
  <2>. QED BY <1>1, <1>2, <1>4, <2>1, RequestsChange DEF ActEnds
<1>. QED BY <1>3, <1>4

\* What the action of a page takes, nobody else has.
LEMMA ActsAlone ==
  ASSUME ClientInv, NEW r \in requests, r.kind \in Actions, r.by # "project"
  PROVE  \A s \in requests \ {r} : "act" \notin Slots(s)
<1>1. "act" \in Slots(r)
  BY DEF Slots
<1>. QED BY <1>1 DEF ClientInv, Alone

LEMMA FinalizeEndsStep ==
  ASSUME ClientInv, NEW r \in requests, FinalizeEnds(r)
  PROVE  ClientInv'
<1>1. r.kind = "act" /\ r.by = "detail" /\ r.by = ActingPart /\ r.by \in Mounted
  BY Asking DEF FinalizeEnds, ViewKinds, Actions, Timely, TimelyView
<1>2. \A s \in requests \ {r} : "act" \notin Slots(s)
  BY <1>1, ActsAlone DEF Actions
<1>3. "act" \in Actions /\ "access" \in Follows \ Awaited
  BY DEF Actions, Follows, Awaited
<1>4. /\ requests' = (requests \ {r}) \cup {Ask("act", "detail", cookie, "access")}
      /\ UNCHANGED <<user, ready, cookie, page, navigation, fatal, signingOut, shown>>
      /\ requests \ {r} \in SUBSET requests
  BY <1>1 DEF FinalizeEnds
<1>5. "detail" \in Mounted /\ "detail" = ActingPart
  BY <1>1
<1>. QED BY <1>2, <1>3, <1>4, <1>5, ViewAsks

LEMMA ReviewReloadsStep ==
  ASSUME ClientInv, NEW r \in requests, ReviewReloads(r)
  PROVE  ClientInv'
<1>. DEFINE rest == requests \ {r}
<1>1. /\ r.kind = "act" /\ r.by = "detail" /\ "detail" \in Mounted /\ user \in {None, r.as}
      /\ r.as \in Somebody \ {None}
      /\ rest \in SUBSET ClientRequest /\ Alone(rest) /\ \A s \in rest : Timely(s)
  BY Asking DEF ReviewReloads, ViewKinds, Actions, Timely, TimelyView
<1>2. \A s \in rest : "act" \notin Slots(s)
  BY <1>1, ActsAlone DEF Actions
<1>3. requests' = Reloaded(rest, "detail", "updated") /\ "updated" \in Awaited
  BY <1>1 DEF ReviewReloads, Awaited
<1>. HIDE DEF rest
<1>4. requests' \subseteq ClientRequest /\ Alone(requests') /\ \A s \in requests' : Timely(s)
  BY <1>1, <1>2, <1>3, Reloading
<1>5. /\ shown \in [Parts -> Somebody] /\ {"project", "detail"} \subseteq Parts
      /\ shown["project"] # None /\ Mounted = Parts /\ None \in Somebody
  BY <1>1, MountedParts DEF ClientInv, ClientTyped, Parts, Somebody
<1>6. PICK u \in {r.as, shown["project"]} :
        shown' = [shown EXCEPT !["project"] = u, !["detail"] = None]
  BY <1>1 DEF ReviewReloads
<1>7. u \in Somebody /\ u # None /\ user \in {None, u}
  BY <1>1, <1>5, <1>6 DEF ClientInv, Identified
<1>8. shown' \in [Parts -> Somebody] /\ shown'["project"] = u
  BY <1>5, <1>6, <1>7
<1>9. \A part \in Parts : shown'[part] # None => part \in Mounted /\ user \in {None, shown'[part]}
  BY <1>5, <1>6, <1>7 DEF ClientInv, Identified
<1>. QED BY <1>4, <1>5, <1>7, <1>8, <1>9, ViewChanges DEF ReviewReloads

\* A conversation is there with its evidence.
LEMMA Evidence ==
  ASSUME ClientInv, NEW r \in requests, r.kind \in {"chat", "upload"}
  PROVE  /\ r.kind \in Actions /\ r.by = "page" /\ "detail" \in Mounted
         /\ \A s \in requests \ {r} : "act" \notin Slots(s)
<1>1. r.kind \in Actions /\ r.kind \in ViewKinds
  BY DEF Actions, ViewKinds
<1>2. r.by = "page" /\ page = "conversation" /\ r.by \in Mounted
  BY <1>1, Asking DEF Timely, TimelyView
<1>3. "detail" \in Mounted
  BY <1>2 DEF Mounted, Displayed, Within, PartsOf, Parts, InProject
<1>. QED BY <1>1, <1>2, <1>3, ActsAlone

LEMMA ChatEndsStep ==
  ASSUME ClientInv, NEW r \in requests, ChatEnds(r)
  PROVE  ClientInv'
<1>1. r.kind \in ViewKinds /\ r.as # None /\ "detail" \in Mounted
  BY Evidence DEF ChatEnds, ViewKinds
<1>2. requests' \subseteq ClientRequest /\ Alone(requests') /\ \A s \in requests' : Timely(s)
  BY <1>1, Asking DEF ChatEnds
<1>3. shown \in [Parts -> Somebody]
  BY DEF ClientInv, ClientTyped
<1>4. /\ shown' = [shown EXCEPT !["detail"] = r.as]
      /\ UNCHANGED <<user, ready, cookie, page, navigation, fatal, signingOut>>
  BY DEF ChatEnds
<1>. QED BY <1>1, <1>2, <1>3, <1>4, ShowStep

LEMMA ChatFailsStep ==
  ASSUME ClientInv, NEW r \in requests, ChatFails(r)
  PROVE  ClientInv'
<1>1. /\ "detail" \in Mounted /\ \A s \in requests \ {r} : "act" \notin Slots(s)
      /\ "failed" \in Awaited /\ requests \ {r} \in SUBSET requests
  BY Evidence DEF ChatFails, Awaited
<1>2. CASE user # None
  BY <1>1, <1>2, ReloadStep DEF ChatFails
<1>3. CASE user = None
  BY <1>3, FewerInFlight DEF ChatFails
<1>. QED BY <1>2, <1>3

LEMMA UploadEndsStep ==
  ASSUME ClientInv, NEW r \in requests, UploadEnds(r)
  PROVE  ClientInv'
<1>1. "detail" \in Mounted /\ "nothing" \notin Awaited /\ requests \ {r} \in SUBSET requests
  BY Evidence DEF UploadEnds, Awaited
<1>. QED BY <1>1, ReloadStep DEF UploadEnds

-----------------------------------------------------------------------------
(* All of them *)

LEMMA AnswerStep ==
  ASSUME ClientInv, NEW r \in requests,
         \/ Hear(r) \/ Unauthorized(r)
         \/ BootstrapEnds(r) \/ BootstrapFails(r)
         \/ LoginEnds(r)
         \/ LogoutEnds(r) \/ LogoutFails(r)
         \/ LoadEnds(r) \/ LoadFails(r)
         \/ ActEnds(r) \/ FinalizeEnds(r) \/ ReviewReloads(r)
         \/ ChatEnds(r) \/ ChatFails(r)
         \/ UploadEnds(r)
         \/ Fails(r)
  PROVE  ClientInv'
<1>1. CASE Fails(r)
  BY <1>1, FewerInFlight DEF Fails
<1>. QED
  BY <1>1, HearStep, UnauthorizedStep, BootstrapEndsStep, BootstrapFailsStep, LoginEndsStep,
     LogoutEndsStep, LogoutFailsStep, LoadEndsStep, LoadFailsStep, ActEndsStep,
     FinalizeEndsStep, ReviewReloadsStep, ChatEndsStep, ChatFailsStep, UploadEndsStep

LEMMA ClientStep ==
  ASSUME ClientInv, [ClientNext]_clientVars
  PROVE  ClientInv'
<1>1. CASE \E p \in Pages : Go(p)
  BY <1>1, GoStep
<1>2. CASE Bootstrap \/ Guard \/ Arrive \/ RefreshPage \/ Report
  BY <1>2, BootstrapStep, GuardStep, ArriveStep, RefreshStep, ReportStep
<1>3. CASE (\E u \in People : Login(u)) \/ Logout
  BY <1>3, LoginStep, LogoutStep
<1>4. CASE \/ Create \/ UpdateProject \/ CreateConversation
           \/ Update \/ ExtractDelta \/ RunAgent \/ ResumeAgent \/ Review \/ Chat
           \/ Refresh \/ Resolve \/ Finalize
  BY <1>4, ViewStep
<1>5. CASE Upload \/ CancelUpload \/ RetryLoad
  <2>1. CASE CancelUpload
    BY <2>1, FewerInFlight DEF CancelUpload
  <2>. QED BY <1>5, <2>1, UploadStep, RetryStep
<1>6. CASE UNCHANGED clientVars
  BY <1>6, FewerInFlight DEF clientVars
<1>. QED
  BY <1>1, <1>2, <1>3, <1>4, <1>5, <1>6, AnswerStep DEF ClientNext

LEMMA ClientInvariant == ClientSpec => []ClientInv
BY InitiallyNobody, ClientStep, PTL DEF ClientSpec

\* Nobody sees what was read in another's name, nor is taken by the browser for somebody
\* whom the server takes for another (session.ts with the views' useResource), for any
\* people and however many sign-ins.
THEOREM IdentityIsOne == ClientSpec => []OneIdentity
<1>1. ClientInv => OneIdentity
  BY DEF ClientInv, Identified, OneIdentity
<1>. QED BY <1>1, ClientInvariant, PTL

\* Whatever a part of the view has asked for ends with it, ProjectView's with the project
\* and its child's with the page, and two requests never take what there is one of: the
\* session, the load of a part, the action of ProjectView and that of the page
\* (client.ts, useAction, useResource, ProjectView.vue, AttachmentUpload.vue).
THEOREM RequestsBelong == ClientSpec => []RequestsBelongToTheView
<1>1. ClientInv => RequestsBelongToTheView
  BY DEF ClientInv, Timely, TimelyView, Alone, RequestsBelongToTheView
<1>. QED BY <1>1, ClientInvariant, PTL
=============================================================================
