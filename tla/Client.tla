------------------------------- MODULE Client -------------------------------
(***************************************************************************)
(* One tab of the web client: the session of auth.store.ts, the retries of  *)
(* auth-interceptor.ts and the order screen of order.store.ts.              *)
(* JavaScript runs one callback at a time, so an action is what one answer, *)
(* timer or click makes the client do.  A request captures its access token *)
(* and its CSRF header when it is sent.  Of the CSRF token only matters     *)
(* whether it equals the cookie of the browser ("fresh").                   *)
(***************************************************************************)
EXTENDS Integers, FiniteSets

CONSTANTS Calls,     \* requests of the user, each made once
          Polls,     \* status requests that may be under way at a time
          Orders, NoOrder,
          Scenes,    \* what may happen in a behaviour
          MaxExpired \* the clock lets a token expire while fewer are dead

Reads == {"read", "load"}        \* load: a page of the list of favorites
Hearts == {"favor", "unfavor"}   \* requests of the list of favorites
Writes == {"write", "prepare", "cancel", "logout"} \cup Hearts
\* Both answers carry a session: a refresh cookie, an access and a CSRF token.
SignIns == {"login", "register"}
Kinds == Reads \cup Writes \cup SignIns
Faults == {"expiry", "net", "revoke", "idle"}
Ended == {"completed", "failed", "cancelled"}

ASSUME ScenesAssumption ==
  Scenes \subseteq [calls : SUBSET Calls, kinds : SUBSET Kinds, faults : SUBSET Faults,
                    cookie : BOOLEAN, orders : SUBSET Orders]
ASSUME BoundsAssumption == MaxExpired \in Nat /\ NoOrder \notin Orders \cup Calls
ASSUME RequestsAssumption == Calls \cap Polls = {}

VARIABLES
  scene,
  cookie,    \* whether the server accepts the browser's refresh cookie
  issued,    \* access tokens issued so far: token n is the n-th
  valid,     \* those the server still accepts
  access,    \* the client's access token, 0 when it has none
  csrf,      \* the client's CSRF token against the cookie
  authed,    \* isAuthenticated
  timer,     \* the idle timer runs
  boot,      \* initialize(): "csrf", "refresh" or "done"
  renewal,   \* refreshInProgress: how far, and the token on its way
  recovery,  \* a CSRF handshake is under way
  call,      \* the requests
  page,      \* the order screen
  order,     \* the orders at the server
  over,      \* history: the session was ended or never was
  lost,      \* history: an answer was lost
  crossed    \* history: a status answer came after its polling had stopped

session == <<cookie, issued, valid>>
client == <<access, csrf, authed, timer>>
history == <<over, lost, crossed>>
vars == <<scene, session, client, boot, renewal, recovery, call, page, order, history>>

NoRenewal == [at |-> "none", tok |-> 0]
NoCall == [kind |-> "none", stage |-> "free", tok |-> 0, csrf |-> "none",
           order |-> NoOrder, answer |-> "none"]
NoPage == [cur |-> NoOrder, shown |-> "none", polling |-> FALSE]
Slots == Calls \cup Polls
CsrfStates == {"none", "stale", "fresh"}
InFlight(c) == call[c].stage \notin {"free", "ok", "rejected", "failed"}
Renewing == renewal.at # "none"

Init ==
  /\ scene \in Scenes
  /\ cookie = scene.cookie /\ issued = 0 /\ valid = {}
  /\ access = 0 /\ csrf = "none" /\ authed = FALSE /\ timer = FALSE
  /\ boot = "csrf" /\ renewal = NoRenewal /\ recovery = FALSE
  /\ call = [c \in Slots |-> NoCall]
  /\ page = NoPage /\ order = [o \in Orders |-> "none"]
  /\ over = ~scene.cookie /\ lost = FALSE /\ crossed = FALSE

(******************************** the session ******************************)
\* clearState, with the timers.
ClearState == access' = 0 /\ csrf' = "none" /\ authed' = FALSE /\ timer' = FALSE
\* A cookie set or cleared behind the client's back.
Behind == IF csrf = "none" THEN "none" ELSE "stale"

\* Variant: the retry keeps the headers of the first attempt.
RetriedAsSent(c, tok, header) == [call[c] EXCEPT !.stage = "again"]
\* The retry of a request that was refused with 401.
Retried(c, tok, header) == [call[c] EXCEPT !.stage = "again", !.tok = tok, !.csrf = header]
Header(kind) == IF kind \in Writes THEN csrf ELSE "none"
Failed(c) == IF c \in Polls THEN NoCall ELSE [call[c] EXCEPT !.stage = "failed"]
WaitingFor(stage) == {c \in Slots : call[c].stage = stage}

\* Variant: the promise is left open when the refresh is refused.
GivenUpNever(c) == call[c]
\* A request whose refresh failed is answered with its 401.
GivenUp(c) == Failed(c)
\* silentRefresh resolves: every request that waits for it goes on at once.
Renewed ==
  /\ call' = [c \in Slots |-> IF call[c].stage = "waiting"
                              THEN Retried(c, access, Header(call[c].kind)) ELSE call[c]]
  /\ renewal' = NoRenewal /\ boot' = "done"
NotRenewed ==
  /\ call' = [c \in Slots |-> IF call[c].stage = "waiting" THEN GivenUp(c) ELSE call[c]]
  /\ renewal' = NoRenewal /\ boot' = "done"
  /\ IF WaitingFor("waiting") = {} THEN UNCHANGED client ELSE ClearState

\* bootstrapCsrfToken: cookie and token of one answer.
Bootstrapped == csrf' = "fresh"
\* initialize: the CSRF handshake, then a refresh, whatever the handshake gave.
BootCsrf ==
  /\ boot = "csrf"
  /\ \/ Bootstrapped /\ UNCHANGED lost
     \/ /\ "net" \in scene.faults /\ ~lost
        /\ lost' = TRUE /\ UNCHANGED csrf
  /\ boot' = "refresh" /\ renewal' = [NoRenewal EXCEPT !.at = "sent"]
  /\ UNCHANGED <<scene, session, access, authed, timer, recovery, call, page, order,
                 over, crossed>>
RefreshServe ==
  /\ renewal.at = "sent"
  /\ IF cookie
     THEN /\ issued' = issued + 1 /\ valid' = valid \cup {issued + 1}
          /\ renewal' = [at |-> "accepted", tok |-> issued + 1]
     ELSE renewal' = [renewal EXCEPT !.at = "refused"] /\ UNCHANGED <<issued, valid>>
  /\ UNCHANGED <<scene, cookie, client, boot, recovery, call, page, order, history>>
\* The answer brings a new CSRF cookie, but no CSRF token for the client.
RefreshAccepted ==
  /\ renewal.at = "accepted"
  /\ access' = renewal.tok /\ csrf' = Behind /\ authed' = TRUE
  /\ renewal' = [renewal EXCEPT !.at = "profile"]
  /\ UNCHANGED <<scene, session, timer, boot, recovery, call, page, order, history>>
RefreshRefused ==
  /\ renewal.at = "refused"
  /\ NotRenewed
  /\ UNCHANGED <<scene, session, recovery, page, order, history>>
\* A lost answer leaves the browser with a cookie the server has replaced.
RefreshLost ==
  /\ renewal.at \in {"sent", "accepted", "refused", "profile"}
  /\ "net" \in scene.faults /\ ~lost
  /\ lost' = TRUE
  /\ IF renewal.at = "accepted" THEN cookie' = FALSE /\ over' = TRUE
                                ELSE UNCHANGED <<cookie, over>>
  /\ NotRenewed
  /\ UNCHANGED <<scene, issued, valid, recovery, page, order, crossed>>
\* loadProfile: refused with 401 it would refresh, and waits for itself.
Profile ==
  /\ renewal.at = "profile"
  /\ IF renewal.tok \in valid
     THEN Renewed /\ authed' = TRUE
     ELSE /\ renewal' = [renewal EXCEPT !.at = "wedged"]
          /\ UNCHANGED <<call, boot, authed>>
  /\ UNCHANGED <<scene, session, access, csrf, timer, recovery, page, order, history>>

(******************************* the requests ******************************)
Sent(kind, o) == [kind |-> kind, stage |-> "sent", order |-> o, answer |-> "none",
                  tok |-> IF kind \in SignIns THEN 0 ELSE access,
                  csrf |-> Header(kind)]
Idle(c) == call[c].stage = "free"
Request(c, kind) ==
  /\ boot = "done" /\ Idle(c) /\ kind \in scene.kinds
  /\ call' = [call EXCEPT ![c] = Sent(kind, NoOrder)]
  /\ UNCHANGED <<scene, session, client, boot, renewal, recovery, page, order, history>>
Ask(c) == \E kind \in {"read", "write"} \cup SignIns : Request(c, kind)

\* What the server says: the CSRF guard comes before the token's.
Refusal(c) ==
  IF call[c].kind \in Writes /\ call[c].csrf # "fresh" THEN 403
  ELSE IF call[c].kind \notin SignIns /\ call[c].tok \notin valid THEN 401 ELSE 200
Asked(c) == call[c].stage \in {"sent", "again", "bare"}

\* First 401: wait for the one refresh, starting it when there is none.
Unauthorized(c) ==
  /\ call[c].stage = "sent" /\ Refusal(c) = 401
  /\ call' = [call EXCEPT ![c].stage = "waiting"]
  /\ renewal' = IF Renewing THEN renewal ELSE [NoRenewal EXCEPT !.at = "sent"]
  /\ UNCHANGED <<scene, session, client, boot, recovery, page, order, history>>
\* First 403 of a write: wait for the one CSRF handshake.
Forbidden(c) ==
  /\ call[c].stage \in {"sent", "again"} /\ Refusal(c) = 403
  /\ call' = [call EXCEPT ![c].stage = "forbidden"]
  /\ recovery' = TRUE
  /\ UNCHANGED <<scene, session, client, boot, renewal, page, order, history>>
\* The handshake's retry carries the CSRF header and no access token.
Recovered ==
  /\ recovery
  /\ recovery' = FALSE
  /\ \/ /\ Bootstrapped /\ UNCHANGED lost
        /\ call' = [c \in Slots |->
             IF call[c].stage = "forbidden"
             THEN [call[c] EXCEPT !.stage = "bare", !.tok = 0, !.csrf = "fresh"]
             ELSE call[c]]
     \/ /\ "net" \in scene.faults /\ ~lost
        /\ lost' = TRUE /\ UNCHANGED csrf
        /\ call' = [c \in Slots |-> IF call[c].stage = "forbidden" THEN Failed(c) ELSE call[c]]
  /\ UNCHANGED <<scene, session, access, authed, timer, boot, renewal, page, order,
                 over, crossed>>
\* No further retry: the caller has the error.
Refused(c) ==
  /\ Asked(c)
  /\ \/ call[c].stage = "again" /\ Refusal(c) = 401
     \/ call[c].stage = "bare" /\ Refusal(c) # 200
  /\ call' = [call EXCEPT ![c] = Failed(c)]
  /\ UNCHANGED <<scene, session, client, boot, renewal, recovery, page, order, history>>
NetworkError(c) ==
  /\ Asked(c)
  /\ "net" \in scene.faults /\ ~lost
  /\ lost' = TRUE
  /\ call' = [call EXCEPT ![c] = Failed(c)]
  /\ UNCHANGED <<scene, session, client, boot, renewal, recovery, page, order, over, crossed>>

Granted(c, kind) == Asked(c) /\ call[c].kind = kind /\ Refusal(c) = 200
Done(c) == call' = [call EXCEPT ![c].stage = "ok"]
\* An answer of the handler itself that says no.
Denied(c) == call' = [call EXCEPT ![c].stage = "rejected"]
Answered(c) ==
  /\ \E kind \in {"read", "write"} : Granted(c, kind)
  /\ Done(c)
  /\ UNCHANGED <<scene, session, client, boot, renewal, recovery, page, order, history>>
Opened == cookie' = TRUE /\ issued' = issued + 1 /\ valid' = valid \cup {issued'}
LoggedIn(c) ==
  /\ \E kind \in SignIns : Granted(c, kind)
  /\ Opened
  /\ access' = issued' /\ csrf' = "fresh" /\ authed' = TRUE /\ timer' = TRUE
  /\ Done(c)
  /\ UNCHANGED <<scene, boot, renewal, recovery, page, order, history>>

(****************************** logout and time ****************************)
\* logout: the request leaves with its headers, then the state is cleared.
LeaveWith(c) ==
  /\ call' = [call EXCEPT ![c] = Sent("logout", NoOrder)]
  /\ ClearState
  /\ over' = TRUE
  /\ UNCHANGED <<scene, session, boot, renewal, recovery, page, order, lost, crossed>>
Logout(c) ==
  /\ boot = "done" /\ Idle(c) /\ "logout" \in scene.kinds /\ authed
  /\ LeaveWith(c)
\* The idle timer: an order being followed defers the logout.
IdleTimeout(c) ==
  /\ "idle" \in scene.faults /\ timer /\ Idle(c)
  /\ ~page.polling
  /\ LeaveWith(c)
\* The server blacklists both tokens and clears both cookies.
LoggedOut(c) ==
  /\ Granted(c, "logout")
  /\ cookie' = FALSE /\ valid' = valid \ {call[c].tok} /\ csrf' = Behind
  /\ Done(c)
  /\ UNCHANGED <<scene, issued, access, authed, timer, boot, renewal, recovery, page,
                 order, history>>
\* The CSRF cookie lives as long as an access token, from its own start.
Expire ==
  /\ "expiry" \in scene.faults
  /\ issued - Cardinality(valid) < MaxExpired
  /\ \E t \in valid :
       \* fifteen minutes are longer than the requests a token is got for
       /\ Renewing => t # issued /\ t # renewal.tok
       /\ \A c \in WaitingFor("again") : call[c].tok # t
       /\ valid' = valid \ {t}
  /\ csrf' \in {csrf, Behind}
  /\ UNCHANGED <<scene, cookie, issued, access, authed, timer, boot, renewal, recovery,
                 call, page, order, history>>
\* A password reset or an administrator ends the sessions of the user.
Revoke ==
  /\ "revoke" \in scene.faults /\ ~over
  /\ cookie' = FALSE /\ valid' = {} /\ over' = TRUE
  /\ UNCHANGED <<scene, issued, client, boot, renewal, recovery, call, page, order,
                 lost, crossed>>

(***************************** the order screen ****************************)
\* Variant: of the failures only one ends the polling.
EndedKnown(status) == status \in {"completed", "cancelled"}
\* The statuses that stop the polling.
Terminal(status) == status \in Ended

Submit(c) ==
  /\ boot = "done" /\ Idle(c) /\ "prepare" \in scene.kinds
  /\ \E o \in scene.orders :
       /\ order[o] = "none" /\ \A d \in Calls : InFlight(d) => call[d].order # o
       /\ call' = [call EXCEPT ![c] = Sent("prepare", o)]
  /\ UNCHANGED <<scene, session, client, boot, renewal, recovery, page, order, history>>
\* The answer starts the polling of the order, in place of another one's.
Submitted(c) ==
  /\ Granted(c, "prepare")
  /\ order' = [order EXCEPT ![call[c].order] = "queued"]
  /\ page' = [cur |-> call[c].order, shown |-> "queued", polling |-> TRUE]
  /\ Done(c)
  /\ UNCHANGED <<scene, session, client, boot, renewal, recovery, history>>
\* poll: at once and every 1.5 seconds, answered or not.
Poll(p) ==
  /\ page.polling /\ Idle(p)
  /\ call' = [call EXCEPT ![p] = Sent("poll", page.cur)]
  /\ UNCHANGED <<scene, session, client, boot, renewal, recovery, page, order, history>>
PollServe(p) ==
  /\ Granted(p, "poll")
  /\ call' = [call EXCEPT ![p].stage = "served", ![p].answer = order[call[p].order]]
  /\ UNCHANGED <<scene, session, client, boot, renewal, recovery, page, order, history>>
\* The answer is shown, whatever order the screen follows by now.
PollAnswer(p) ==
  /\ call[p].stage = "served"
  /\ page' = [page EXCEPT !.shown = call[p].answer,
                          !.polling = @ /\ ~Terminal(call[p].answer)]
  /\ crossed' = (crossed \/ ~page.polling \/ call[p].order # page.cur)
  /\ call' = [call EXCEPT ![p] = NoCall]
  /\ UNCHANGED <<scene, session, client, boot, renewal, recovery, order, over, lost>>
Cancel(c) ==
  /\ "cancel" \in scene.kinds /\ Idle(c) /\ page.cur # NoOrder
  /\ call' = [call EXCEPT ![c] = Sent("cancel", page.cur)]
  /\ UNCHANGED <<scene, session, client, boot, renewal, recovery, page, order, history>>
\* Too late, the server says so and the screen stays.
Cancelled(c) ==
  /\ Granted(c, "cancel")
  /\ IF order[call[c].order] = "queued"
     THEN /\ order' = [order EXCEPT ![call[c].order] = "cancelled"]
          /\ page' = [page EXCEPT !.shown = "cancelled", !.polling = FALSE]
          /\ Done(c)
     ELSE Denied(c) /\ UNCHANGED <<page, order>>
  /\ UNCHANGED <<scene, session, client, boot, renewal, recovery, history>>
\* Leaving the page resets the store; requests go on.
Leave ==
  /\ page # NoPage
  /\ page' = NoPage
  /\ UNCHANGED <<scene, session, client, boot, renewal, recovery, call, order, history>>
\* The tab comes to the front: the polling resumes if the order has not ended.
Visible ==
  /\ page.cur # NoOrder /\ ~Terminal(page.shown) /\ ~page.polling
  /\ page' = [page EXCEPT !.polling = TRUE]
  /\ UNCHANGED <<scene, session, client, boot, renewal, recovery, call, order, history>>
OrderEnds(o) ==
  /\ order[o] = "queued"
  /\ \E end \in {"completed", "failed"} : order' = [order EXCEPT ![o] = end]
  /\ UNCHANGED <<scene, session, client, boot, renewal, recovery, call, page, history>>

Refresh == RefreshServe \/ RefreshAccepted \/ RefreshRefused \/ Profile
Server(c) == Unauthorized(c) \/ Forbidden(c) \/ Refused(c) \/ Answered(c) \/ LoggedIn(c)
             \/ LoggedOut(c) \/ Submitted(c) \/ Cancelled(c) \/ PollServe(c) \/ PollAnswer(c)
User(c) == Ask(c) \/ Logout(c) \/ Submit(c) \/ Cancel(c)
Next ==
  \/ BootCsrf \/ Refresh \/ RefreshLost \/ Recovered \/ Expire \/ Revoke \/ Leave \/ Visible
  \/ \E c \in scene.calls : User(c) \/ IdleTimeout(c)
  \/ \E c \in Slots : Server(c) \/ NetworkError(c)
  \/ \E p \in Polls : Poll(p)
  \/ \E o \in Orders : OrderEnds(o)
Spec == Init /\ [][Next]_vars
\* Servers answer, timers fire and orders end; users and faults need not act.
Fairness ==
  /\ WF_vars(BootCsrf) /\ WF_vars(Refresh) /\ WF_vars(Recovered)
  /\ \A c \in Slots : WF_vars(Server(c))
  /\ \A p \in Polls : WF_vars(Poll(p))
  /\ \A o \in Orders : WF_vars(OrderEnds(o))
FairSpec == Spec /\ Fairness

(******************************** properties *******************************)
Undisturbed == ~over /\ ~lost
Wedged == renewal.at = "wedged"
\* While the session lives and no answer is lost, the expiry of tokens never
\* signs the user out and never fails a read; a request that fails is a write
\* whose retry after the CSRF handshake left without an access token.
KeptAlive ==
  Undisturbed =>
    /\ boot = "done" => authed /\ access # 0
    /\ \A c \in Calls : call[c].stage = "failed" => call[c].kind \in Writes /\ call[c].tok = 0
\* Every request is answered, with an error at worst, unless the profile was
\* refused with 401 in the middle of a refresh, which then waits for itself.
AllAnswered == \A c \in Slots : InFlight(c) ~> (~InFlight(c) \/ Wedged)
\* An order on the screen is followed to its end, and then no longer polled,
\* unless a status answer arrives after its polling was stopped or replaced.
OrderFollowed ==
  \A o \in Orders :
    (page.cur = o /\ page.polling) ~>
      \/ page.cur # o \/ (Terminal(page.shown) /\ ~page.polling)
      \/ crossed \/ over \/ Wedged
=============================================================================
