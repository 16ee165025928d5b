---------------------------- MODULE Client_proofs ----------------------------
(***************************************************************************)
(* Theorems about one tab of the web client, for any number of requests,    *)
(* polls, orders and favorites and any menu of faults: the expiry of tokens *)
(* never ends a session, and the list of favorites shows what the server    *)
(* keeps.                                                                  *)
(***************************************************************************)
EXTENDS FavoriteList, TLAPS

Shape ==
  /\ call = [c \in Slots |-> call[c]]
  /\ \A c \in Slots :
       call[c] = [kind |-> call[c].kind, stage |-> call[c].stage, tok |-> call[c].tok,
                  csrf |-> call[c].csrf, order |-> call[c].order, answer |-> call[c].answer]
  /\ renewal = [at |-> renewal.at, tok |-> renewal.tok]
  /\ issued \in Nat /\ valid \subseteq 1..issued

\* What is known of a request of a session that has neither ended nor lost an
\* answer: it was not a logout, its retry carries a token that is in force, and
\* only a write is ever retried without one or fails.
Kept(q) ==
  /\ q.kind # "logout"
  /\ q.stage = "again" => q.tok \in valid
  /\ q.stage \in {"forbidden", "bare", "failed"} => q.kind \in Writes
  /\ q.stage \in {"bare", "failed"} => q.tok = 0

\* The refresh on its way brings a token that is in force, and so has the client
\* when it asks for the profile.
RenewalKept ==
  /\ cookie
  /\ renewal.at \in {"none", "sent", "accepted", "profile"}
  /\ renewal.at \in {"accepted", "profile"} => renewal.tok \in valid
  /\ renewal.at = "profile" => authed /\ access \in {renewal.tok, issued} /\ access \in valid
  /\ boot = "done" => authed /\ access # 0

SessionInv == Undisturbed => RenewalKept /\ \A c \in Slots : Kept(call[c])

ClientInv == Shape /\ SessionInv

-----------------------------------------------------------------------------
LEMMA InitClient == Init => ClientInv
<1> SUFFICES ASSUME Init
             PROVE  ClientInv
  OBVIOUS
<1>1. Shape /\ \A c \in Slots : Kept(call[c])
  BY DEF Init, Shape, Kept, NoCall, NoRenewal
<1>2. Undisturbed => cookie
  BY Zenon DEF Init, Undisturbed
<1>3. renewal.at = "none" /\ boot = "csrf"
  BY DEF Init, NoRenewal
<1>4. QED
  BY <1>1, <1>2, <1>3 DEF ClientInv, SessionInv, RenewalKept

\* A request of the user is made, or one under way moves on.
LEMMA CallStep ==
  ASSUME ClientInv, NEW c \in Slots, NEW q, call' = [call EXCEPT ![c] = q],
         q = [kind |-> q.kind, stage |-> q.stage, tok |-> q.tok,
              csrf |-> q.csrf, order |-> q.order, answer |-> q.answer],
         Undisturbed => Kept(q),
         UNCHANGED <<cookie, issued, valid, access, authed, boot, over, lost>>,
         renewal' \in {renewal, [NoRenewal EXCEPT !.at = "sent"]}
  PROVE  ClientInv'
<1>0. renewal' = renewal \/ renewal' = [at |-> "sent", tok |-> 0]
  BY DEF NoRenewal
<1>1. call'[c] = q /\ \A d \in Slots \ {c} : call'[d] = call[d]
  BY DEF ClientInv, Shape
<1>2. \A d \in Slots : Kept(call[d])' <=> Kept(call'[d])
  BY DEF Kept
<1>3. Shape'
  BY <1>0, <1>1 DEF ClientInv, Shape
<1>4. QED
  BY <1>0, <1>1, <1>2, <1>3 DEF ClientInv, SessionInv, RenewalKept, Undisturbed

\* A request that was sent stays what it was about.
LEMMA CallFields ==
  ASSUME Shape, NEW c \in Slots, NEW s
  PROVE  LET q == [call[c] EXCEPT !.stage = s]
         IN  /\ q = [kind |-> q.kind, stage |-> q.stage, tok |-> q.tok,
                     csrf |-> q.csrf, order |-> q.order, answer |-> q.answer]
             /\ q.stage = s /\ q.kind = call[c].kind /\ q.tok = call[c].tok
  BY DEF Shape

\* A step that moves one request to another stage.
LEMMA StageStep ==
  ASSUME ClientInv, NEW c \in Slots, NEW s, call' = [call EXCEPT ![c] = [call[c] EXCEPT !.stage = s]],
         Undisturbed => /\ s # "again"
                        /\ s \in {"forbidden", "bare", "failed"} => call[c].kind \in Writes
                        /\ s \in {"bare", "failed"} => call[c].tok = 0,
         UNCHANGED <<cookie, issued, valid, access, authed, boot, over, lost>>,
         renewal' \in {renewal, [NoRenewal EXCEPT !.at = "sent"]}
  PROVE  ClientInv'
<1> DEFINE q == [call[c] EXCEPT !.stage = s]
<1>1. /\ q = [kind |-> q.kind, stage |-> q.stage, tok |-> q.tok,
              csrf |-> q.csrf, order |-> q.order, answer |-> q.answer]
      /\ q.stage = s /\ q.kind = call[c].kind /\ q.tok = call[c].tok
  BY CallFields DEF ClientInv
<1> HIDE DEF q
<1>2. Undisturbed => Kept(q)
  BY <1>1 DEF Kept, ClientInv, SessionInv
<1>3. call' = [call EXCEPT ![c] = q]
  BY DEF q
<1>4. QED
  BY <1>1, <1>2, <1>3, CallStep

\* A new request is no retry.
LEMMA SentStep ==
  ASSUME ClientInv, NEW c \in Slots, NEW kind, NEW o, kind # "logout",
         call' = [call EXCEPT ![c] = Sent(kind, o)],
         UNCHANGED <<cookie, issued, valid, access, authed, boot, over, lost>>,
         renewal' \in {renewal, [NoRenewal EXCEPT !.at = "sent"]}
  PROVE  ClientInv'
<1> DEFINE q == Sent(kind, o)
<1>1. /\ q = [kind |-> q.kind, stage |-> q.stage, tok |-> q.tok,
              csrf |-> q.csrf, order |-> q.order, answer |-> q.answer]
      /\ q.stage = "sent" /\ q.kind = kind
  BY DEF Sent
<1> HIDE DEF q
<1>2. Kept(q)
  BY <1>1 DEF Kept
<1>3. call' = [call EXCEPT ![c] = q]
  BY DEF q
<1>4. QED
  BY <1>1, <1>2, <1>3, CallStep

\* Nothing that the invariant is about changes.
LEMMA ElsewhereClient ==
  ASSUME ClientInv,
         UNCHANGED <<call, cookie, issued, valid, access, authed, boot, renewal, over, lost>>
  PROVE  ClientInv'
  BY DEF ClientInv, Shape, SessionInv, RenewalKept, Kept, Undisturbed

\* The user's clicks, and the timers of the order screen.
Clicked ==
  \/ \E c \in Calls : Ask(c) \/ Submit(c) \/ Cancel(c)
  \/ \E p \in Polls : Poll(p)
  \/ \E c \in Calls, kind \in Hearts : \E e : Heart(c, kind, e)
  \/ \E c \in Calls : Load(c)

\* What every click leaves alone.
Still == UNCHANGED <<cookie, issued, valid, access, authed, boot, renewal, over, lost>>

LEMMA ClickSends ==
  ASSUME Clicked
  PROVE  \E c \in Slots, kind \in Kinds \cup {"poll"} : \E o :
           kind # "logout" /\ call' = [call EXCEPT ![c] = Sent(kind, o)] /\ Still
<1> USE DEF Slots, Kinds, Reads, Writes, Hearts, SignIns
<1>1. ASSUME NEW c \in Calls, Ask(c)
      PROVE  \E kind \in Kinds \cup {"poll"} : \E o :
               kind # "logout" /\ call' = [call EXCEPT ![c] = Sent(kind, o)] /\ Still
  <2>1. PICK kind \in {"read", "write"} \cup SignIns : Request(c, kind)
    BY <1>1 DEF Ask
  <2>2. call' = [call EXCEPT ![c] = Sent(kind, NoOrder)] /\ Still
    BY <2>1 DEF Request, Still, session, client, history
  <2>3. QED
    BY <2>2
<1>2. ASSUME NEW c \in Calls, Submit(c)
      PROVE  \E o : call' = [call EXCEPT ![c] = Sent("prepare", o)] /\ Still
  BY <1>2 DEF Submit, Still, session, client, history
<1>3. ASSUME NEW c \in Calls, Cancel(c)
      PROVE  \E o : call' = [call EXCEPT ![c] = Sent("cancel", o)] /\ Still
  BY <1>3 DEF Cancel, Still, session, client, history
<1>4. ASSUME NEW p \in Polls, Poll(p)
      PROVE  \E o : call' = [call EXCEPT ![p] = Sent("poll", o)] /\ Still
  BY <1>4 DEF Poll, Still, session, client, history
<1>5. ASSUME NEW c \in Calls, NEW kind \in Hearts, NEW e, Heart(c, kind, e)
      PROVE  call' = [call EXCEPT ![c] = Sent(kind, NoOrder)] /\ Still
  BY <1>5 DEF Heart, Still, session, client, history
<1>l. ASSUME NEW c \in Calls, Load(c)
      PROVE  call' = [call EXCEPT ![c] = Sent("load", NoOrder)] /\ Still
  BY <1>l DEF Load, Still, session, client, history
<1>6. "load" \in Kinds /\ "prepare" \in Kinds /\ "cancel" \in Kinds /\ Hearts \subseteq Kinds \ {"logout"}
  OBVIOUS
<1> HIDE DEF Kinds, Reads, Writes, Hearts, SignIns
<1>7. QED
  BY <1>1, <1>2, <1>3, <1>4, <1>5, <1>l, <1>6 DEF Clicked

LEMMA ClickClient ==
  ASSUME ClientInv, Clicked
  PROVE  ClientInv'
<1> PICK c \in Slots, kind \in Kinds \cup {"poll"} : \E o :
           kind # "logout" /\ call' = [call EXCEPT ![c] = Sent(kind, o)] /\ Still
  BY ClickSends
<1> PICK o : kind # "logout" /\ call' = [call EXCEPT ![c] = Sent(kind, o)] /\ Still
  OBVIOUS
<1>1. QED
  BY SentStep DEF Still

\* After the end of a session, or once an answer is lost, nothing is claimed.
LEMMA EndedClient ==
  ASSUME Shape', ~Undisturbed'
  PROVE  ClientInv'
  BY DEF ClientInv, SessionInv

\* The answers of the server to requests other than sign-ins and logouts.
LEMMA ServerClient ==
  ASSUME ClientInv, NEW c \in Slots,
         \/ Unauthorized(c) \/ Forbidden(c) \/ Refused(c) \/ Answered(c) \/ Submitted(c)
         \/ Cancelled(c) \/ PollServe(c) \/ PollAnswer(c)
  PROVE  ClientInv'
<1>1. CASE Unauthorized(c)
  <2>1. call' = [call EXCEPT ![c] = [call[c] EXCEPT !.stage = "waiting"]]
    BY <1>1 DEF Unauthorized, InFlight
  <2>2. /\ UNCHANGED <<cookie, issued, valid, access, authed, boot, over, lost>>
        /\ renewal' \in {renewal, [NoRenewal EXCEPT !.at = "sent"]}
    BY <1>1 DEF Unauthorized, session, client, history
  <2>3. QED
    BY <2>1, <2>2, StageStep
<1>2. CASE Forbidden(c)
  <2>1. call' = [call EXCEPT ![c] = [call[c] EXCEPT !.stage = "forbidden"]] /\ Still
    BY <1>2 DEF Forbidden, session, client, history, Still
  <2>2. call[c].kind \in Writes
    BY <1>2 DEF Forbidden, Refusal
  <2>3. QED
    BY <2>1, <2>2, StageStep DEF Still
<1>3. CASE Refused(c)
  <2>1. Still /\ call' = [call EXCEPT ![c] = Failed(c)]
    BY <1>3 DEF Refused, session, client, history, Still
  <2>2. CASE c \in Polls
    <3> DEFINE q == NoCall
    <3>1. /\ q = [kind |-> q.kind, stage |-> q.stage, tok |-> q.tok,
                  csrf |-> q.csrf, order |-> q.order, answer |-> q.answer]
          /\ Kept(q) /\ call' = [call EXCEPT ![c] = q]
      BY <2>1, <2>2 DEF NoCall, Kept, Failed
    <3> HIDE DEF q
    <3>2. QED
      BY <2>1, <3>1, CallStep DEF Still
  <2>3. CASE c \notin Polls
    <3>1. Undisturbed => Kept(call[c])
      BY DEF ClientInv, SessionInv
    <3>2. Undisturbed => call[c].stage = "bare"
      BY <1>3, <3>1 DEF Refused, Refusal, Kept
    <3>3. QED
      BY <2>1, <2>3, <3>1, <3>2, StageStep DEF Still, Failed, Kept
  <2>4. QED
    BY <2>2, <2>3
<1>4. CASE Answered(c) \/ Submitted(c) \/ Cancelled(c)
  <2>1. Still /\ (Done(c) \/ Denied(c))
    BY <1>4 DEF Answered, Submitted, Cancelled, session, client, history, Still
  <2>2. QED
    BY <2>1, StageStep DEF Still, Done, Denied
<1>5. CASE PollServe(c)
  <2>0. PICK told : told = order[call[c].order]
    OBVIOUS
  <2>p. PICK p : p = [call[c] EXCEPT !.stage = "served"]
    OBVIOUS
  <2>q. PICK q : q = [p EXCEPT !.answer = told]
    OBVIOUS
  <2>1. Still /\ call' = [call EXCEPT ![c] = q]
    BY <1>5, <2>0, <2>p, <2>q DEF PollServe, session, client, history, Still
  <2>2. /\ q = [kind |-> q.kind, stage |-> q.stage, tok |-> q.tok,
                csrf |-> q.csrf, order |-> q.order, answer |-> q.answer]
        /\ q.stage = "served" /\ q.kind = call[c].kind
    <3>1. p = [kind |-> call[c].kind, stage |-> "served", tok |-> call[c].tok,
               csrf |-> call[c].csrf, order |-> call[c].order, answer |-> call[c].answer]
      BY <2>p DEF ClientInv, Shape
    <3>2. q = [kind |-> call[c].kind, stage |-> "served", tok |-> call[c].tok,
               csrf |-> call[c].csrf, order |-> call[c].order, answer |-> told]
      BY <2>q, <3>1
    <3>3. QED
      BY <3>2
  <2>3. Undisturbed => Kept(q)
    BY <2>2 DEF Kept, ClientInv, SessionInv
  <2>4. QED
    BY <2>1, <2>2, <2>3, CallStep DEF Still
<1>6. CASE PollAnswer(c)
  <2> DEFINE q == NoCall
  <2>1. /\ q = [kind |-> q.kind, stage |-> q.stage, tok |-> q.tok,
                csrf |-> q.csrf, order |-> q.order, answer |-> q.answer]
        /\ Kept(q) /\ call' = [call EXCEPT ![c] = q] /\ Still
    BY <1>6 DEF NoCall, Kept, PollAnswer, session, client, history, Still
  <2> HIDE DEF q
  <2>2. QED
    BY <2>1, CallStep DEF Still
<1>7. QED
  BY <1>1, <1>2, <1>3, <1>4, <1>5, <1>6

\* The answers to toggles and loads of the list.
LEMMA HeartClient ==
  ASSUME ClientInv, NEW c \in Slots,
         Added(c) \/ Removed(c) \/ Rejected(c) \/ LoadServe(c) \/ Loaded(c)
  PROVE  ClientInv'
<1>1. \E s \in {"ok", "rejected", "arrived"} :
        Still /\ call' = [call EXCEPT ![c] = [call[c] EXCEPT !.stage = s]]
  BY DEF Added, Removed, Rejected, LoadServe, Loaded, Done, Denied, session, client, history, Still
<1>2. QED
  BY <1>1, StageStep DEF Still

\* A sign-in brings a token, a logout takes it.
LEMMA SignInClient ==
  ASSUME ClientInv, NEW c \in Slots, LoggedIn(c)
  PROVE  ClientInv'
<1>1. /\ cookie' = TRUE /\ issued' = issued + 1 /\ valid' = valid \cup {issued'} /\ access' = issued'
      /\ authed' = TRUE /\ UNCHANGED <<boot, renewal, over, lost>>
      /\ call' = [call EXCEPT ![c] = [call[c] EXCEPT !.stage = "ok"]]
  BY DEF LoggedIn, Opened, Done, history
<1> DEFINE q == [call[c] EXCEPT !.stage = "ok"]
<1>2. /\ q = [kind |-> q.kind, stage |-> q.stage, tok |-> q.tok,
              csrf |-> q.csrf, order |-> q.order, answer |-> q.answer]
      /\ q.stage = "ok" /\ q.kind = call[c].kind /\ q.tok = call[c].tok
  BY CallFields DEF ClientInv
<1>3. call'[c] = q /\ \A d \in Slots \ {c} : call'[d] = call[d]
  BY <1>1 DEF ClientInv, Shape
<1>4. Shape'
  <2>1. call' = [d \in Slots |-> call'[d]]
    BY <1>1 DEF ClientInv, Shape
  <2>2. issued' \in Nat /\ valid' \subseteq 1..issued'
    BY <1>1 DEF ClientInv, Shape
  <2> HIDE DEF q
  <2>3. QED
    BY <1>1, <1>2, <1>3, <2>1, <2>2 DEF ClientInv, Shape
<1> HIDE DEF q
<1>5. Undisturbed' => Undisturbed /\ RenewalKept /\ \A d \in Slots : Kept(call[d])
  BY <1>1 DEF ClientInv, SessionInv, Undisturbed
<1>6. Undisturbed' => \A d \in Slots : Kept(call[d])'
  BY <1>1, <1>2, <1>3, <1>5 DEF Kept
<1>7. Undisturbed' => RenewalKept'
  BY <1>1, <1>5 DEF RenewalKept, ClientInv, Shape
<1>8. QED
  BY <1>4, <1>6, <1>7 DEF ClientInv, SessionInv

LEMMA LeaveClient ==
  ASSUME ClientInv,
         \/ \E c \in Slots : LoggedOut(c) \/ NetworkError(c)
         \/ \E c \in Calls : Logout(c) \/ IdleTimeout(c)
         \/ Revoke
  PROVE  ClientInv'
<1>1. CASE \E c \in Slots : LoggedOut(c)
  <2> PICK c \in Slots : LoggedOut(c)
    BY <1>1
  <2>1. /\ call' = [call EXCEPT ![c] = [call[c] EXCEPT !.stage = "ok"]]
        /\ valid' \subseteq valid /\ UNCHANGED <<issued, renewal, over, lost>>
    BY DEF LoggedOut, Done, history
  <2>2. ~Undisturbed
    BY DEF LoggedOut, Granted, ClientInv, SessionInv, Kept
  <2>3. Shape'
    BY <2>1 DEF ClientInv, Shape
  <2>4. QED
    BY <2>1, <2>2, <2>3, EndedClient DEF Undisturbed
<1>2. CASE \E c \in Slots : NetworkError(c)
  <2> PICK c \in Slots : NetworkError(c)
    BY <1>2
  <2>1. /\ lost' = TRUE /\ UNCHANGED <<issued, valid, renewal>>
        /\ call' = [call EXCEPT ![c] = Failed(c)]
    BY DEF NetworkError, session
  <2>2. Shape'
    BY <2>1 DEF ClientInv, Shape, Failed, NoCall
  <2>3. QED
    BY <2>1, <2>2, EndedClient DEF Undisturbed
<1>3. CASE \E c \in Calls : Logout(c) \/ IdleTimeout(c)
  <2> PICK c \in Calls : LeaveWith(c)
    BY <1>3 DEF Logout, IdleTimeout
  <2>1. /\ over' = TRUE /\ UNCHANGED <<issued, valid, renewal>>
        /\ call' = [call EXCEPT ![c] = Sent("logout", NoOrder)]
    BY DEF LeaveWith, session
  <2>2. Shape'
    BY <2>1 DEF ClientInv, Shape, Sent, Slots
  <2>3. QED
    BY <2>1, <2>2, EndedClient DEF Undisturbed
<1>4. CASE Revoke
  <2>1. over' = TRUE /\ valid' = {} /\ UNCHANGED <<issued, call, renewal>>
    BY <1>4 DEF Revoke
  <2>2. Shape'
    BY <2>1 DEF ClientInv, Shape
  <2>3. QED
    BY <2>1, <2>2, EndedClient DEF Undisturbed
<1>5. QED
  BY <1>1, <1>2, <1>3, <1>4

\* A refresh begins, is served, brings its token, or is lost.
LEMMA RenewalClient ==
  ASSUME ClientInv, BootCsrf \/ RefreshServe \/ RefreshAccepted
  PROVE  ClientInv'
<1>1. CASE BootCsrf
  <2>1. /\ boot' = "refresh" /\ renewal' = [at |-> "sent", tok |-> 0]
        /\ UNCHANGED <<cookie, issued, valid, access, authed, call, over>> /\ (lost => lost')
    BY <1>1 DEF BootCsrf, NoRenewal, session
  <2>2. QED
    BY <2>1 DEF ClientInv, Shape, SessionInv, RenewalKept, Kept, Undisturbed
<1>2. CASE RefreshServe
  <2>1. UNCHANGED <<cookie, access, authed, boot, call, over, lost>> /\ renewal.at = "sent"
    BY <1>2 DEF RefreshServe, client, history
  <2>2. CASE cookie
    <3>1. /\ issued' = issued + 1 /\ valid' = valid \cup {issued + 1}
          /\ renewal' = [at |-> "accepted", tok |-> issued + 1]
      BY <1>2, <2>2 DEF RefreshServe
    <3>2. Shape'
      BY <2>1, <3>1 DEF ClientInv, Shape
    <3>3. QED
      BY <2>1, <3>1, <3>2 DEF ClientInv, SessionInv, RenewalKept, Kept, Undisturbed
  <2>3. CASE ~cookie
    <3>1. UNCHANGED <<issued, valid>> /\ renewal' = [renewal EXCEPT !.at = "refused"]
      BY <1>2, <2>3 DEF RefreshServe
    <3>2. Shape'
      BY <2>1, <3>1 DEF ClientInv, Shape
    <3>3. ~Undisturbed
      BY <2>3 DEF ClientInv, SessionInv, RenewalKept
    <3>4. QED
      BY <2>1, <3>2, <3>3, EndedClient DEF Undisturbed
  <2>4. QED
    BY <2>2, <2>3
<1>3. CASE RefreshAccepted
  <2>1. /\ UNCHANGED <<cookie, issued, valid, boot, call, over, lost>> /\ renewal.at = "accepted"
        /\ access' = renewal.tok /\ authed' = TRUE /\ renewal' = [renewal EXCEPT !.at = "profile"]
    BY <1>3 DEF RefreshAccepted, session, history
  <2>2. renewal' = [at |-> "profile", tok |-> renewal.tok]
    BY <2>1 DEF ClientInv, Shape
  <2>3. Shape'
    BY <2>1, <2>2 DEF ClientInv, Shape
  <2>4. QED
    BY <2>1, <2>2, <2>3 DEF ClientInv, Shape, SessionInv, RenewalKept, Kept, Undisturbed
<1>4. QED
  BY <1>1, <1>2, <1>3

\* A refused or lost refresh leaves every request a request.
LEMMA NotRenewedShape ==
  ASSUME Shape, NotRenewed, UNCHANGED <<issued, valid>>
  PROVE  Shape'
<1>1. /\ call' = [c \in Slots |-> IF call[c].stage = "waiting" THEN Failed(c) ELSE call[c]]
      /\ renewal' = [at |-> "none", tok |-> 0]
  BY DEF NotRenewed, NoRenewal, GivenUp
<1>2. \A c \in Slots : Failed(c) = [kind |-> Failed(c).kind, stage |-> Failed(c).stage,
                                    tok |-> Failed(c).tok, csrf |-> Failed(c).csrf,
                                    order |-> Failed(c).order, answer |-> Failed(c).answer]
  BY DEF Failed, NoCall, Shape
<1>3. QED
  BY <1>1, <1>2 DEF Shape

LEMMA RefusalClient ==
  ASSUME ClientInv, RefreshRefused \/ RefreshLost
  PROVE  ClientInv'
<1>1. NotRenewed /\ UNCHANGED <<issued, valid>>
  BY DEF RefreshRefused, RefreshLost, session
<1>2. Shape'
  BY <1>1, NotRenewedShape DEF ClientInv
<1>3. ~Undisturbed'
  BY DEF RefreshRefused, RefreshLost, history, ClientInv, SessionInv, RenewalKept, Undisturbed
<1>4. QED
  BY <1>2, <1>3, EndedClient

\* The profile is read: every request that waited is sent again with the new token.
LEMMA ProfileClient ==
  ASSUME ClientInv, Profile
  PROVE  ClientInv'
<1>1. renewal.at = "profile" /\ UNCHANGED <<cookie, issued, valid, access, over, lost>>
  BY DEF Profile, session, history
<1>2. CASE renewal.tok \in valid
  <2>1. /\ renewal' = [at |-> "none", tok |-> 0] /\ boot' = "done" /\ authed' = TRUE
        /\ call' = [c \in Slots |-> IF call[c].stage = "waiting"
                                    THEN Retried(c, access, Header(call[c].kind)) ELSE call[c]]
    BY <1>2 DEF Profile, Renewed, NoRenewal
  <2>2. ASSUME NEW c \in Slots
        PROVE  /\ call'[c] = [kind |-> call'[c].kind, stage |-> call'[c].stage,
                              tok |-> call'[c].tok, csrf |-> call'[c].csrf,
                              order |-> call'[c].order, answer |-> call'[c].answer]
               /\ \/ call'[c] = call[c]
                  \/ call'[c].kind = call[c].kind /\ call'[c].stage = "again" /\ call'[c].tok = access
    <3>1. CASE call[c].stage = "waiting"
      <4>1. PICK h : h = Header(call[c].kind)
        OBVIOUS
      <4>2. PICK p : p = [call[c] EXCEPT !.stage = "again"]
        OBVIOUS
      <4>3. PICK q : q = [p EXCEPT !.tok = access]
        OBVIOUS
      <4>4. PICK r : r = [q EXCEPT !.csrf = h]
        OBVIOUS
      <4>5. p = [kind |-> call[c].kind, stage |-> "again", tok |-> call[c].tok,
                 csrf |-> call[c].csrf, order |-> call[c].order, answer |-> call[c].answer]
        BY <4>2 DEF ClientInv, Shape
      <4>6. q = [kind |-> call[c].kind, stage |-> "again", tok |-> access,
                 csrf |-> call[c].csrf, order |-> call[c].order, answer |-> call[c].answer]
        BY <4>3, <4>5
      <4>7. r = [kind |-> call[c].kind, stage |-> "again", tok |-> access,
                 csrf |-> h, order |-> call[c].order, answer |-> call[c].answer]
        BY <4>4, <4>6
      <4>8. call'[c] = r
        BY <2>1, <3>1, <4>1, <4>2, <4>3, <4>4 DEF Retried
      <4>9. QED
        BY <4>7, <4>8
    <3>2. CASE call[c].stage # "waiting"
      BY <2>1, <3>2 DEF ClientInv, Shape
    <3>3. QED
      BY <3>1, <3>2
  <2>3. call' = [c \in Slots |-> call'[c]]
    BY <2>1
  <2>4. Shape'
    BY <1>1, <2>1, <2>2, <2>3 DEF ClientInv, Shape
  <2>5. Undisturbed' => Undisturbed /\ RenewalKept /\ \A c \in Slots : Kept(call[c])
    BY <1>1 DEF ClientInv, SessionInv, Undisturbed
  <2>6. Undisturbed' => access \in valid /\ access # 0
    BY <1>1, <2>5 DEF RenewalKept, ClientInv, Shape
  <2>7. Undisturbed' => \A c \in Slots : Kept(call[c])'
    BY <1>1, <2>2, <2>5, <2>6 DEF Kept
  <2>8. Undisturbed' => RenewalKept'
    BY <1>1, <2>1, <2>5, <2>6 DEF RenewalKept
  <2>9. QED
    BY <2>4, <2>7, <2>8 DEF ClientInv, SessionInv
<1>3. CASE renewal.tok \notin valid
  <2>1. renewal' = [renewal EXCEPT !.at = "wedged"] /\ call' = call
    BY <1>3 DEF Profile
  <2>2. Shape'
    BY <1>1, <2>1 DEF ClientInv, Shape
  <2>3. ~Undisturbed'
    BY <1>1, <1>3 DEF ClientInv, SessionInv, RenewalKept, Undisturbed
  <2>4. QED
    BY <2>2, <2>3, EndedClient
<1>4. QED
  BY <1>2, <1>3

\* The CSRF handshake ends: the writes that waited are sent again, without a token.
LEMMA RecoveredClient ==
  ASSUME ClientInv, Recovered
  PROVE  ClientInv'
<1>1. UNCHANGED <<cookie, issued, valid, access, authed, boot, renewal, over>>
  BY DEF Recovered, session
<1>2. CASE lost' = lost
  <2>1. CASE call' = [c \in Slots |-> IF call[c].stage = "forbidden"
                                      THEN [call[c] EXCEPT !.stage = "bare", !.tok = 0, !.csrf = "fresh"]
                                      ELSE call[c]]
    <3>1. ASSUME NEW c \in Slots
          PROVE  /\ call'[c] = [kind |-> call'[c].kind, stage |-> call'[c].stage,
                                tok |-> call'[c].tok, csrf |-> call'[c].csrf,
                                order |-> call'[c].order, answer |-> call'[c].answer]
                 /\ \/ call'[c] = call[c]
                    \/ /\ call[c].stage = "forbidden" /\ call'[c].kind = call[c].kind
                       /\ call'[c].stage = "bare" /\ call'[c].tok = 0
      <4>1. CASE call[c].stage = "forbidden"
        <5>2. PICK p : p = [call[c] EXCEPT !.stage = "bare"]
          OBVIOUS
        <5>3. PICK q : q = [p EXCEPT !.tok = 0]
          OBVIOUS
        <5>4. PICK r : r = [q EXCEPT !.csrf = "fresh"]
          OBVIOUS
        <5>5. p = [kind |-> call[c].kind, stage |-> "bare", tok |-> call[c].tok,
                   csrf |-> call[c].csrf, order |-> call[c].order, answer |-> call[c].answer]
          BY <5>2 DEF ClientInv, Shape
        <5>6. q = [kind |-> call[c].kind, stage |-> "bare", tok |-> 0,
                   csrf |-> call[c].csrf, order |-> call[c].order, answer |-> call[c].answer]
          BY <5>3, <5>5
        <5>7. r = [kind |-> call[c].kind, stage |-> "bare", tok |-> 0,
                   csrf |-> "fresh", order |-> call[c].order, answer |-> call[c].answer]
          BY <5>4, <5>6
        <5>8. call'[c] = r
          BY <2>1, <4>1, <5>2, <5>3, <5>4
        <5>9. QED
          BY <4>1, <5>7, <5>8
      <4>2. CASE call[c].stage # "forbidden"
        BY <2>1, <4>2 DEF ClientInv, Shape
      <4>3. QED
        BY <4>1, <4>2
    <3>2. Shape'
      <4>1. call' = [c \in Slots |-> call'[c]]
        BY <2>1
      <4>2. QED
        BY <1>1, <3>1, <4>1 DEF ClientInv, Shape
    <3>3. Undisturbed' => Undisturbed /\ RenewalKept /\ \A c \in Slots : Kept(call[c])
      BY <1>1, <1>2 DEF ClientInv, SessionInv, Undisturbed
    <3>4. Undisturbed' => \A c \in Slots : Kept(call[c])'
      BY <1>1, <3>1, <3>3 DEF Kept
    <3>5. QED
      BY <1>1, <3>2, <3>3, <3>4 DEF ClientInv, SessionInv, RenewalKept
  <2>2. CASE lost' /\ call' = [c \in Slots |-> IF call[c].stage = "forbidden" THEN Failed(c) ELSE call[c]]
    <3>1. Shape'
      BY <1>1, <2>2 DEF ClientInv, Shape, Failed, NoCall
    <3>2. QED
      BY <2>2, <3>1, EndedClient DEF Undisturbed
  <2>3. QED
    BY <2>1, <2>2 DEF Recovered
<1>3. CASE lost' # lost
  <2>1. lost' /\ call' = [c \in Slots |-> IF call[c].stage = "forbidden" THEN Failed(c) ELSE call[c]]
    BY <1>3 DEF Recovered
  <2>2. Shape'
    BY <1>1, <2>1 DEF ClientInv, Shape, Failed, NoCall
  <2>3. QED
    BY <2>1, <2>2, EndedClient DEF Undisturbed
<1>4. QED
  BY <1>2, <1>3

\* No token expires that a refresh has just brought or a retry carries.
LEMMA ExpireClient ==
  ASSUME ClientInv, Expire
  PROVE  ClientInv'
<1>1. PICK t \in valid :
        /\ Renewing => t # issued /\ t # renewal.tok
        /\ \A c \in WaitingFor("again") : call[c].tok # t
        /\ valid' = valid \ {t}
  BY DEF Expire
<1>2. UNCHANGED <<cookie, issued, access, authed, boot, renewal, call, over, lost>>
  BY DEF Expire, history
<1>3. Shape'
  BY <1>1, <1>2 DEF ClientInv, Shape
<1>4. Undisturbed' => Undisturbed /\ RenewalKept /\ \A c \in Slots : Kept(call[c])
  BY <1>2 DEF ClientInv, SessionInv, Undisturbed
<1>5. Undisturbed' => \A c \in Slots : Kept(call[c])'
  BY <1>1, <1>2, <1>4 DEF Kept, WaitingFor
<1>6. Undisturbed' => RenewalKept'
  BY <1>1, <1>2, <1>4 DEF RenewalKept, Renewing
<1>7. QED
  BY <1>3, <1>5, <1>6 DEF ClientInv, SessionInv

\* A step of the client.
LEMMA NextClient ==
  ASSUME ClientInv, scene.calls \subseteq Calls, Next
  PROVE  ClientInv'
<1> USE DEF Slots
<1>1. CASE BootCsrf \/ RefreshServe \/ RefreshAccepted
  BY <1>1, RenewalClient
<1>2. CASE RefreshRefused \/ RefreshLost
  BY <1>2, RefusalClient
<1>3. CASE Profile
  BY <1>3, ProfileClient
<1>4. CASE Recovered
  BY <1>4, RecoveredClient
<1>5. CASE Expire
  BY <1>5, ExpireClient
<1>6. CASE Revoke
  BY <1>6, LeaveClient
<1>7. CASE Leave \/ Visible \/ \E o \in Orders : OrderEnds(o)
  <2>1. UNCHANGED <<call, cookie, issued, valid, access, authed, boot, renewal, over, lost>>
    BY <1>7 DEF Leave, Visible, OrderEnds, session, client, history
  <2>2. QED
    BY <2>1, ElsewhereClient
<1>8. CASE \E c \in scene.calls : User(c) \/ IdleTimeout(c)
  BY <1>8, LeaveClient, ClickClient DEF User, Clicked
<1>9. CASE \E c \in Slots : Server(c) \/ NetworkError(c)
  BY <1>9, LeaveClient, SignInClient, ServerClient DEF Server
<1>10. CASE \E p \in Polls : Poll(p)
  BY <1>10, ClickClient DEF Clicked
<1>11. QED
  BY <1>1, <1>2, <1>3, <1>4, <1>5, <1>6, <1>7, <1>8, <1>9, <1>10 DEF Next, Refresh
LEMMA SceneFixed == Next => scene' = scene
<1>1. (Refresh \/ \E c \in Slots : Server(c)) => scene' = scene
  BY DEF Refresh, RefreshServe, RefreshAccepted, RefreshRefused, Profile, Server, Unauthorized,
     Forbidden, Refused, Answered, LoggedIn, LoggedOut, Submitted, Cancelled, PollServe, PollAnswer
<1>2. (\E c \in scene.calls : User(c) \/ IdleTimeout(c)) => scene' = scene
  BY DEF User, Ask, Request, Logout, LeaveWith, Submit, Cancel, IdleTimeout
<1>3. QED
  BY <1>1, <1>2 DEF Next, BootCsrf, RefreshLost, Recovered, Expire, Revoke, Leave, Visible,
     NetworkError, Poll, OrderEnds

LEMMA ListSceneFixed == ListNext => scene' = scene
  BY SceneFixed DEF ListNext, ListStep, Add, Remove, Heart, HeartAnswer, Added, Removed, Rejected,
     Load, LoadAnswer, LoadServe, Loaded

LEMMA SceneCalls ==
  ASSUME scene \in Scenes
  PROVE  scene.calls \subseteq Calls
  BY ScenesAssumption

SessionListInv == ClientInv /\ scene \in Scenes

LEMMA SessionInductive == SessionListInv /\ [ListNext]_listVars => SessionListInv'
<1> SUFFICES ASSUME SessionListInv, [ListNext]_listVars
             PROVE  SessionListInv'
  OBVIOUS
<1> USE DEF SessionListInv, Slots
<1>1. CASE ListStep(Next)
  BY <1>1, NextClient, SceneFixed, SceneCalls DEF ListStep
<1>2. ASSUME NEW c \in scene.calls, Add(c) \/ Remove(c) \/ Load(c) \/ HeartAnswer(c) \/ LoadAnswer(c)
      PROVE  SessionListInv'
  <2>1. c \in Calls
    BY SceneCalls
  <2>2. CASE Add(c) \/ Remove(c)
    <3>1. \E kind \in Hearts : \E e : Heart(c, kind, e)
      BY <2>2 DEF Add, Remove, Hearts
    <3>2. QED
      BY <1>2, <2>1, <2>2, <3>1, ClickClient, ListSceneFixed DEF Clicked, ListNext
  <2>l. CASE Load(c)
    BY <1>2, <2>1, <2>l, ClickClient, ListSceneFixed DEF Clicked, ListNext
  <2>3. CASE HeartAnswer(c) \/ LoadAnswer(c)
    BY <1>2, <2>1, <2>3, HeartClient, ListSceneFixed DEF HeartAnswer, LoadAnswer, ListNext
  <2>4. QED
    BY <1>2, <2>2, <2>l, <2>3
<1>3. CASE UNCHANGED listVars
  <2>1. UNCHANGED <<scene, call, cookie, issued, valid, access, authed, boot, renewal, over, lost>>
    BY <1>3 DEF listVars, vars, session, client, history
  <2>2. QED
    BY <2>1, ElsewhereClient
<1>4. QED
  BY <1>1, <1>2, <1>3 DEF ListNext

LEMMA SessionKept == SessionListInv => KeptAlive
  BY DEF SessionListInv, ClientInv, SessionInv, RenewalKept, Kept, KeptAlive, Slots

\* While the session lives and no answer is lost, the expiry of access tokens,
\* at any moment the code's timing allows and however often, never signs the user
\* out and never fails a read: the requests that are refused with 401 wait for the one
\* refresh, and are sent again with a token that is still in force.
THEOREM KeptAliveHolds == ListSpec => []KeptAlive
<1>1. ListInit => SessionListInv
  BY InitClient DEF ListInit, Init, SessionListInv
<1>2. SessionListInv /\ [ListNext]_listVars => SessionListInv'
  BY SessionInductive
<1>3. SessionListInv => KeptAlive
  BY SessionKept
<1>4. QED
  BY <1>1, <1>2, <1>3, PTL DEF ListSpec
-----------------------------------------------------------------------------
\* The list of favorites.

Toggling(kind) == {c \in Calls : call[c].kind = kind /\ InFlight(c)}
EntryOf(S) == {toggle[c].entry : c \in S}

\* What a step of the rest of the client does to a request of the user: a toggle
\* is not made, and leaves its way only by failing.
Turn(c) ==
  \/ call'[c] = call[c]
  \/ call[c].stage = "free" /\ call'[c].kind \notin Hearts /\ call'[c].stage = "sent"
  \/ /\ InFlight(c) /\ call'[c].kind = call[c].kind
     /\ call'[c].stage \in {"waiting", "forbidden", "again", "bare", "failed"}
  \/ InFlight(c) /\ call[c].kind \notin Hearts /\ call'[c].kind \notin Hearts
Turns == \A c \in Calls : Turn(c)

LEMMA StageTurns ==
  ASSUME Shape, NEW c \in Slots, NEW s, call' = [call EXCEPT ![c] = [call[c] EXCEPT !.stage = s]],
         InFlight(c),
         s \in {"waiting", "forbidden", "again", "bare", "failed"} \/ call[c].kind \notin Hearts
  PROVE  Turns
<1> DEFINE q == [call[c] EXCEPT !.stage = s]
<1>1. q.stage = s /\ q.kind = call[c].kind
  BY CallFields
<1>2. call'[c] = q /\ \A d \in Slots \ {c} : call'[d] = call[d]
  BY DEF Shape
<1> HIDE DEF q
<1>3. QED
  BY <1>1, <1>2 DEF Turns, Turn, Slots

LEMMA SentTurns ==
  ASSUME Shape, NEW c \in Slots, NEW kind, NEW o, kind \notin Hearts, Idle(c),
         call' = [call EXCEPT ![c] = Sent(kind, o)]
  PROVE  Turns
<1>1. PICK q : q = Sent(kind, o)
  OBVIOUS
<1>2. q.stage = "sent" /\ q.kind = kind
  BY <1>1 DEF Sent
<1>3. call'[c] = q /\ \A d \in Slots \ {c} : call'[d] = call[d]
  BY <1>1 DEF Shape
<1>4. QED
  BY <1>2, <1>3 DEF Turns, Turn, Slots, Idle

\* The requests of the user's slots are never polls.
LEMMA PollTurns ==
  ASSUME Shape, NEW p \in Polls, NEW q, call' = [call EXCEPT ![p] = q]
  PROVE  Turns
  BY RequestsAssumption DEF Turns, Turn, Shape, Slots

LEMMA SameTurns ==
  ASSUME UNCHANGED call
  PROVE  Turns
  BY DEF Turns, Turn

\* No answer to a poll or a load is on its way to a toggle.
ServedPolls ==
  \A c \in Calls : call[c].stage \in {"served", "arrived"} => call[c].kind \notin Hearts

LEMMA ServerTurns ==
  ASSUME Shape, ServedPolls, NEW c \in Slots, Server(c) \/ NetworkError(c)
  PROVE  Turns
<1> USE DEF Asked, Granted
<1>1. CASE Unauthorized(c)
  <2>1. InFlight(c) /\ call' = [call EXCEPT ![c] = [call[c] EXCEPT !.stage = "waiting"]]
    BY <1>1 DEF Unauthorized, InFlight
  <2>2. QED
    BY <2>1, StageTurns
<1>2. CASE Forbidden(c)
  <2>1. InFlight(c) /\ call' = [call EXCEPT ![c] = [call[c] EXCEPT !.stage = "forbidden"]]
    BY <1>2 DEF Forbidden, InFlight
  <2>2. QED
    BY <2>1, StageTurns
<1>3. CASE Refused(c) \/ NetworkError(c)
  <2>1. call' = [call EXCEPT ![c] = Failed(c)] /\ InFlight(c)
    BY <1>3 DEF Refused, NetworkError, InFlight
  <2>2. CASE c \in Polls
    BY <2>1, <2>2, PollTurns
  <2>3. CASE c \notin Polls
    BY <2>1, <2>3, StageTurns DEF Failed
  <2>4. QED
    BY <2>2, <2>3
<1>4. CASE Answered(c) \/ LoggedIn(c) \/ LoggedOut(c) \/ Submitted(c) \/ Cancelled(c)
  <2>1. (Done(c) \/ Denied(c)) /\ InFlight(c) /\ call[c].kind \notin Hearts
    BY <1>4 DEF Answered, LoggedIn, LoggedOut, Submitted, Cancelled, SignIns, Hearts, InFlight
  <2>2. QED
    BY <2>1, StageTurns DEF Done, Denied
<1>5. CASE PollServe(c)
  <2>0. PICK told : told = order[call[c].order]
    OBVIOUS
  <2>p. PICK p : p = [call[c] EXCEPT !.stage = "served"]
    OBVIOUS
  <2>q. PICK q : q = [p EXCEPT !.answer = told]
    OBVIOUS
  <2>1. call' = [call EXCEPT ![c] = q]
    BY <1>5, <2>0, <2>p, <2>q DEF PollServe
  <2>2. p = [kind |-> call[c].kind, stage |-> "served", tok |-> call[c].tok,
             csrf |-> call[c].csrf, order |-> call[c].order, answer |-> call[c].answer]
    BY <2>p DEF Shape
  <2>3. q.kind = call[c].kind
    BY <2>q, <2>2
  <2>4. InFlight(c) /\ call[c].kind \notin Hearts
    BY <1>5 DEF PollServe, Hearts, InFlight
  <2>5. QED
    BY <2>1, <2>3, <2>4 DEF Turns, Turn, Shape
<1>6. CASE PollAnswer(c)
  <2>1. CASE c \in Polls
    BY <1>6, <2>1, PollTurns DEF PollAnswer
  <2>2. CASE c \in Calls
    <3>1. InFlight(c) /\ call[c].kind \notin Hearts /\ call' = [call EXCEPT ![c] = NoCall]
      BY <1>6, <2>2 DEF PollAnswer, InFlight, ServedPolls
    <3>2. QED
      BY <3>1 DEF Turns, Turn, Shape, NoCall, Hearts
  <2>3. QED
    BY <2>1, <2>2 DEF Slots
<1>7. QED
  BY <1>1, <1>2, <1>3, <1>4, <1>5, <1>6 DEF Server

\* The turn of every request that waited for one thing.
LEMMA WaitingTurns ==
  ASSUME Shape,
         \/ NotRenewed \/ Renewed \/ Recovered
  PROVE  Turns
<1> SUFFICES ASSUME NEW c \in Calls, call'[c] # call[c]
             PROVE  /\ InFlight(c) /\ call'[c].kind = call[c].kind
                    /\ call'[c].stage \in {"again", "bare", "failed"}
  BY DEF Turns, Turn
<1>0. c \in Slots /\ c \notin Polls
  BY RequestsAssumption DEF Slots
<1> DEFINE r == [kind |-> call[c].kind, stage |-> call[c].stage, tok |-> call[c].tok,
                 csrf |-> call[c].csrf, order |-> call[c].order, answer |-> call[c].answer]
<1>r. call[c] = r
  BY <1>0 DEF Shape
<1>1. CASE call[c].stage \in {"waiting", "forbidden"} /\ call'[c] = Failed(c)
  <2>1. call'[c] = [call[c] EXCEPT !.stage = "failed"]
    BY <1>0, <1>1 DEF Failed
  <2>2. QED
    BY <1>r, <1>1, <2>1 DEF InFlight
<1>2. CASE call[c].stage = "waiting" /\ call'[c] = Retried(c, access, Header(call[c].kind))
  <2>1. PICK h : h = Header(call[c].kind)
    OBVIOUS
  <2>2. PICK p : p = [call[c] EXCEPT !.stage = "again"]
    OBVIOUS
  <2>3. PICK q : q = [p EXCEPT !.tok = access]
    OBVIOUS
  <2>4. p.kind = call[c].kind /\ p.stage = "again" /\ DOMAIN p = DOMAIN call[c]
    BY <1>r, <2>2
  <2>5. q.kind = call[c].kind /\ q.stage = "again" /\ DOMAIN q = DOMAIN call[c]
    BY <1>r, <2>3, <2>4
  <2>6. call'[c] = [q EXCEPT !.csrf = h]
    BY <1>2, <2>1, <2>2, <2>3 DEF Retried
  <2>7. call'[c].kind = call[c].kind /\ call'[c].stage = "again"
    BY <1>r, <2>5, <2>6
  <2>8. QED
    BY <1>2, <2>7 DEF InFlight
<1>3. CASE call[c].stage = "forbidden" /\ call'[c] = [call[c] EXCEPT !.stage = "bare", !.tok = 0, !.csrf = "fresh"]
  <2>2. PICK p : p = [call[c] EXCEPT !.stage = "bare"]
    OBVIOUS
  <2>3. PICK q : q = [p EXCEPT !.tok = 0]
    OBVIOUS
  <2>4. p.kind = call[c].kind /\ p.stage = "bare" /\ DOMAIN p = DOMAIN call[c]
    BY <1>r, <2>2
  <2>5. q.kind = call[c].kind /\ q.stage = "bare" /\ DOMAIN q = DOMAIN call[c]
    BY <1>r, <2>3, <2>4
  <2>6. call'[c] = [q EXCEPT !.csrf = "fresh"]
    BY <1>3, <2>2, <2>3
  <2>7. call'[c].kind = call[c].kind /\ call'[c].stage = "bare"
    BY <1>r, <2>5, <2>6
  <2>8. QED
    BY <1>3, <2>7 DEF InFlight
<1>4. QED
  BY <1>0, <1>1, <1>2, <1>3 DEF NotRenewed, Renewed, Recovered, GivenUp

LEMMA NextTurns ==
  ASSUME Shape, ServedPolls, scene.calls \subseteq Calls, Next
  PROVE  Turns
<1> USE DEF Slots
<1>1. CASE \/ BootCsrf \/ RefreshServe \/ RefreshAccepted \/ Expire \/ Revoke \/ Leave \/ Visible
           \/ \E o \in Orders : OrderEnds(o)
  BY <1>1, SameTurns DEF BootCsrf, RefreshServe, RefreshAccepted, Expire, Revoke, Leave, Visible,
     OrderEnds
<1>2. CASE RefreshRefused \/ RefreshLost \/ Recovered
  BY <1>2, WaitingTurns DEF RefreshRefused, RefreshLost
<1>3. CASE Profile
  BY <1>3, WaitingTurns, SameTurns DEF Profile
<1>4. ASSUME NEW c \in scene.calls, User(c) \/ IdleTimeout(c)
      PROVE  Turns
  <2>1. \E kind \in {"read", "write", "logout", "prepare", "cancel"} \cup SignIns : \E o :
          call' = [call EXCEPT ![c] = Sent(kind, o)] /\ Idle(c)
    BY <1>4 DEF User, Ask, Request, Logout, LeaveWith, Submit, Cancel, IdleTimeout
  <2>2. QED
    BY <2>1, SentTurns DEF SignIns, Hearts
<1>5. CASE \E c \in Slots : Server(c) \/ NetworkError(c)
  BY <1>5, ServerTurns
<1>6. CASE \E p \in Polls : Poll(p)
  BY <1>6, PollTurns DEF Poll
<1>7. QED
  BY <1>1, <1>2, <1>3, <1>4, <1>5, <1>6 DEF Next, Refresh

\* The rows are named after the requests that added them.
RowsNamed ==
  \A f \in rows : \E x \in Calls \cup {NoOrder} :
    f.id = <<"row", x>> /\ (x \in Calls => call[x].stage = "ok")
\* What a request adds is shown under a temporary id.
TempsNamed == \A c \in Toggling("favor") : \E d : toggle[c].entry = Temp(c, d)
\* Removals under way are about rows that a load brought, no two about the same one.
Removable ==
  /\ EntryOf(Toggling("unfavor")) \subseteq rows \ unseen
  /\ \A c, d \in Toggling("unfavor") : toggle[c].entry = toggle[d].entry => c = d
\* The list is ahead of the server by the toggles under way, and behind it by the
\* rows no load has brought.
Balanced ==
  /\ unseen \subseteq rows
  /\ items = ((rows \ unseen) \ EntryOf(Toggling("unfavor"))) \cup EntryOf(Toggling("favor"))

ListInv ==
  /\ toggle = [c \in Calls |-> toggle[c]]
  /\ ServedPolls /\ RowsNamed /\ TempsNamed
  /\ ~lost /\ ~tangled => Removable /\ Balanced

\* A temporary id tells the request; a row's id is never one.
LEMMA Ids ==
  ASSUME NEW c, NEW d, NEW x
  PROVE  /\ Temp(c, x).id = <<"temp", c>> /\ Temp(c, x).drink = x
         /\ Stored(c, x).id = <<"row", c>> /\ Stored(c, x).drink = x
         /\ <<"row", c>> # <<"temp", d>>
         /\ <<"row", c>> = <<"row", d>> => c = d
         /\ <<"temp", c>>[1] = "temp" /\ <<"row", c>>[1] # "temp"
<1>2. /\ Temp(c, x).id = <<"temp", c>> /\ Temp(c, x).drink = x
      /\ Stored(c, x).id = <<"row", c>> /\ Stored(c, x).drink = x
  BY DEF Temp, Stored, Entry
<1>3. <<"row", c>>[1] = "row" /\ <<"temp", d>>[1] = "temp" /\ <<"temp", c>>[1] = "temp"
  OBVIOUS
<1>4. <<"row", c>> # <<"temp", d>>
  BY <1>3
<1>5. <<"row", c>> = <<"row", d>> => c = d
  OBVIOUS
<1>6. QED
  BY <1>2, <1>3, <1>4, <1>5

LEMMA TempTells ==
  ASSUME NEW c, NEW d, NEW x, NEW y, Temp(c, x) = Temp(d, y)
  PROVE  c = d
<1>1. <<"temp", c>> = <<"temp", d>>
  BY Ids
<1>2. QED
  BY <1>1

\* Additions under way are shown as entries of their own, none of them a row.
LEMMA TempsApart ==
  ASSUME RowsNamed, TempsNamed
  PROVE  /\ \A c, d \in Toggling("favor") : toggle[c].entry = toggle[d].entry => c = d
         /\ \A c \in Toggling("favor") : toggle[c].entry \notin rows
<1>1. ASSUME NEW c \in Toggling("favor"), NEW d \in Toggling("favor"), toggle[c].entry = toggle[d].entry
      PROVE  c = d
  <2>1. PICK x : toggle[c].entry = Temp(c, x)
    BY DEF TempsNamed
  <2>2. PICK y : toggle[d].entry = Temp(d, y)
    BY DEF TempsNamed
  <2>3. Temp(c, x) = Temp(d, y)
    BY <1>1, <2>1, <2>2
  <2>4. QED
    BY <2>3, TempTells
<1>2. ASSUME NEW c \in Toggling("favor"), toggle[c].entry \in rows
      PROVE  FALSE
  <2>1. PICK x : toggle[c].entry = Temp(c, x)
    BY DEF TempsNamed
  <2>2. PICK r \in Calls \cup {NoOrder} : toggle[c].entry.id = <<"row", r>>
    BY <1>2 DEF RowsNamed
  <2>3. toggle[c].entry.id = <<"temp", c>>
    BY <2>1, Ids
  <2>4. QED
    BY <2>2, <2>3, Ids
<1>3. QED
  BY <1>1, <1>2

LEMMA InitList == ListInit => ListInv
<1> SUFFICES ASSUME ListInit
             PROVE  ListInv
  OBVIOUS
<1>1. toggle = [c \in Calls |-> toggle[c]]
  BY DEF ListInit
<1>2. \A c \in Calls : call[c].stage = "free"
  BY DEF ListInit, Init, Slots, NoCall
<1>3. Toggling("favor") = {} /\ Toggling("unfavor") = {} /\ ServedPolls
  BY <1>2 DEF Toggling, InFlight, ServedPolls
<1>4. rows = {} \/ \E d : rows = {Entry(<<"row", NoOrder>>, d)}
  BY DEF ListInit
<1>5. RowsNamed
  BY <1>4, BoundsAssumption DEF RowsNamed, Entry
<1>6. items = {} /\ unseen = rows
  BY DEF ListInit
<1>7. QED
  BY <1>1, <1>3, <1>5, <1>6 DEF ListInv, TempsNamed, Removable, Balanced, EntryOf

\* The toggles under way after a step of the rest of the client.
LEMMA TurnToggling ==
  ASSUME ServedPolls, Turns
  PROVE  /\ Failing \subseteq Toggling("favor") \cup Toggling("unfavor")
         /\ \A kind \in Hearts : Toggling(kind)' = Toggling(kind) \ Failing
         /\ ServedPolls'
         /\ \A c \in Calls : call[c].stage = "ok" => call'[c] = call[c]
<1> USE DEF Toggling, InFlight, Hearts
<1>1. Failing \subseteq Toggling("favor") \cup Toggling("unfavor")
  BY DEF Failing
<1>2. ASSUME NEW kind \in Hearts, NEW c \in Calls
      PROVE  c \in Toggling(kind)' <=> c \in Toggling(kind) \ Failing
  BY DEF Turns, Turn, Failing
<1>3. \A kind \in Hearts : Toggling(kind)' = Toggling(kind) \ Failing
  <2>1. \A kind : Toggling(kind)' \subseteq Calls /\ Toggling(kind) \subseteq Calls
    OBVIOUS
  <2> HIDE DEF Toggling, InFlight, Hearts
  <2>2. QED
    BY <1>2, <2>1
<1>4. ServedPolls'
  BY DEF Turns, Turn, ServedPolls
<1>5. \A c \in Calls : call[c].stage = "ok" => call'[c] = call[c]
  BY DEF Turns, Turn
<1>6. QED
  BY <1>1, <1>3, <1>4, <1>5

\* The requests F fail, and their error callbacks repair the list.
LEMMA PutBackStep ==
  ASSUME ListInv, NEW F, F \subseteq Toggling("favor") \cup Toggling("unfavor"), PutBack(F),
         \A kind \in Hearts : Toggling(kind)' = Toggling(kind) \ F,
         \A c \in Calls : call[c].stage = "ok" => call'[c] = call[c],
         ServedPolls', UNCHANGED <<rows, toggle, unseen>>, lost => lost'
  PROVE  ListInv'
<1> DEFINE added == {c \in F : call[c].kind = "favor"}
           gone == F \ added
           kept == items \ {toggle[c].entry : c \in added}
<1>1. added = F \cap Toggling("favor") /\ gone = F \cap Toggling("unfavor")
  BY DEF Toggling
<1>2. /\ \/ gone = {} /\ items' = kept
         \/ \E c \in gone : items' \in {toggle[c].snapshot, toggle[c].snapshot \ {toggle[d].entry : d \in added}}
      /\ tangled' = (tangled \/ \E c \in gone :
                       gone # {c} \/ toggle[c].snapshot # kept \cup {toggle[c].entry})
  BY DEF PutBack
<1> HIDE DEF added, gone, kept
<1>3. /\ Toggling("favor")' = Toggling("favor") \ added
      /\ Toggling("unfavor")' = Toggling("unfavor") \ gone
  BY <1>1 DEF Hearts
<1>4. TempsNamed'
  BY <1>3 DEF ListInv, TempsNamed
<1>5. RowsNamed'
  BY DEF ListInv, RowsNamed
<1>6. ASSUME ~lost', ~tangled'
      PROVE  Removable' /\ Balanced'
  <2>1. Removable /\ Balanced
    BY <1>2, <1>6 DEF ListInv
  <2>2. Removable'
    BY <1>3, <2>1 DEF Removable, EntryOf
  <2>4. \A c, d \in Toggling("favor") : toggle[c].entry = toggle[d].entry => c = d
    BY TempsApart DEF ListInv
  <2>5. \A c \in Toggling("favor") : toggle[c].entry \notin rows
    BY TempsApart DEF ListInv
  <2>6. kept = ((rows \ unseen) \ EntryOf(Toggling("unfavor"))) \cup EntryOf(Toggling("favor")')
    BY <1>1, <1>3, <2>1, <2>4, <2>5 DEF kept, Balanced, EntryOf
  <2>7. EntryOf(Toggling("favor"))' = EntryOf(Toggling("favor")') /\ EntryOf(Toggling("unfavor"))' = EntryOf(Toggling("unfavor")')
    BY DEF EntryOf
  <2>8. CASE gone = {}
    <3>1. items' = kept /\ Toggling("unfavor")' = Toggling("unfavor")
      BY <1>2, <1>3, <2>8
    <3>2. QED
      BY <2>1, <2>2, <2>6, <2>7, <3>1 DEF Balanced
  <2>9. ASSUME NEW c \in gone
        PROVE  Balanced'
    <3>1. gone = {c} /\ toggle[c].snapshot = kept \cup {toggle[c].entry}
      BY <1>2, <1>6, <2>9
    <3>2. c \in Toggling("unfavor") /\ toggle[c].entry \in rows \ unseen
      BY <1>1, <2>1, <2>9 DEF Removable, EntryOf
    <3>3. \A d \in added : toggle[d].entry # toggle[c].entry /\ toggle[d].entry \notin kept
      BY <1>1, <2>5, <3>2 DEF kept
    <3>4. items' = kept \cup {toggle[c].entry}
      BY <1>2, <3>1, <3>3
    <3>5. EntryOf(Toggling("unfavor")') = EntryOf(Toggling("unfavor")) \ {toggle[c].entry}
      BY <1>3, <2>1, <3>1, <3>2 DEF EntryOf, Removable
    <3>6. QED
      BY <2>1, <2>6, <2>7, <3>2, <3>4, <3>5 DEF Balanced
  <2>10. QED
    BY <2>2, <2>8, <2>9
<1>7. QED
  BY <1>4, <1>5, <1>6 DEF ListInv

\* One request of the list is made or answered, and the others stay.
LEMMA OneToggling ==
  ASSUME ClientInv, NEW c \in Calls, NEW q, call' = [call EXCEPT ![c] = q], q.kind \in Hearts
  PROVE  /\ \A d \in Calls \ {c} : call'[d] = call[d]
         /\ call'[c] = q
         /\ \A kind : \A d \in Calls \ {c} : d \in Toggling(kind)' <=> d \in Toggling(kind)
         /\ \A kind : c \in Toggling(kind)' <=>
              q.kind = kind /\ q.stage \notin {"free", "ok", "rejected", "failed"}
<1>1. /\ \A d \in Calls \ {c} : call'[d] = call[d]
      /\ call'[c] = q
  BY DEF ClientInv, Shape, Slots
<1>2. QED
  BY <1>1 DEF Toggling, InFlight

LEMMA HeartList ==
  ASSUME ClientInv, ListInv, NEW c \in Calls, Add(c) \/ Remove(c)
  PROVE  ListInv'
<1>1. PICK kind \in Hearts : \E e : Heart(c, kind, e)
  BY DEF Add, Remove, Hearts
<1>2. /\ call' = [call EXCEPT ![c] = Sent(kind, NoOrder)] /\ call[c].stage = "free"
      /\ UNCHANGED <<rows, unseen, lost>>
  BY <1>1 DEF Heart, history, Idle
<1>3. Sent(kind, NoOrder).kind = kind /\ Sent(kind, NoOrder).stage = "sent"
  BY DEF Sent
<1>4. PICK q : q = Sent(kind, NoOrder)
  OBVIOUS
<1>5. /\ \A d \in Calls \ {c} : call'[d] = call[d]
      /\ call'[c].kind = kind /\ call'[c].stage = "sent"
      /\ \A k : \A d \in Calls \ {c} : d \in Toggling(k)' <=> d \in Toggling(k)
      /\ c \in Toggling(kind)' /\ \A k : k # kind => c \notin Toggling(k)'
  <2>1. q.kind \in Hearts /\ call' = [call EXCEPT ![c] = q] /\ q.stage = "sent" /\ q.kind = kind
    BY <1>2, <1>3, <1>4
  <2>2. QED
    BY <2>1, OneToggling
<1>6. \A k : c \notin Toggling(k)
  BY <1>2 DEF Toggling, InFlight
<1>7. \A k : Toggling(k) \subseteq Calls /\ Toggling(k)' \subseteq Calls
  BY DEF Toggling
<1>8. \A k : Toggling(k)' = IF k = kind THEN Toggling(k) \cup {c} ELSE Toggling(k)
  BY <1>5, <1>6, <1>7
<1>9. ServedPolls'
  BY <1>5 DEF ListInv, ServedPolls
<1>10. RowsNamed'
  BY <1>2, <1>5 DEF ListInv, RowsNamed
<1>11. CASE Add(c)
  <2>1. PICK d \in Drinks : Heart(c, "favor", Temp(c, d)) /\ items' = items \cup {Temp(c, d)} /\ tangled' = tangled
    BY <1>11 DEF Add
  <2>2. /\ call'[c].kind = "favor" /\ kind = "favor"
        /\ toggle' = [toggle EXCEPT ![c] = [entry |-> Temp(c, d), snapshot |-> items, rest |-> {}]]
    <3>1. /\ call' = [call EXCEPT ![c] = Sent("favor", NoOrder)]
          /\ toggle' = [toggle EXCEPT ![c] = [entry |-> Temp(c, d), snapshot |-> items, rest |-> {}]]
      BY <2>1 DEF Heart
    <3>2. call'[c] = Sent("favor", NoOrder)
      BY <3>1 DEF ClientInv, Shape, Slots
    <3>3. QED
      BY <1>5, <3>1, <3>2 DEF Sent
  <2>3. toggle'[c].entry = Temp(c, d) /\ \A x \in Calls \ {c} : toggle'[x] = toggle[x]
    BY <2>2 DEF ListInv
  <2>4. Toggling("favor")' = Toggling("favor") \cup {c} /\ Toggling("unfavor")' = Toggling("unfavor")
    BY <1>8, <2>2
  <2>5. /\ EntryOf(Toggling("favor"))' = EntryOf(Toggling("favor")) \cup {Temp(c, d)}
        /\ EntryOf(Toggling("unfavor"))' = EntryOf(Toggling("unfavor"))
    BY <1>6, <1>7, <2>3, <2>4 DEF EntryOf
  <2>6. TempsNamed'
    BY <1>6, <1>7, <2>3, <2>4 DEF ListInv, TempsNamed
  <2>7. ~lost' /\ ~tangled' => Removable' /\ Balanced'
    <3> SUFFICES ASSUME ~lost', ~tangled'
                 PROVE  Removable' /\ Balanced'
      OBVIOUS
    <3>1. Removable /\ Balanced
      BY <1>2, <2>1 DEF ListInv
    <3>2. Removable'
      BY <1>2, <1>6, <1>7, <2>3, <2>4, <2>5, <3>1 DEF Removable
    <3>3. Balanced'
      BY <1>2, <2>1, <2>5, <3>1 DEF Balanced
    <3>4. QED
      BY <3>2, <3>3
  <2>8. toggle' = [x \in Calls |-> toggle'[x]]
    BY <2>2 DEF ListInv
  <2>9. QED
    BY <1>9, <1>10, <2>6, <2>7, <2>8 DEF ListInv
<1>12. CASE Remove(c)
  <2>1. PICK f \in items : Heart(c, "unfavor", f) /\ items' = items \ {f} /\ tangled' = (tangled \/ f.id[1] = "temp")
    BY <1>12 DEF Remove
  <2>2. /\ call'[c].kind = "unfavor" /\ kind = "unfavor"
        /\ toggle' = [toggle EXCEPT ![c] = [entry |-> f, snapshot |-> items, rest |-> {}]]
    <3>1. /\ call' = [call EXCEPT ![c] = Sent("unfavor", NoOrder)]
          /\ toggle' = [toggle EXCEPT ![c] = [entry |-> f, snapshot |-> items, rest |-> {}]]
      BY <2>1 DEF Heart
    <3>2. call'[c] = Sent("unfavor", NoOrder)
      BY <3>1 DEF ClientInv, Shape, Slots
    <3>3. QED
      BY <1>5, <3>1, <3>2 DEF Sent
  <2>3. toggle'[c].entry = f /\ \A x \in Calls \ {c} : toggle'[x] = toggle[x]
    BY <2>2 DEF ListInv
  <2>4. Toggling("unfavor")' = Toggling("unfavor") \cup {c} /\ Toggling("favor")' = Toggling("favor")
    BY <1>8, <2>2
  <2>5. /\ EntryOf(Toggling("unfavor"))' = EntryOf(Toggling("unfavor")) \cup {f}
        /\ EntryOf(Toggling("favor"))' = EntryOf(Toggling("favor"))
    BY <1>6, <1>7, <2>3, <2>4 DEF EntryOf
  <2>6. TempsNamed'
    BY <1>6, <1>7, <2>3, <2>4 DEF ListInv, TempsNamed
  <2>7. ~lost' /\ ~tangled' => Removable' /\ Balanced'
    <3> SUFFICES ASSUME ~lost', ~tangled'
                 PROVE  Removable' /\ Balanced'
      OBVIOUS
    <3>1. Removable /\ Balanced /\ f.id[1] # "temp"
      BY <1>2, <2>1 DEF ListInv
    <3>2. f \notin EntryOf(Toggling("favor"))
      <4>1. \A x \in Toggling("favor") : \E d : toggle[x].entry = Temp(x, d)
        BY DEF ListInv, TempsNamed
      <4>2. \A x \in Toggling("favor") : toggle[x].entry.id[1] = "temp"
        BY <4>1, Ids
      <4>3. QED
        BY <3>1, <4>2 DEF EntryOf
    <3>3. f \in rows \ unseen /\ f \notin EntryOf(Toggling("unfavor"))
      BY <2>1, <3>1, <3>2 DEF Balanced
    <3>4. Removable'
      <4>1. EntryOf(Toggling("unfavor"))' \subseteq rows' \ unseen'
        BY <1>2, <2>5, <3>1, <3>3 DEF Removable
      <4>2. ASSUME NEW x \in Toggling("unfavor")', NEW y \in Toggling("unfavor")',
                   toggle'[x].entry = toggle'[y].entry, x # y
            PROVE  FALSE
        <5>1. CASE x = c
          BY <1>7, <2>3, <2>4, <3>3, <4>2, <5>1 DEF EntryOf
        <5>2. CASE y = c
          BY <1>7, <2>3, <2>4, <3>3, <4>2, <5>2 DEF EntryOf
        <5>3. CASE x # c /\ y # c
          BY <1>7, <2>3, <2>4, <3>1, <4>2, <5>3 DEF Removable
        <5>4. QED
          BY <5>1, <5>2, <5>3
      <4>3. QED
        BY <4>1, <4>2 DEF Removable
    <3>5. Balanced'
      BY <1>2, <2>1, <2>5, <3>1, <3>2 DEF Balanced
    <3>6. QED
      BY <3>4, <3>5
  <2>8. toggle' = [x \in Calls |-> toggle'[x]]
    BY <2>2 DEF ListInv
  <2>9. QED
    BY <1>9, <1>10, <2>6, <2>7, <2>8 DEF ListInv
<1>13. QED
  BY <1>11, <1>12

\* A toggle is answered: the row comes or goes, and the list had it so already.
LEMMA AnswerList ==
  ASSUME ClientInv, ListInv, NEW c \in Calls, Added(c) \/ Removed(c)
  PROVE  ListInv'
<1>1. /\ call' = [call EXCEPT ![c] = [call[c] EXCEPT !.stage = "ok"]]
      /\ UNCHANGED <<lost, toggle, unseen, tangled>> /\ call[c].kind \in Hearts /\ InFlight(c)
  BY DEF Added, Removed, Done, history, Granted, Asked, InFlight, Hearts
<1>2. PICK q : q = [call[c] EXCEPT !.stage = "ok"]
  OBVIOUS
<1>3. q.kind = call[c].kind /\ q.stage = "ok"
  BY <1>2, CallFields DEF ClientInv, Slots
<1>4. /\ \A d \in Calls \ {c} : call'[d] = call[d]
      /\ call'[c] = q
      /\ \A k : \A d \in Calls \ {c} : d \in Toggling(k)' <=> d \in Toggling(k)
      /\ \A k : c \notin Toggling(k)'
  <2>1. call' = [call EXCEPT ![c] = q] /\ q.kind \in Hearts
    BY <1>1, <1>2, <1>3
  <2>2. QED
    BY <1>3, <2>1, OneToggling
<1>5. \A k : Toggling(k) \subseteq Calls /\ Toggling(k)' \subseteq Calls
  BY DEF Toggling
<1>6. \A k : Toggling(k)' = Toggling(k) \ {c}
  BY <1>4, <1>5
<1>7. ServedPolls'
  BY <1>3, <1>4 DEF ListInv, ServedPolls
<1>8. \A x \in Calls : call[x].stage = "ok" => call'[x].stage = "ok"
  BY <1>3, <1>4
<1>9. TempsNamed'
  BY <1>1, <1>6 DEF ListInv, TempsNamed
<1>10. EntryOf(Toggling("favor"))' = EntryOf(Toggling("favor")') /\ EntryOf(Toggling("unfavor"))' = EntryOf(Toggling("unfavor")')
  BY <1>1 DEF EntryOf
<1>11. CASE Added(c)
  <2>1. /\ rows' = rows \cup {Stored(c, toggle[c].entry.drink)}
        /\ items' = {Replaced(f, c) : f \in items} /\ call[c].kind = "favor"
    BY <1>11 DEF Added, Granted
  <2>2. c \in Toggling("favor") /\ c \notin Toggling("unfavor")
    BY <1>1, <2>1 DEF Toggling
  <2> DEFINE e == toggle[c].entry
             r == Stored(c, e.drink)
  <2>3. r.id = <<"row", c>>
    BY Ids
  <2>4. RowsNamed'
    BY <1>3, <1>4, <1>8, <2>1, <2>3 DEF ListInv, RowsNamed
  <2>5. r \notin rows
    <3>1. SUFFICES ASSUME r \in rows
                   PROVE  FALSE
      OBVIOUS
    <3>2. PICK x \in Calls \cup {NoOrder} : r.id = <<"row", x>> /\ (x \in Calls => call[x].stage = "ok")
      BY <3>1 DEF ListInv, RowsNamed
    <3>3. x = c
      BY <2>3, <3>2, Ids
    <3>4. QED
      BY <1>1, <3>2, <3>3 DEF InFlight
  <2>6. ~lost' /\ ~tangled' => Removable' /\ Balanced'
    <3> SUFFICES ASSUME ~lost', ~tangled'
                 PROVE  Removable' /\ Balanced'
      OBVIOUS
    <3>1. Removable /\ Balanced
      BY <1>1 DEF ListInv
    <3>2. Toggling("unfavor")' = Toggling("unfavor") /\ Toggling("favor")' = Toggling("favor") \ {c}
      BY <1>6, <2>2
    <3>3. Removable'
      BY <1>1, <2>1, <3>1, <3>2 DEF Removable, EntryOf
    <3>4. e \in items
      BY <2>2, <3>1 DEF Balanced, EntryOf
    <3> HIDE DEF r
    <3>5. items' = (items \ {e}) \cup {r}
      <4>1. \A f : Replaced(f, c) = IF f = e THEN Stored(c, f.drink) ELSE f
        BY DEF Replaced
      <4>2. Replaced(e, c) = r
        BY DEF Replaced, r
      <4>3. \A f \in items \ {e} : Replaced(f, c) = f
        BY <4>1
      <4> HIDE DEF e
      <4>4. QED
        BY <2>1, <3>4, <4>2, <4>3
    <3>6. EntryOf(Toggling("favor"))' = EntryOf(Toggling("favor")) \ {e}
      <4>1. \A x \in Toggling("favor") : toggle[x].entry = e => x = c
        BY <2>2, TempsApart DEF ListInv
      <4>2. EntryOf(Toggling("favor") \ {c}) = EntryOf(Toggling("favor")) \ {e}
        BY <2>2, <4>1 DEF EntryOf
      <4>3. QED
        BY <1>10, <3>2, <4>2
    <3>7. e \notin rows
      BY <2>2, TempsApart DEF ListInv
    <3>8. EntryOf(Toggling("unfavor")) \subseteq rows \ unseen /\ e \in EntryOf(Toggling("favor"))
      BY <2>2, <3>1 DEF Removable, EntryOf
    <3>9. EntryOf(Toggling("unfavor"))' = EntryOf(Toggling("unfavor"))
      BY <1>10, <3>2
    <3>10. rows' = rows \cup {r}
      BY <2>1 DEF r
    <3> HIDE DEF e
    <3>11. Balanced'
      BY <1>1, <2>5, <3>1, <3>5, <3>6, <3>7, <3>8, <3>9, <3>10 DEF Balanced
    <3>12. QED
      BY <3>3, <3>11
  <2>7. QED
    BY <1>1, <1>7, <1>9, <2>4, <2>6 DEF ListInv
<1>12. CASE Removed(c)
  <2>1. rows' = rows \ {toggle[c].entry} /\ items' = items /\ call[c].kind = "unfavor" /\ toggle[c].entry \in rows
    BY <1>12 DEF Removed, Granted
  <2>2. c \in Toggling("unfavor") /\ c \notin Toggling("favor")
    BY <1>1, <2>1 DEF Toggling
  <2>3. RowsNamed'
    BY <1>8, <2>1 DEF ListInv, RowsNamed
  <2>4. ~lost' /\ ~tangled' => Removable' /\ Balanced'
    <3> SUFFICES ASSUME ~lost', ~tangled'
                 PROVE  Removable' /\ Balanced'
      OBVIOUS
    <3>1. Removable /\ Balanced
      BY <1>1 DEF ListInv
    <3>2. Toggling("favor")' = Toggling("favor") /\ Toggling("unfavor")' = Toggling("unfavor") \ {c}
      BY <1>6, <2>2
    <3>3. EntryOf(Toggling("unfavor")') = EntryOf(Toggling("unfavor")) \ {toggle[c].entry}
      BY <2>2, <3>1, <3>2 DEF EntryOf, Removable
    <3>4. Removable'
      BY <1>1, <1>10, <2>1, <3>1, <3>2, <3>3 DEF Removable
    <3>5. toggle[c].entry \notin EntryOf(Toggling("favor"))
      BY <2>1, TempsApart DEF EntryOf, ListInv
    <3>6. toggle[c].entry \in EntryOf(Toggling("unfavor"))
      BY <2>2 DEF EntryOf
    <3>7. Balanced'
      BY <1>1, <1>10, <2>1, <2>2, <3>1, <3>2, <3>3, <3>5, <3>6 DEF Balanced, Removable
    <3>8. QED
      BY <3>4, <3>7
  <2>5. QED
    BY <1>1, <1>7, <1>9, <2>3, <2>4 DEF ListInv
<1>13. QED
  BY <1>11, <1>12

\* A toggle is rejected: its error callback repairs the list.
LEMMA RejectedList ==
  ASSUME ClientInv, ListInv, NEW c \in Calls, Rejected(c), PutBack(Failing)
  PROVE  ListInv'
<1>1. /\ call' = [call EXCEPT ![c] = [call[c] EXCEPT !.stage = "rejected"]]
      /\ UNCHANGED <<lost, toggle, rows, unseen>> /\ call[c].kind \in Hearts /\ InFlight(c)
  BY DEF Rejected, Denied, history, Granted, Asked, InFlight, Hearts
<1>2. PICK q : q = [call[c] EXCEPT !.stage = "rejected"]
  OBVIOUS
<1>3. q.kind = call[c].kind /\ q.stage = "rejected"
  BY <1>2, CallFields DEF ClientInv, Slots
<1>4. /\ \A d \in Calls \ {c} : call'[d] = call[d]
      /\ call'[c] = q
      /\ \A k : \A d \in Calls \ {c} : d \in Toggling(k)' <=> d \in Toggling(k)
      /\ \A k : c \notin Toggling(k)'
  <2>1. call' = [call EXCEPT ![c] = q] /\ q.kind \in Hearts
    BY <1>1, <1>2, <1>3
  <2>2. QED
    BY <1>3, <2>1, OneToggling
<1>5. Failing = {c}
  BY <1>1, <1>3, <1>4 DEF Failing, InFlight
<1>6. \A k : Toggling(k) \subseteq Calls /\ Toggling(k)' \subseteq Calls
  BY DEF Toggling
<1>7. \A k \in Hearts : Toggling(k)' = Toggling(k) \ Failing
  BY <1>4, <1>5, <1>6
<1>8. Failing \subseteq Toggling("favor") \cup Toggling("unfavor")
  BY <1>1, <1>5 DEF Toggling, Hearts
<1>9. ServedPolls'
  BY <1>3, <1>4 DEF ListInv, ServedPolls
<1>10. \A x \in Calls : call[x].stage = "ok" => call'[x] = call[x]
  BY <1>1, <1>4 DEF InFlight
<1>11. lost => lost'
  BY <1>1
<1>12. QED
  BY <1>1, <1>7, <1>8, <1>9, <1>10, <1>11, PutBackStep

\* The load of a page: what it read is no toggle.
LEMMA LoadClickList ==
  ASSUME ClientInv, ListInv, NEW c \in Calls, Load(c) \/ LoadServe(c)
  PROVE  ListInv'
<1>1. /\ UNCHANGED <<items, rows, unseen, lost, tangled>>
      /\ call[c].stage # "ok" /\ (call[c].stage = "free" \/ call[c].kind \notin Hearts)
  BY DEF Load, LoadServe, list, history, Granted, Asked, Idle, Hearts
<1>2. \E q : call' = [call EXCEPT ![c] = q] /\ q.kind = "load"
  <2>1. CASE Load(c)
    <3>1. call' = [call EXCEPT ![c] = Sent("load", NoOrder)]
      BY <2>1 DEF Load
    <3>2. Sent("load", NoOrder).kind = "load"
      BY DEF Sent
    <3>3. QED
      BY <3>1, <3>2
  <2>2. CASE LoadServe(c)
    <3>1. call' = [call EXCEPT ![c] = [call[c] EXCEPT !.stage = "arrived"]] /\ call[c].kind = "load"
      BY <2>2 DEF LoadServe, Granted
    <3> DEFINE q == [call[c] EXCEPT !.stage = "arrived"]
    <3>2. q.kind = "load"
      BY <3>1, CallFields DEF ClientInv, Slots
    <3>3. call' = [call EXCEPT ![c] = q]
      BY <3>1
    <3> HIDE DEF q
    <3>4. QED
      BY <3>2, <3>3
  <2>3. QED
    BY <2>1, <2>2
<1>3. call'[c].kind = "load" /\ \A d \in Calls \ {c} : call'[d] = call[d]
  BY <1>2 DEF ClientInv, Shape, Slots
<1>4. \A kind \in Hearts : Toggling(kind)' = Toggling(kind) /\ c \notin Toggling(kind)
  BY <1>1, <1>3 DEF Toggling, InFlight, Hearts
<1>5. /\ toggle' = [x \in Calls |-> toggle'[x]]
      /\ \A d \in Calls \ {c} : toggle'[d] = toggle[d]
  BY DEF Load, LoadServe, list, ListInv
<1>6. /\ Toggling("favor") \subseteq Calls \ {c} /\ Toggling("unfavor") \subseteq Calls \ {c}
      /\ Toggling("favor")' = Toggling("favor") /\ Toggling("unfavor")' = Toggling("unfavor")
  BY <1>4 DEF Hearts, Toggling
<1>7. /\ EntryOf(Toggling("favor"))' = EntryOf(Toggling("favor"))
      /\ EntryOf(Toggling("unfavor"))' = EntryOf(Toggling("unfavor"))
  BY <1>5, <1>6 DEF EntryOf
<1>8. ServedPolls'
  BY <1>3 DEF ListInv, ServedPolls, Hearts
<1>9. RowsNamed'
  BY <1>1, <1>3 DEF ListInv, RowsNamed
<1>10. TempsNamed'
  BY <1>5, <1>6 DEF ListInv, TempsNamed
<1>11. Removable => Removable'
  BY <1>1, <1>5, <1>6, <1>7 DEF Removable
<1>12. Balanced => Balanced'
  BY <1>1, <1>7 DEF Balanced
<1>13. QED
  BY <1>1, <1>5, <1>8, <1>9, <1>10, <1>11, <1>12 DEF ListInv

\* The page arrives: when it met no toggle the list is in step with the server again.
LEMMA LoadedList ==
  ASSUME ClientInv, ListInv, NEW c \in Calls, Loaded(c)
  PROVE  ListInv'
<1>1. /\ call' = [call EXCEPT ![c] = [call[c] EXCEPT !.stage = "ok"]] /\ call[c].stage = "arrived"
      /\ items' = toggle[c].snapshot /\ unseen' = rows \ toggle[c].snapshot
      /\ tangled' = \/ \E d \in Calls : call[d].kind \in Hearts /\ InFlight(d)
                    \/ rows # toggle[c].snapshot \cup toggle[c].rest
      /\ UNCHANGED <<rows, toggle, lost>>
  BY DEF Loaded, Done, history
<1>2. call'[c].kind = call[c].kind /\ call'[c].stage = "ok" /\ call[c].kind \notin Hearts
  BY <1>1, CallFields DEF ClientInv, Shape, Slots, ListInv, ServedPolls
<1>3. \A d \in Calls \ {c} : call'[d] = call[d]
  BY <1>1 DEF ClientInv, Shape, Slots
<1>4. Toggling("favor")' = Toggling("favor") /\ Toggling("unfavor")' = Toggling("unfavor")
  BY <1>2, <1>3 DEF Toggling, InFlight, Hearts
<1>5. ServedPolls' /\ RowsNamed' /\ TempsNamed'
  BY <1>1, <1>2, <1>3, <1>4 DEF ListInv, ServedPolls, RowsNamed, TempsNamed
<1>6. ASSUME ~tangled'
      PROVE  Removable' /\ Balanced'
  <2>1. Toggling("favor")' = {} /\ Toggling("unfavor")' = {} /\ toggle[c].snapshot \subseteq rows
    BY <1>1, <1>4, <1>6 DEF Toggling, Hearts
  <2>2. EntryOf(Toggling("favor"))' = {} /\ EntryOf(Toggling("unfavor"))' = {}
    BY <2>1 DEF EntryOf
  <2>3. QED
    BY <1>1, <2>1, <2>2 DEF Removable, Balanced
<1>7. QED
  BY <1>1, <1>5, <1>6 DEF ListInv

LEMMA LostStays == Next => (lost => lost')
  BY Zenon DEF Next, Refresh, RefreshServe, RefreshAccepted, RefreshRefused, Profile, Server,
     Unauthorized, Forbidden, Refused, Answered, LoggedIn, LoggedOut, Submitted, Cancelled,
     PollServe, PollAnswer, User, Ask, Request, Logout, LeaveWith, Submit, Cancel, IdleTimeout,
     BootCsrf, RefreshLost, Recovered, Expire, Revoke, Leave, Visible, NetworkError, Poll,
     OrderEnds, history

ListsInv == SessionListInv /\ ListInv

LEMMA ListsInductive == ListsInv /\ [ListNext]_listVars => ListsInv'
<1> SUFFICES ASSUME ListsInv, [ListNext]_listVars
             PROVE  ListInv'
  BY SessionInductive DEF ListsInv
<1> USE DEF ListsInv, SessionListInv
<1>1. CASE ListStep(Next)
  <2>1. Next /\ PutBack(Failing) /\ UNCHANGED <<rows, toggle, unseen>> /\ (lost => lost')
    BY <1>1, LostStays DEF ListStep
  <2>2. Turns
    BY <2>1, NextTurns, SceneCalls DEF ClientInv, ListInv
  <2>3. /\ Failing \subseteq Toggling("favor") \cup Toggling("unfavor")
        /\ \A kind \in Hearts : Toggling(kind)' = Toggling(kind) \ Failing
        /\ ServedPolls'
        /\ \A c \in Calls : call[c].stage = "ok" => call'[c] = call[c]
    BY <2>2, TurnToggling DEF ListInv
  <2>4. QED
    BY <2>1, <2>3, PutBackStep
<1>2. ASSUME NEW c \in scene.calls, Add(c) \/ Remove(c) \/ Load(c) \/ HeartAnswer(c) \/ LoadAnswer(c)
      PROVE  ListInv'
  <2>1. c \in Calls
    BY SceneCalls
  <2>2. QED
    BY <1>2, <2>1, HeartList, AnswerList, RejectedList, LoadClickList, LoadedList
       DEF HeartAnswer, LoadAnswer
<1>3. CASE UNCHANGED listVars
  <2>1. UNCHANGED <<call, lost, items, rows, toggle, unseen, tangled>>
    BY <1>3 DEF listVars, vars, list, history
  <2>2. QED
    BY <2>1 DEF ListInv, ServedPolls, RowsNamed, TempsNamed, Removable, Balanced, EntryOf,
       Toggling, InFlight
<1>4. QED
  BY <1>1, <1>2, <1>3 DEF ListNext

LEMMA ListsShow == ListsInv => ListShowsRows
<1> SUFFICES ASSUME ListsInv, ~lost, ~tangled, \A c \in Calls : call[c].kind \in Hearts => ~InFlight(c)
             PROVE  items = rows \ unseen
  BY DEF ListShowsRows
<1>1. Toggling("favor") = {} /\ Toggling("unfavor") = {}
  BY DEF Toggling, Hearts
<1>2. QED
  BY <1>1 DEF ListsInv, ListInv, Balanced, EntryOf

\* Whenever every toggle of the list of favorites is answered, the list shows
\* what the server keeps, but for the rows no load has brought: additions and
\* removals may overlap in any number, be refused for their CSRF token or with
\* 401, or lose their session, and what a load's answer or a removal has
\* overwritten is mended by the next load that meets no toggle.
THEOREM ListShowsRowsHolds == ListSpec => []ListShowsRows
<1>1. ListInit => ListsInv
  BY InitClient, InitList DEF ListInit, Init, ListsInv, SessionListInv
<1>2. ListsInv /\ [ListNext]_listVars => ListsInv'
  BY ListsInductive
<1>3. ListsInv => ListShowsRows
  BY ListsShow
<1>4. QED
  BY <1>1, <1>2, <1>3, PTL DEF ListSpec
=============================================================================
