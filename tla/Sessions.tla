------------------------------ MODULE Sessions ------------------------------
(***************************************************************************)
(* The tokens of auth.service.ts over the accounts of module Accounts:      *)
(* refresh_tokens, token_blacklist, the global salt and its cached copy.    *)
(* A pair of tokens is named by the request that issued it.  Every rotation *)
(* starts a new family, so the family of a token is that token alone.       *)
(* bcrypt compares the first 72 bytes, which the refresh tokens of a user   *)
(* have in common: a lookup may find any unrevoked record of the user.      *)
(***************************************************************************)
EXTENDS Accounts, Sequences

CONSTANTS MaxSessions,  \* unrevoked records a user may keep (5)
          AccessTime,   \* life of an access token (15 minutes)
          RefreshTime,  \* life of a refresh token and of a blacklist row (7 days)
          CacheTime     \* life of the cached salt version (5 minutes)

SessionOps == {"refresh", "logout", "logoutAll", "revokeAll", "access"}

ASSUME TimesAssumption ==
  /\ MaxSessions \in Nat \ {0} /\ AccessTime \in Nat \ {0}
  /\ RefreshTime \in Nat \ {0} /\ CacheTime \in Nat \ {0}

Tokens == [user : Users, ver : Nat, salt : Nat, at : Nat]
ASSUME TokensAssumption == Null \notin Tokens

VARIABLES
  active,     \* tokens with an unrevoked row in refresh_tokens
  issued,     \* all token rows ever inserted, in the order of created_at
  token,      \* what was signed: user, version and salt, and when
  black,      \* token_blacklist: kind, token and expires_at
  salt,       \* global_token_salt_version
  saltCache,  \* its cached copy
  work,       \* what a handler keeps: presented token, match, salt, session list
  ended,      \* history: tokens a revocation of all sessions has reached
  crossed,    \* history: requests on their way to a new token at that time
  out,        \* history: refresh tokens that were ever blacklisted
  saltSaved,  \* history: when the salt was last raised
  accepted    \* history: the last access token let in, and when

tokenVars == <<active, issued, token, black, salt, saltCache>>
history == <<ended, crossed, out, saltSaved, accepted>>
vars == <<accountVars, tokenVars, work, history>>

NoWork == [tok |-> Null, match |-> Null, salt |-> 0, list |-> {}]
NoCache == [v |-> 0, till |-> 0]

Of(u) == {t \in Requests : token[t] # Null /\ token[t].user = u}
Rank(t) == CHOOSE i \in DOMAIN issued : issued[i] = t
Held(t) == token[t] # Null /\ req[t].pc = "done"   \* its client has the answer
Blacklisted(kind, t) == \E b \in black : b.kind = kind /\ b.tok = t
\* Handlers that have settled which account or record their token rests on.
Issuing(u) == {r \in Requests : /\ req[r].user = u
                                /\ req[r].pc \in {"user", "rotate", "blacklist", "salt", "insertToken"}}

\* Variant: a save of the one record found, in place of the UPDATE of all.
RevokeUsersOne(U) ==
  LET tokens == UNION {Of(u) : u \in U}
  IN  /\ \/ tokens \cap active = {} /\ UNCHANGED active
         \/ \E t \in tokens \cap active : active' = active \ {t}
      /\ ended' = ended \cup tokens
      /\ crossed' = crossed \cup UNION {Issuing(u) : u \in U}
\* UPDATE refresh_tokens SET is_revoked for the users U.
RevokeUsers(U) ==
  LET tokens == UNION {Of(u) : u \in U}
  IN  /\ active' = active \ tokens
      /\ ended' = ended \cup tokens
      /\ crossed' = crossed \cup UNION {Issuing(u) : u \in U}

Keep == UNCHANGED <<menu, now, row, overtaken, lockout>>
Also(x) == /\ UNCHANGED <<tokenVars, history>> /\ work' = x

(****************************** generateTokens *****************************)
ReadSalt(r) ==
  /\ req[r].pc = "salt"
  /\ Also([work EXCEPT ![r].salt = salt])
  /\ Goto(r, "insertToken")
  /\ Keep
InsertToken(r) ==
  /\ req[r].pc = "insertToken"
  /\ token' = [token EXCEPT ![r] = [user |-> req[r].user, ver |-> req[r].copy.ver,
                                    salt |-> work[r].salt, at |-> now]]
  /\ issued' = Append(issued, r)
  /\ active' = active \cup {r}
  /\ Goto(r, "list")
  /\ Keep
  /\ UNCHANGED <<black, salt, saltCache, work, history>>
\* enforceSessionLimit lists the sessions of the user ...
ListSessions(r) ==
  /\ req[r].pc = "list"
  /\ Also([work EXCEPT ![r].list = active \cap Of(req[r].user)])
  /\ Goto(r, "evict")
  /\ Keep
\* ... and revokes the oldest ones of the list beyond the limit.
\* Variant: slice(0, n) is one too short.
OldestButOne(S, n) == {t \in S : Cardinality({s \in S : Rank(s) < Rank(t)}) < n - 1}
Oldest(S, n) == {t \in S : Cardinality({s \in S : Rank(s) < Rank(t)}) < n}
Evict(r) ==
  /\ req[r].pc = "evict"
  /\ LET list == work[r].list
     IN active' = active \ Oldest(list, Cardinality(list) - MaxSessions)
  /\ Goto(r, "done")
  /\ Keep
  /\ UNCHANGED <<issued, token, black, salt, saltCache, work, history>>

(********************************* refresh *********************************)
Begin(r, op, pc, u, w) ==
  /\ Start(r, op, pc, u, Null)
  /\ Also([work EXCEPT ![r] = w])
\* The JWT must not have expired; a blacklisted one revokes its family.
RefreshCheck(r) ==
  \E t \in Requests :
    /\ Held(t)
    /\ now < token[t].at + RefreshTime
    /\ Begin(r, "refresh", IF Blacklisted("refresh", t) THEN "family" ELSE "find",
             token[t].user, [NoWork EXCEPT !.tok = t])
RevokeFamily(r) ==
  /\ req[r].pc = "family"
  /\ active' = active \ {work[r].tok}
  /\ Goto(r, "done")
  /\ Keep
  /\ UNCHANGED <<issued, token, black, salt, saltCache, work, history>>
\* Some record of the user matches, or the token counts as reused.
Matching(r) == active \cap Of(req[r].user)
RefreshFind(r) ==
  /\ At(r, "refresh", "find")
  /\ \/ /\ Matching(r) = {}
        /\ Goto(r, "family")
        /\ Also(work)
     \/ \E m \in Matching(r) :
          /\ Goto(r, "user")
          /\ Also([work EXCEPT ![r].match = m])
  /\ Keep
RefreshUser(r) ==
  /\ At(r, "refresh", "user")
  /\ req' = [req EXCEPT ![r].pc = "rotate", ![r].copy = row[req[r].user]]
  /\ Also(work)
  /\ Keep
RotateRevoke(r) ==
  /\ At(r, "refresh", "rotate")
  /\ active' = active \ {work[r].match}
  /\ Goto(r, "blacklist")
  /\ Keep
  /\ UNCHANGED <<issued, token, black, salt, saltCache, work, history>>

(************************* blacklist, logout, cleanup **********************)
\* Variant: seven days written in seconds, where milliseconds are meant.
BlackRowBrief(kind, t) == [kind |-> kind, tok |-> t, till |-> now]
\* blacklistToken: a row that lives for seven days.
BlackRow(kind, t) == [kind |-> kind, tok |-> t, till |-> now + RefreshTime]
BlacklistToken(kind, t) ==
  /\ black' = black \cup {BlackRow(kind, t)}
  /\ out' = IF kind = "refresh" THEN out \cup {t} ELSE out
  /\ UNCHANGED <<active, issued, token, salt, saltCache, work,
                 ended, crossed, saltSaved, accepted>>
RotateBlacklist(r) ==
  /\ At(r, "refresh", "blacklist")
  /\ BlacklistToken("refresh", work[r].tok)
  /\ Goto(r, "salt")
  /\ Keep
\* What validateUser checks before the salt, and the guard after it.
Presentable(a, mutating) ==
  /\ Held(a)
  /\ now < token[a].at + AccessTime
  /\ ~Blacklisted("access", a)
  /\ token[a].ver = row[token[a].user].ver
  /\ Admitted(token[a].user, mutating)
\* logout blacklists the access token, then the refresh token of the cookie.
Logout(r) ==
  \E a \in Requests :
    /\ Presentable(a, TRUE)
    /\ \E t \in Of(token[a].user) :
         /\ Held(t)
         /\ Start(r, "logout", "logout", token[a].user, Null)
         /\ black' = black \cup {BlackRow("access", a)}
         /\ work' = [work EXCEPT ![r] = [NoWork EXCEPT !.tok = t]]
    /\ UNCHANGED <<active, issued, token, salt, saltCache, history>>
LogoutRefresh(r) ==
  /\ At(r, "logout", "logout")
  /\ BlacklistToken("refresh", work[r].tok)
  /\ Goto(r, "done")
  /\ Keep
LogoutAll(r) ==
  \E a \in Requests :
    /\ Presentable(a, TRUE)
    /\ Start(r, "logoutAll", "done", token[a].user, Null)
    /\ RevokeUsers({token[a].user})
    /\ UNCHANGED <<issued, token, black, salt, saltCache, work, out, saltSaved, accepted>>
\* Crons: expired blacklist rows; expired session rows (revoked ones are inert).
CleanBlacklist ==
  /\ \E b \in black : b.till < now
  /\ black' = {b \in black : b.till >= now}
  /\ UNCHANGED <<accountVars, active, issued, token, salt, saltCache, work, history>>
Outdated(t) == token[t].at + RefreshTime < now
CleanSessions ==
  /\ \E t \in active : Outdated(t)
  /\ active' = {t \in active : ~Outdated(t)}
  /\ UNCHANGED <<accountVars, issued, token, black, salt, saltCache, work, history>>

(***************************** revoking sessions ***************************)
\* The second statement of resetPassword, and the transaction of an e-mail change.
ResetRevoke(r) ==
  /\ At(r, "reset", "revoke")
  /\ RevokeUsers({req[r].user})
  /\ Goto(r, "done")
  /\ Keep
  /\ UNCHANGED <<issued, token, black, salt, saltCache, work, out, saltSaved, accepted>>
EmailCommit(r) ==
  /\ EmailSave(r)
  /\ IF EmailRefused(r) THEN UNCHANGED <<active, ended, crossed>>
                        ELSE RevokeUsers({req[r].user})
  /\ UNCHANGED <<issued, token, black, salt, saltCache, work, out, saltSaved, accepted>>

\* revokeAllSessions: read the salt, save it plus one, drop the cached copy;
\* the update of every record has no condition, and TypeORM refuses it.
RevokeAllRead(r) == Begin(r, "revokeAll", "saveSalt", Null, [NoWork EXCEPT !.salt = salt])
RevokeAllSave(r) ==
  /\ At(r, "revokeAll", "saveSalt")
  /\ salt' = work[r].salt + 1
  /\ saltSaved' = now
  /\ Goto(r, "dropCache")
  /\ Keep
  /\ UNCHANGED <<active, issued, token, black, saltCache, work, ended, crossed, out, accepted>>
RevokeAllDrop(r) ==
  /\ At(r, "revokeAll", "dropCache")
  /\ saltCache' = NoCache
  /\ Goto(r, "update")
  /\ Keep
  /\ UNCHANGED <<active, issued, token, black, salt, work, history>>
RevokeAllUpdate(r) ==
  /\ At(r, "revokeAll", "update")
  /\ Goto(r, "done")
  /\ Keep
  /\ UNCHANGED <<tokenVars, work, history>>

(********************************* validateUser ****************************)
LetIn(a, s) ==
  accepted' = IF token[a].salt < s THEN accepted ELSE [tok |-> a, at |-> now]
\* With the salt in the cache a request is decided at once ...
AccessCached(r) ==
  \E a \in Requests, mutating \in BOOLEAN :
    /\ Presentable(a, mutating)
    /\ saltCache.till > now
    /\ Start(r, "access", "done", token[a].user, Null)
    /\ LetIn(a, saltCache.v)
    /\ UNCHANGED <<tokenVars, work, ended, crossed, out, saltSaved>>
\* Variant: the entry is put there without a lifetime.
AccessFillForever(r) ==
  /\ At(r, "access", "fill")
  /\ saltCache' = [v |-> work[r].salt, till |-> menu.hours + 1]
  /\ LetIn(work[r].tok, work[r].salt)
  /\ Goto(r, "done")
  /\ Keep
  /\ UNCHANGED <<active, issued, token, black, salt, work, ended, crossed, out, saltSaved>>
\* ... otherwise it reads the setting and puts it there afterwards.
AccessRead(r) ==
  \E a \in Requests, mutating \in BOOLEAN :
    /\ Presentable(a, mutating)
    /\ saltCache.till <= now
    /\ Begin(r, "access", "fill", token[a].user, [NoWork EXCEPT !.tok = a, !.salt = salt])
AccessFill(r) ==
  /\ At(r, "access", "fill")
  /\ saltCache' = [v |-> work[r].salt, till |-> now + CacheTime]
  /\ LetIn(work[r].tok, work[r].salt)
  /\ Goto(r, "done")
  /\ Keep
  /\ UNCHANGED <<active, issued, token, black, salt, work, ended, crossed, out, saltSaved>>
\* The cache is shared: an invalidation elsewhere may clear it.
CacheCleared ==
  /\ saltCache # NoCache
  /\ saltCache' = NoCache
  /\ UNCHANGED <<accountVars, active, issued, token, black, salt, work, history>>

(****************************** specification ******************************)
Account(r) ==
  \/ RegisterCheck(r) \/ RegisterInsert(r) \/ LoginRead(r) \/ LoginFail(r)
  \/ LoginPass(r) \/ UpdateRead(r) \/ UpdateRefused(r) \/ UpdateSave(r)
  \/ AskResetRead(r) \/ AskResetSave(r) \/ ResetRead(r) \/ ResetSave(r) \/ AskUnlockRead(r)
  \/ AskUnlockSave(r) \/ UnlockRead(r) \/ UnlockSave(r) \/ VerifyRead(r)
  \/ VerifySave(r) \/ AskEmailRead(r) \/ AskEmailSave(r) \/ EmailRead(r)
  \/ RetainRead(r) \/ RetainSave(r)
Session(r) ==
  \/ ReadSalt(r) \/ InsertToken(r) \/ ListSessions(r) \/ Evict(r)
  \/ RefreshCheck(r) \/ RevokeFamily(r) \/ RefreshFind(r) \/ RefreshUser(r)
  \/ RotateRevoke(r) \/ RotateBlacklist(r) \/ Logout(r) \/ LogoutRefresh(r)
  \/ LogoutAll(r) \/ ResetRevoke(r) \/ EmailCommit(r) \/ RevokeAllRead(r) \/ RevokeAllSave(r)
  \/ RevokeAllDrop(r) \/ RevokeAllUpdate(r) \/ AccessCached(r) \/ AccessRead(r)
  \/ AccessFill(r)
\* A clock unit is minutes long: a cache fill does not last through one.
Hour == /\ \A r \in Requests : req[r].pc # "fill"
        /\ Tick
        /\ UNCHANGED <<tokenVars, work, history>>
Cron ==
  /\ CleanResetTokens \/ CleanVerification
  /\ UNCHANGED <<tokenVars, work, history>>

Init ==
  /\ menu \in Menus
  /\ now = 0
  /\ \E u \in Users, e \in Emails :
       row = [x \in Users |-> IF x = u THEN [NewRow(e, Null) EXCEPT !.verified = TRUE, !.seen = 0]
                              ELSE Null]
  /\ req = [r \in Requests |-> Fresh]
  /\ overtaken = {}
  /\ lockout = [u \in Users |-> Unlocked]
  /\ active = {} /\ issued = <<>> /\ token = [r \in Requests |-> Null]
  /\ black = {} /\ salt = 0 /\ saltCache = NoCache
  /\ work = [r \in Requests |-> NoWork]
  /\ ended = {} /\ crossed = {} /\ out = {} /\ saltSaved = 0
  /\ accepted = [tok |-> Null, at |-> 0]

Next ==
  \/ \E r \in Requests : Account(r) /\ UNCHANGED <<tokenVars, work, history>>
  \/ \E r \in Requests : Session(r)
  \/ Hour \/ Cron \/ CleanBlacklist \/ CleanSessions \/ CacheCleared
Spec == Init /\ [][Next]_vars

(******************************** properties *******************************)
\* Five wrong passwords in a row lock an account, and it stays locked for the
\* whole period or until a reset or an unlock mail: unless a save put back a
\* row that another handler had changed (login in auth.service.ts).
LockoutHolds ==
  \A u \in Users \ overtaken :
    /\ lockout[u].fails < MaxFails
    /\ lockout[u].till > now => row[u].locked = lockout[u].till

\* An account is anonymised only when its user has not logged in for IdleTime,
\* and for good, whatever handlers overlap the job, unless a save put back a
\* row that another one had changed (anonymizeInactiveUsers, login).
AnonymizedIdle ==
  [][\A u \in Registered \ overtaken' :
       row'[u].anon # row[u].anon => row'[u].anon /\ row[u].seen + IdleTime < now]_vars

\* However logins and refreshes overlap, a user has at most MaxSessions
\* unrevoked records besides those whose handler has still to enforce the
\* limit (enforceSessionLimit on an unlocked list).
SessionsBounded ==
  \A u \in Users :
    Cardinality(active \cap Of(u)) <=
      MaxSessions + Cardinality({r \in Requests : /\ req[r].user = u
                                                  /\ req[r].pc \in {"list", "evict"}})

\* A reset, an e-mail change or logout-all ends every session of its user, for
\* good, and none descends from an ended one except through a handler that was
\* between its lookup and its insert at that moment (the global revocation
\* ends none: its update is refused).
RevocationReaches ==
  /\ active \cap ended = {}
  /\ \A t \in active : work[t].match \in ended => t \in crossed

\* A refresh token that was rotated or logged out is never looked up again,
\* also after the crons have removed its blacklist row (refreshToken,
\* blacklistToken, cleanupExpiredTokens).
LoggedOutStaysOut ==
  [][\A r \in Requests :
       (req[r].pc = "new" /\ req'[r].pc = "find") => work'[r].tok \notin out]_vars

\* An access token from before a global revocation is let in only for one
\* cache period after the salt was raised, though a fill that read the old
\* salt may finish after revokeAllSessions has dropped the cached copy.
OldSaltBounded ==
  [][(accepted' # accepted /\ token[accepted'.tok].salt < salt)
        => now <= saltSaved + CacheTime]_vars

=============================================================================
