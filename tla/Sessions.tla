------------------------------ MODULE Sessions ------------------------------
(***************************************************************************)
(* Who a request acts as: browsers with one session_token cookie each, the *)
(* rows of user_sessions (one per user), and the requests in flight.       *)
(*                                                                         *)
(* A request presents the cookie its browser had when it was sent; its     *)
(* handler looks the token up, perhaps creates a user and a session, and   *)
(* acts; a response brings its Set-Cookie to the browser when it arrives,  *)
(* in any order with others, or is lost.  A token is a fresh random number *)
(* and a hash is the token it was made of.                                 *)
(***************************************************************************)
EXTENDS Naturals, FiniteSets

CONSTANTS Browser,
          Slot,        \* bound: requests in flight
          Account,     \* accounts with a password
          Guest,       \* bound: anonymous users ever created
          Token,       \* bound: tokens ever generated
          Kinds,       \* what browsers ask for
          Faults       \* what may go wrong: "lose" a response, "expire" a token

CONSTANTS NoToken,     \* no cookie; an empty one is looked up in vain likewise
          NoUser,
          Uses(_, _)   \* whether a browser sends a request through a slot

User == Account \cup Guest

ASSUME KindsAssumption == Kinds \subseteq {"write", "read", "account", "login"}
ASSUME FaultsAssumption == Faults \subseteq {"lose", "expire"}
ASSUME UserAssumption == Account \cap Guest = {} /\ NoUser \notin User
ASSUME TokenAssumption == NoToken \notin Token \cup {"none"} /\ "none" \notin Token

VARIABLES users,       \* rows of users
          tokenOf,     \* user_sessions.token_hash of each user
          expired,     \* tokens whose expires_at has passed
          jar,         \* the cookie of each browser
          pc,          \* where the request in each slot is
          req,         \* its browser, kind, cookie presented and user acted as
          cookie,      \* Set-Cookie of its response
          owner,       \* observer: the user each token was generated for
          ended,       \* observer: tokens that a later session of their user replaced
          actors       \* observer: browsers that acted as each user

tables   == <<users, tokenOf, expired>>
observer == <<owner, ended, actors>>
vars     == <<tables, jar, pc, req, cookie, observer>>

NoRequest == [browser |-> "none", kind |-> "none", token |-> NoToken, user |-> NoUser]
Request   == [browser : Browser \cup {"none"}, kind : Kinds \cup {"none"},
              token : Token \cup {NoToken}, user : User \cup {NoUser}]
Place     == {"idle", "lookup", "verify", "newUser", "newSession", "act", "reply"}

TypeOK ==
    /\ users \subseteq User
    /\ tokenOf \in [User -> Token \cup {NoToken}]
    /\ expired \subseteq Token
    /\ jar \in [Browser -> Token \cup {NoToken}]
    /\ pc \in [Slot -> Place]
    /\ req \in [Slot -> Request]
    /\ cookie \in [Slot -> Token \cup {NoToken, "none"}]
    /\ owner \in [Token -> User \cup {NoUser}]
    /\ ended \subseteq Token
    /\ actors \in [User -> SUBSET Browser]

Init ==
    /\ users = Account
    /\ tokenOf = [u \in User |-> NoToken]
    /\ expired = {}
    /\ jar = [b \in Browser |-> NoToken]
    /\ pc = [s \in Slot |-> "idle"]
    /\ req = [s \in Slot |-> NoRequest]
    /\ cookie = [s \in Slot |-> "none"]
    /\ owner = [k \in Token |-> NoUser]
    /\ ended = {}
    /\ actors = [u \in User |-> {}]

Goto(s, place) == pc' = [pc EXCEPT ![s] = place]

\* findUserSessionByTokenHash
Found(k) == {u \in User : tokenOf[u] = k /\ k # NoToken /\ k \notin expired}
Works(k) == Found(k) # {}

\* clearSessionToken, when a cookie was presented
Clear(s) == cookie' = [cookie EXCEPT ![s] = IF req[s].token = NoToken THEN "none" ELSE NoToken]

-----------------------------------------------------------------------------
Send(s) ==
    /\ pc[s] = "idle"
    /\ \E b \in Browser, kind \in Kinds :
          /\ Uses(b, s)
          /\ req' = [req EXCEPT ![s] = [browser |-> b, kind |-> kind,
                                        token |-> jar[b], user |-> NoUser]]
          /\ Goto(s, IF kind = "login" THEN "verify" ELSE "lookup")
    /\ UNCHANGED <<tables, jar, cookie, observer>>

\* The token is known: the request acts as its user, unless it asks for an
\* account (requireAdmin, requireAccount) and the user is an anonymous one.
MutantClearForbidden(s) ==
    /\ pc[s] = "lookup"
    /\ \E u \in Found(req[s].token) :
          IF req[s].kind = "account" /\ u \in Guest
          THEN Goto(s, "reply") /\ UNCHANGED req /\ Clear(s)
          ELSE /\ Goto(s, "act") /\ req' = [req EXCEPT ![s].user = u]
               /\ UNCHANGED cookie
    /\ UNCHANGED <<tables, jar, observer>>

FoundSession(s) ==
    /\ pc[s] = "lookup"
    /\ \E u \in Found(req[s].token) :
          IF req[s].kind = "account" /\ u \in Guest
          THEN Goto(s, "reply") /\ UNCHANGED req
          ELSE Goto(s, "act") /\ req' = [req EXCEPT ![s].user = u]
    /\ UNCHANGED <<tables, jar, cookie, observer>>

\* The table is asked for something else than the hash it stores.
MutantNeverFound(s) ==
    /\ pc[s] = "lookup"
    /\ \/ req[s].kind = "write" /\ Goto(s, "newUser") /\ UNCHANGED cookie
       \/ req[s].kind = "read" /\ Goto(s, "act") /\ Clear(s)
       \/ req[s].kind = "account" /\ Goto(s, "reply") /\ Clear(s)
    /\ UNCHANGED <<tables, jar, req, observer>>

\* It is not: a write creates an anonymous user (keeping quiet about the cookie),
\* a read goes on without a user, an account request is refused.
NoSession(s) ==
    /\ pc[s] = "lookup"
    /\ ~Works(req[s].token)
    /\ \/ req[s].kind = "write" /\ Goto(s, "newUser") /\ UNCHANGED cookie
       \/ req[s].kind = "read" /\ Goto(s, "act") /\ Clear(s)
       \/ req[s].kind = "account" /\ Goto(s, "reply") /\ Clear(s)
    /\ UNCHANGED <<tables, jar, req, observer>>

CreateAnonymousUser(s) ==
    /\ pc[s] = "newUser"
    /\ \E u \in Guest \ users :
          /\ users' = users \cup {u}
          /\ req' = [req EXCEPT ![s].user = u]
    /\ Goto(s, "newSession")
    /\ UNCHANGED <<tokenOf, expired, jar, cookie, observer>>

Login(s) ==
    /\ pc[s] = "verify"
    /\ \/ /\ \E u \in Account : req' = [req EXCEPT ![s].user = u]
          /\ Goto(s, "newSession")
       \/ Goto(s, "reply") /\ UNCHANGED req
    /\ UNCHANGED <<tables, jar, cookie, observer>>

\* A fresh token replaces the one the user's session had.
MutantKeepOldToken(s) ==
    /\ pc[s] = "newSession"
    /\ \E k \in {x \in Token : owner[x] = NoUser} :
          /\ tokenOf' = [tokenOf EXCEPT ![req[s].user] = IF @ = NoToken THEN k ELSE @]
          /\ owner' = [owner EXCEPT ![k] = req[s].user]
          /\ ended' = ended \cup ({tokenOf[req[s].user]} \ {NoToken})
          /\ cookie' = [cookie EXCEPT ![s] = k]
    /\ Goto(s, IF req[s].kind = "login" THEN "reply" ELSE "act")
    /\ UNCHANGED <<users, expired, jar, req, actors>>

\* The session goes to some anonymous user, not to the one that was inserted.
MutantAnyGuest(s) ==
    /\ pc[s] = "newSession"
    /\ \E k \in {x \in Token : owner[x] = NoUser}, u \in users \ (Account \ {req[s].user}) :
          /\ tokenOf' = [tokenOf EXCEPT ![u] = k]
          /\ owner' = [owner EXCEPT ![k] = u]
          /\ ended' = ended \cup ({tokenOf[u]} \ {NoToken})
          /\ cookie' = [cookie EXCEPT ![s] = k]
          /\ req' = [req EXCEPT ![s].user = u]
    /\ Goto(s, IF req[s].kind = "login" THEN "reply" ELSE "act")
    /\ UNCHANGED <<users, expired, jar, actors>>

CreateSession(s) ==
    /\ pc[s] = "newSession"
    /\ \E k \in {x \in Token : owner[x] = NoUser} :
          /\ tokenOf' = [tokenOf EXCEPT ![req[s].user] = k]
          /\ owner' = [owner EXCEPT ![k] = req[s].user]
          /\ ended' = ended \cup ({tokenOf[req[s].user]} \ {NoToken})
          /\ cookie' = [cookie EXCEPT ![s] = k]
    /\ Goto(s, IF req[s].kind = "login" THEN "reply" ELSE "act")
    /\ UNCHANGED <<users, expired, jar, req, actors>>

\* The statements of the request proper, or the refusal of its content: the
\* response carries the cookie either way.
Act(s) ==
    /\ pc[s] = "act"
    /\ Goto(s, "reply")
    /\ actors' = IF req[s].user = NoUser THEN actors
                 ELSE [actors EXCEPT ![req[s].user] = @ \cup {req[s].browser}]
    /\ UNCHANGED <<tables, jar, req, cookie, owner, ended>>

\* A statement is refused: internal_error.
StatementFails(s) ==
    /\ pc[s] \notin {"idle", "reply"}
    /\ Goto(s, "reply")
    /\ UNCHANGED <<tables, jar, req, cookie, observer>>

Close(s) ==
    /\ Goto(s, "idle")
    /\ req' = [req EXCEPT ![s] = NoRequest]
    /\ cookie' = [cookie EXCEPT ![s] = "none"]

MutantAlwaysSetCookie(s) ==
    /\ pc[s] = "reply"
    /\ jar' = [jar EXCEPT ![req[s].browser] = cookie[s]]
    /\ Close(s)
    /\ UNCHANGED <<tables, observer>>

Deliver(s) ==
    /\ pc[s] = "reply"
    /\ jar' = IF cookie[s] = "none" THEN jar ELSE [jar EXCEPT ![req[s].browser] = cookie[s]]
    /\ Close(s)
    /\ UNCHANGED <<tables, observer>>

\* The connection breaks; what the handler did stays done.
Lose(s) ==
    /\ "lose" \in Faults
    /\ pc[s] = "reply"
    /\ Close(s)
    /\ UNCHANGED <<tables, jar, observer>>

\* The expires_at of a row passes.
Expire ==
    /\ "expire" \in Faults
    /\ \E u \in User :
          /\ Works(tokenOf[u])
          /\ expired' = expired \cup {tokenOf[u]}
    /\ UNCHANGED <<users, tokenOf, jar, pc, req, cookie, observer>>

Handle(s) ==
    \/ FoundSession(s) \/ NoSession(s) \/ CreateAnonymousUser(s) \/ Login(s)
    \/ CreateSession(s) \/ Act(s) \/ StatementFails(s)

Next ==
    \/ \E s \in Slot : Send(s) \/ Handle(s) \/ Deliver(s) \/ Lose(s)
    \/ Expire

Spec == Init /\ [][Next]_vars

-----------------------------------------------------------------------------
(* Properties.                                                             *)

\* An anonymous user is one browser's: whatever is in flight, lost or expired, no
\* other browser ever acts as it, so "created by this user" is true of one only.
GuestHasOneBrowser ==
    \A u \in Guest : Cardinality(actors[u]) <= 1

\* The cookie a browser holds works until it expires or its account logs in
\* again: no other traffic of any browser ends a session, and the session of an
\* anonymous user, which cannot log in, only ends by expiry.
DeliveredTokenWorks ==
    \A b \in Browser : jar[b] # NoToken =>
        /\ jar[b] \notin expired \cup ended => Works(jar[b])
        /\ jar[b] \in ended => owner[jar[b]] \in Account

\* A cookie that a browser kept, or that a request carried since earlier, identifies
\* nobody once its token has expired or a later login of its user has replaced it;
\* before that it identifies the user it was issued to.
StaleTokenIdentifiesNobody ==
    [][\A s \in Slot : pc[s] = "lookup" /\ pc'[s] = "act" /\ req'[s].user # NoUser =>
           /\ req[s].token \notin expired \cup ended
           /\ owner[req[s].token] = req'[s].user]_vars

\* A browser that has one request in flight at a time.
Patient(b) == \A s, x \in Slot : Uses(b, s) /\ Uses(b, x) => s = x

\* A browser that waits for each response loses its cookie only when the server
\* does not know it any more.  (One that does not wait can lose a good one: the
\* response that clears an old cookie may arrive after the one that brought it.)
ClearsOnlyDead ==
    [][\A b \in Browser : Patient(b) /\ jar[b] # NoToken /\ jar'[b] = NoToken
                             => ~Works(jar[b])]_vars

\* README: the first write creates the anonymous user.  A browser that waits for
\* each response is never given another identity while the cookie it holds works.
\* (One that does not wait can: two first writes create a user each.)
IdentityKept ==
    [][\A s \in Slot : pc[s] = "newUser" /\ pc'[s] = "newSession" /\ Patient(req[s].browser)
                           => ~Works(jar[req[s].browser])]_vars

\* Whom a request acts as, from when it knows until its response.
actorOf == [s \in Slot |-> IF pc[s] \in {"newSession", "act"} THEN req[s].user ELSE NoUser]

\* The users whose session row holds a token that has not expired.
signedIn == {u \in User : tokenOf[u] # NoToken /\ tokenOf[u] \notin expired}

Identity == INSTANCE Identities WITH
    Client <- Slot, Nobody <- NoUser, members <- users, actor <- actorOf

\* Tokens, cookies and lookups come to no more than this: a request acts as a user
\* whose session is valid when it is looked up, as an anonymous user it made itself,
\* or as an account whose password it knew, and only these two make a session.
ImplementsIdentities == Identity!IdentitySpec
-----------------------------------------------------------------------------
(* The inductive invariant of the proofs in SessionsProofs.                *)

\* Tokens in jars, requests and responses were generated.
Generated(k) == k # NoToken => owner[k] # NoUser

TokensGenerated ==
    /\ \A b \in Browser : Generated(jar[b])
    /\ \A s \in Slot : Generated(req[s].token) /\ (cookie[s] # "none" => Generated(cookie[s]))

\* The table of sessions and the history of the tokens agree; only an account's
\* session is ever replaced.
RowsMatch ==
    /\ Account \subseteq users
    /\ \A u \in User : tokenOf[u] # NoToken => owner[tokenOf[u]] = u
    /\ \A u \in User : actors[u] # {} => u \in users
    /\ \A k \in Token : owner[k] \in users \cup {NoUser}
    /\ \A k \in Token : owner[k] # NoUser /\ k \notin ended => tokenOf[owner[k]] = k
    /\ \A k \in ended : owner[k] \in Account
    /\ \A u \in User : tokenOf[u] \notin ended

\* An anonymous user that waits for its session has none, and one request only.
NewSessions ==
    \A s \in Slot :
        /\ req[s].user \in users \cup {NoUser}
        /\ pc[s] = "newSession" => req[s].user \in users
        /\ pc[s] = "newSession" /\ req[s].user \in Guest =>
              /\ tokenOf[req[s].user] = NoToken
              /\ \A x \in Slot \ {s} : pc[x] = "newSession" => req[x].user # req[s].user

\* The browsers that act as a user, or that will with what they hold or are sent.
Bears(u, b) ==
    \/ jar[b] # NoToken /\ owner[jar[b]] = u
    \/ b \in actors[u]
    \/ \E s \in Slot :
          /\ req[s].browser = b
          /\ \/ req[s].user = u
             \/ req[s].token # NoToken /\ owner[req[s].token] = u
             \/ cookie[s] \in Token /\ owner[cookie[s]] = u

OneBearer == \A u \in Guest : \A b, c \in Browser : Bears(u, b) /\ Bears(u, c) => b = c

\* What a request in flight knows of its browser and of the token it presented.
InFlight ==
    \A s \in Slot :
        /\ pc[s] = "idle" => cookie[s] = "none" /\ req[s] = NoRequest
        /\ pc[s] # "idle" => req[s].browser \in Browser /\ Uses(req[s].browser, s)
        /\ pc[s] # "idle" /\ Patient(req[s].browser) => jar[req[s].browser] = req[s].token
        /\ pc[s] = "newUser" \/ cookie[s] = NoToken => ~Works(req[s].token)

\* Only a token that was generated expires, and a request that has not settled its
\* user names none.
NothingEarly ==
    /\ \A k \in expired : owner[k] # NoUser
    /\ \A s \in Slot : pc[s] \in {"lookup", "verify", "newUser"} => req[s].user = NoUser

SessionInv ==
    /\ TypeOK
    /\ TokensGenerated
    /\ RowsMatch
    /\ NewSessions
    /\ OneBearer
    /\ InFlight
    /\ NothingEarly
=============================================================================
