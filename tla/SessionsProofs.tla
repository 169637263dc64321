---------------------------- MODULE SessionsProofs ----------------------------
(***************************************************************************)
(* Proofs about Sessions for any number of browsers, requests in flight,   *)
(* accounts, anonymous users and tokens, with lost responses and expiry.   *)
(***************************************************************************)
EXTENDS Sessions, FiniteSetTheorems, TLAPS

\* What one slot does.
Step(s) == Send(s) \/ Handle(s) \/ Deliver(s) \/ Lose(s)

LEMMA InitHolds == Init => SessionInv
<1> SUFFICES ASSUME Init PROVE SessionInv
  OBVIOUS
<1> USE UserAssumption, TokenAssumption DEF Init, NoRequest
<1>1. TypeOK
  BY DEF TypeOK, Place, User, Request
<1>2. TokensGenerated
  BY DEF TokensGenerated, Generated
<1>3. RowsMatch
  BY DEF RowsMatch, User
<1>4. NewSessions
  BY DEF NewSessions
<1>5. OneBearer
  BY DEF OneBearer, Bears, User
<1>6. InFlight
  BY DEF InFlight
<1>7. NothingEarly
  BY DEF NothingEarly
<1> QED BY <1>1, <1>2, <1>3, <1>4, <1>5, <1>6, <1>7 DEF SessionInv

\* A step moves no other slot.
LEMMA Alone ==
    ASSUME TypeOK, NEW s \in Slot, Step(s), NEW x \in Slot \ {s}
    PROVE  pc'[x] = pc[x] /\ req'[x] = req[x] /\ cookie'[x] = cookie[x]
<1> USE DEF TypeOK, Goto
<1>1. CASE Send(s)
  BY <1>1 DEF Send
<1>2. CASE Handle(s)
  <2>1. CASE NoSession(s)
    BY <2>1 DEF NoSession, Clear
  <2>2. CASE FoundSession(s) \/ CreateAnonymousUser(s) \/ Login(s)
    BY <2>2 DEF FoundSession, CreateAnonymousUser, Login
  <2>3. CASE CreateSession(s) \/ Act(s) \/ StatementFails(s)
    BY <2>3 DEF CreateSession, Act, StatementFails
  <2> QED BY <1>2, <2>1, <2>2, <2>3 DEF Handle
<1>3. CASE Deliver(s) \/ Lose(s)
  BY <1>3 DEF Deliver, Lose, Close
<1> QED BY <1>1, <1>2, <1>3 DEF Step

-----------------------------------------------------------------------------
(* Types.                                                                  *)

LEMMA NameUser ==
    ASSUME TypeOK, NEW s \in Slot, NEW u \in User, req' = [req EXCEPT ![s].user = u]
    PROVE  req' \in [Slot -> Request]
BY DEF TypeOK, Request

LEMMA CloseType ==
    ASSUME TypeOK, NEW s \in Slot, Close(s)
    PROVE  /\ pc' \in [Slot -> Place] /\ req' \in [Slot -> Request]
           /\ cookie' \in [Slot -> Token \cup {NoToken, "none"}]
<1>1. NoRequest \in Request
  BY DEF NoRequest, Request
<1> QED BY <1>1 DEF TypeOK, Close, Goto, Place

LEMMA TypeStep ==
    ASSUME TypeOK, NewSessions, InFlight, [Next]_vars
    PROVE  TypeOK'
<1> USE DEF TypeOK, Goto, Place, tables, observer
<1>1. ASSUME NEW s \in Slot, Send(s) PROVE TypeOK'
  <2>1. PICK b \in Browser, kind \in Kinds :
             /\ req' = [req EXCEPT ![s] = [browser |-> b, kind |-> kind,
                                           token |-> jar[b], user |-> NoUser]]
             /\ Goto(s, IF kind = "login" THEN "verify" ELSE "lookup")
    BY <1>1 DEF Send
  <2>2. [browser |-> b, kind |-> kind, token |-> jar[b], user |-> NoUser] \in Request
    BY DEF Request
  <2> QED BY <1>1, <2>1, <2>2 DEF Send
<1>2. ASSUME NEW s \in Slot, Handle(s) PROVE TypeOK'
  <2>1. CASE FoundSession(s)
    <3>1. PICK u \in User : \/ Goto(s, "reply") /\ UNCHANGED req
                            \/ Goto(s, "act") /\ req' = [req EXCEPT ![s].user = u]
      BY <2>1 DEF FoundSession, Found
    <3>2. req' \in [Slot -> Request]
      BY <3>1, NameUser
    <3> QED BY <2>1, <3>1, <3>2 DEF FoundSession
  <2>2. CASE NoSession(s)
    <3>1. cookie' = cookie \/ Clear(s)
      BY <2>2 DEF NoSession
    <3>2. cookie' \in [Slot -> Token \cup {NoToken, "none"}]
      BY <3>1 DEF Clear
    <3>3. pc' \in [Slot -> Place]
      BY <2>2 DEF NoSession
    <3> QED BY <2>2, <3>2, <3>3 DEF NoSession
  <2>3. CASE CreateAnonymousUser(s)
    <3>1. PICK u \in Guest \ users : users' = users \cup {u} /\ req' = [req EXCEPT ![s].user = u]
      BY <2>3 DEF CreateAnonymousUser
    <3>2. u \in User /\ req' \in [Slot -> Request]
      BY <3>1, NameUser DEF User
    <3> QED BY <2>3, <3>1, <3>2 DEF CreateAnonymousUser
  <2>4. CASE Login(s)
    <3>1. req' \in [Slot -> Request]
      BY <2>4, NameUser DEF Login, User
    <3> QED BY <2>4, <3>1 DEF Login
  <2>5. CASE CreateSession(s)
    <3>1. req[s].user \in User
      BY <2>5 DEF CreateSession, NewSessions
    <3> QED BY <2>5, <3>1 DEF CreateSession
  <2>6. CASE Act(s)
    <3>1. req[s].browser \in Browser
      BY <2>6 DEF Act, InFlight
    <3> QED BY <2>6, <3>1 DEF Act
  <2>7. CASE StatementFails(s)
    BY <2>7 DEF StatementFails
  <2> QED BY <1>2, <2>1, <2>2, <2>3, <2>4, <2>5, <2>6, <2>7 DEF Handle
<1>3. ASSUME NEW s \in Slot, Deliver(s) \/ Lose(s) PROVE TypeOK'
  <2>1. jar' \in [Browser -> Token \cup {NoToken}]
    <3>1. CASE Lose(s) \/ cookie[s] = "none"
      BY <1>3, <3>1 DEF Deliver, Lose
    <3>2. CASE Deliver(s) /\ cookie[s] # "none"
      <4>1. jar' = [jar EXCEPT ![req[s].browser] = cookie[s]] /\ cookie[s] \in Token \cup {NoToken}
        BY <3>2 DEF Deliver
      <4> QED BY <4>1
    <3> QED BY <1>3, <3>1, <3>2
  <2>2. Close(s) /\ UNCHANGED <<tables, observer>>
    BY <1>3 DEF Deliver, Lose
  <2> QED BY <2>1, <2>2, CloseType
<1>4. CASE Expire
  <2>1. PICK u \in User : Works(tokenOf[u]) /\ expired' = expired \cup {tokenOf[u]}
    BY <1>4 DEF Expire
  <2>2. tokenOf[u] \in Token
    BY <2>1 DEF Works, Found
  <2> QED BY <1>4, <2>1, <2>2 DEF Expire
<1>5. CASE UNCHANGED vars
  BY <1>5 DEF vars
<1> QED BY <1>1, <1>2, <1>3, <1>4, <1>5 DEF Next
-----------------------------------------------------------------------------
(* The tokens and the table of sessions.                                   *)

\* Once generated, a token keeps its owner; only CreateSession generates one.
LEMMA OwnersStay ==
    ASSUME TypeOK, NewSessions, [Next]_vars
    PROVE  \A k \in Token : owner[k] # NoUser => owner'[k] = owner[k]
<1>1. ASSUME NEW s \in Slot, CreateSession(s)
      PROVE  \A k \in Token : owner[k] # NoUser => owner'[k] = owner[k]
  <2>1. PICK k \in Token : owner[k] = NoUser /\ owner' = [owner EXCEPT ![k] = req[s].user]
    BY <1>1 DEF CreateSession
  <2> QED BY <2>1 DEF TypeOK
<1>2. owner' = owner \/ \E s \in Slot : CreateSession(s)
  BY DEF Next, Send, Handle, FoundSession, NoSession, CreateAnonymousUser, Login, Act,
         StatementFails, Deliver, Lose, Expire, vars, observer
<1> QED BY <1>1, <1>2

LEMMA GeneratedStep ==
    ASSUME TypeOK, TokensGenerated, NewSessions, InFlight, [Next]_vars
    PROVE  TokensGenerated'
<1>a. \A k \in Token \cup {NoToken} : Generated(k) => Generated(k)'
  BY OwnersStay DEF Generated
<1>b. /\ \A b \in Browser : jar[b] \in Token \cup {NoToken} /\ Generated(jar[b])
      /\ \A s \in Slot : /\ req[s].token \in Token \cup {NoToken} /\ Generated(req[s].token)
                         /\ cookie[s] \in Token \cup {NoToken, "none"}
                         /\ cookie[s] # "none" => Generated(cookie[s])
  BY DEF TypeOK, TokensGenerated, Request
<1>c. \A b \in Browser : Generated(jar[b])'
      \/ \E s \in Slot : Deliver(s) /\ cookie[s] # "none"
  <2>1. CASE UNCHANGED jar
    BY <1>a, <1>b, <2>1 DEF Generated
  <2>2. CASE jar' # jar
    BY <2>2 DEF Next, Send, Handle, FoundSession, NoSession, CreateAnonymousUser, Login,
                CreateSession, Act, StatementFails, Deliver, Lose, Expire, vars
  <2> QED BY <2>1, <2>2
<1>1. \A b \in Browser : Generated(jar[b])'
  <2>1. ASSUME NEW s \in Slot, Deliver(s), cookie[s] # "none"
        PROVE  \A b \in Browser : Generated(jar[b])'
    <3>1. jar' = [jar EXCEPT ![req[s].browser] = cookie[s]] /\ UNCHANGED owner
      BY <2>1 DEF Deliver, observer
    <3>2. \A b \in Browser : jar'[b] = jar[b] \/ jar'[b] = cookie[s]
      BY <3>1 DEF TypeOK
    <3>3. Generated(cookie[s]) /\ \A b \in Browser : Generated(jar[b])
      BY <1>b, <2>1
    <3> QED BY <3>1, <3>2, <3>3 DEF Generated
  <2> QED BY <1>c, <2>1
<1>2. ASSUME NEW x \in Slot
      PROVE  (Generated(req[x].token) /\ (cookie[x] # "none" => Generated(cookie[x])))'
  <2>a. /\ req[x].token \in Token \cup {NoToken} /\ Generated(req[x].token)
        /\ cookie[x] \in Token \cup {NoToken, "none"}
        /\ cookie[x] # "none" => Generated(cookie[x])
    BY <1>b
  <2>b. /\ Generated(NoToken)'
        /\ req[x].token # NoToken => owner'[req[x].token] # NoUser
        /\ cookie[x] \notin {"none", NoToken} => owner'[cookie[x]] # NoUser
    BY <1>a, <2>a DEF Generated
  <2>1. CASE req'[x].token = req[x].token /\ cookie'[x] = cookie[x]
    BY <2>b, <2>1 DEF Generated
  <2>2. ASSUME NEW s \in Slot, Step(s), s # x
        PROVE  req'[x].token = req[x].token /\ cookie'[x] = cookie[x]
    BY <2>2, Alone
  <2>3. CASE Send(x)
    <3>1. PICK b \in Browser : req'[x].token = jar[b]
      BY <2>3 DEF Send, TypeOK
    <3>2. cookie' = cookie /\ owner' = owner
      BY <2>3 DEF Send, observer
    <3> QED BY <2>a, <1>b, <3>1, <3>2 DEF Generated
  <2>4. CASE CreateSession(x)
    <3>1. PICK k \in Token : /\ owner' = [owner EXCEPT ![k] = req[x].user]
                           /\ cookie' = [cookie EXCEPT ![x] = k] /\ req' = req
      BY <2>4 DEF CreateSession
    <3>2. req[x].user # NoUser
      BY <2>4, UserAssumption DEF CreateSession, NewSessions, TypeOK
    <3>3. cookie'[x] = k /\ owner'[k] # NoUser
      BY <3>1, <3>2 DEF TypeOK
    <3> QED BY <2>b, <3>1, <3>3 DEF Generated
  <2>5. CASE NoSession(x)
    <3>1. req' = req /\ (cookie'[x] = cookie[x] \/ cookie'[x] \in {"none", NoToken})
      BY <2>5 DEF NoSession, Clear, TypeOK
    <3> QED BY <2>b, <3>1 DEF Generated
  <2>6. CASE FoundSession(x) \/ CreateAnonymousUser(x) \/ Login(x) \/ Act(x) \/ StatementFails(x)
    BY <2>1, <2>6 DEF FoundSession, CreateAnonymousUser, Login, Act, StatementFails, TypeOK, Request
  <2>7. CASE Deliver(x) \/ Lose(x)
    BY <2>7 DEF Deliver, Lose, Close, NoRequest, TypeOK, Generated
  <2>8. CASE Expire \/ UNCHANGED vars
    BY <2>1, <2>8 DEF Expire, vars
  <2> QED BY <2>1, <2>2, <2>3, <2>4, <2>5, <2>6, <2>7, <2>8 DEF Next, Step, Handle
<1> QED BY <1>1, <1>2 DEF TokensGenerated

LEMMA RowsStep ==
    ASSUME TypeOK, RowsMatch, NewSessions, [Next]_vars
    PROVE  RowsMatch'
<1>1. ASSUME NEW s \in Slot, CreateSession(s) PROVE RowsMatch'
  <2>1. PICK k \in Token :
             /\ owner[k] = NoUser
             /\ tokenOf' = [tokenOf EXCEPT ![req[s].user] = k]
             /\ owner' = [owner EXCEPT ![k] = req[s].user]
             /\ ended' = ended \cup ({tokenOf[req[s].user]} \ {NoToken})
             /\ UNCHANGED <<users, actors>>
    BY <1>1 DEF CreateSession
  <2> DEFINE u == req[s].user
             old == tokenOf[u]
  <2>2. u \in users /\ u \in User /\ u # NoUser /\ (u \in Guest => old = NoToken)
    BY <1>1, UserAssumption DEF CreateSession, NewSessions, TypeOK
  <2>3. /\ tokenOf'[u] = k /\ \A v \in User \ {u} : tokenOf'[v] = tokenOf[v]
        /\ owner'[k] = u /\ \A x \in Token \ {k} : owner'[x] = owner[x]
    BY <2>1, <2>2 DEF TypeOK
  <2>4. old # NoToken => old \in Token /\ owner[old] = u /\ old # k
    BY <2>1, <2>2 DEF RowsMatch, TypeOK
  <2> HIDE DEF u, old
  <2>5. \A v \in User : tokenOf'[v] # NoToken => owner'[tokenOf'[v]] = v
    <3> TAKE v \in User
    <3> HAVE tokenOf'[v] # NoToken
    <3>1. CASE v = u
      BY <2>3, <3>1
    <3>2. CASE v # u
      <4>1. tokenOf'[v] = tokenOf[v] /\ tokenOf[v] \in Token /\ owner[tokenOf[v]] = v
        BY <2>3, <3>2 DEF RowsMatch, TypeOK
      <4>2. tokenOf[v] # k
        BY <4>1, <2>1, UserAssumption
      <4> QED BY <4>1, <4>2, <2>3
    <3> QED BY <3>1, <3>2
  <2>6. \A x \in Token : owner'[x] # NoUser /\ x \notin ended' => tokenOf'[owner'[x]] = x
    <3> TAKE x \in Token
    <3> HAVE owner'[x] # NoUser /\ x \notin ended'
    <3>1. CASE x = k
      BY <2>3, <3>1
    <3>2. CASE x # k
      <4>1. owner'[x] = owner[x] /\ x \notin ended /\ (x # old \/ old = NoToken)
        BY <2>1, <2>3, <3>2 DEF u, old
      <4>2. tokenOf[owner[x]] = x /\ owner[x] \in User /\ x # NoToken
        BY <4>1, TokenAssumption DEF RowsMatch, TypeOK
      <4>3. owner[x] # u
        BY <4>1, <4>2 DEF old
      <4> QED BY <4>1, <4>2, <4>3, <2>3
    <3> QED BY <3>1, <3>2
  <2>7. \A x \in ended' : owner'[x] \in Account
    <3> TAKE x \in ended'
    <3>1. CASE x \in ended
      <4>1. owner[x] \in Account /\ x \in Token
        BY <3>1 DEF RowsMatch, TypeOK
      <4>2. x # k
        BY <4>1, <2>1, UserAssumption DEF User
      <4> QED BY <4>1, <4>2, <2>3
    <3>2. CASE x = old /\ old # NoToken
      BY <3>2, <2>2, <2>3, <2>4 DEF User
    <3> QED BY <2>1, <3>1, <3>2 DEF u, old
  <2>8. \A x \in Token : owner'[x] \in users' \cup {NoUser}
    BY <2>1, <2>2, <2>3 DEF RowsMatch
  <2>9. \A v \in User : tokenOf'[v] \notin ended'
    <3> TAKE v \in User
    <3>1. CASE v = u
      <4>1. k \notin ended
        BY <2>1, UserAssumption DEF RowsMatch, User
      <4> QED BY <4>1, <2>1, <2>3, <2>4, <3>1 DEF u, old
    <3>2. CASE v # u
      <4>1. tokenOf'[v] = tokenOf[v] /\ tokenOf[v] \notin ended
        BY <2>3, <3>2 DEF RowsMatch
      <4>2. tokenOf[v] # NoToken => owner[tokenOf[v]] = v
        BY DEF RowsMatch
      <4> QED BY <4>1, <4>2, <2>1, <2>4, <3>2 DEF u, old
    <3> QED BY <3>1, <3>2
  <2> QED BY <2>1, <2>5, <2>6, <2>7, <2>8, <2>9 DEF RowsMatch
<1>2. ASSUME NEW s \in Slot, CreateAnonymousUser(s) PROVE RowsMatch'
  BY <1>2 DEF CreateAnonymousUser, observer, RowsMatch
<1>3. ASSUME NEW s \in Slot, Act(s) PROVE RowsMatch'
  <2>1. UNCHANGED <<users, tokenOf, owner, ended>>
    BY <1>3 DEF Act, tables
  <2>2. \A u \in User : actors'[u] # {} => u \in users
    <3>1. req[s].user \in users \cup {NoUser}
      BY DEF NewSessions
    <3>2. \A u \in User : actors'[u] = actors[u] \/ u = req[s].user
      BY <1>3 DEF Act, TypeOK
    <3> QED BY <3>1, <3>2, UserAssumption DEF RowsMatch
  <2> QED BY <2>1, <2>2 DEF RowsMatch
<1>4. CASE UNCHANGED <<users, tokenOf, owner, ended, actors>>
  BY <1>4 DEF RowsMatch
<1> QED BY <1>1, <1>2, <1>3, <1>4
        DEF Next, Send, Handle, FoundSession, NoSession, Login, StatementFails, Deliver, Lose,
            Expire, vars, tables, observer

LEMMA NewSessionsStep ==
    ASSUME TypeOK, RowsMatch, NewSessions, InFlight, [Next]_vars
    PROVE  NewSessions'
<1>1. ASSUME NEW s \in Slot, Step(s),
             req'[s].user \in users' \cup {NoUser}, users \subseteq users', tokenOf' = tokenOf,
             pc'[s] = "newSession" =>
                /\ req'[s].user \in users'
                /\ req'[s].user \in Guest => req'[s].user \notin users
      PROVE  NewSessions'
  <2>1. ASSUME NEW x \in Slot \ {s} PROVE pc'[x] = pc[x] /\ req'[x] = req[x]
    BY <1>1, <2>1, Alone
  <2>2. \A x \in Slot : req'[x].user \in users' \cup {NoUser}
                       /\ (pc'[x] = "newSession" => req'[x].user \in users')
    BY <1>1, <2>1 DEF NewSessions
  <2>3. \A u \in User \ users : tokenOf[u] = NoToken
    BY UserAssumption DEF RowsMatch, TypeOK
  <2>4. ASSUME NEW x \in Slot, pc'[x] = "newSession", req'[x].user \in Guest
        PROVE  /\ tokenOf'[req'[x].user] = NoToken
               /\ \A y \in Slot \ {x} : pc'[y] = "newSession" => req'[y].user # req'[x].user
    <3>1. CASE x = s
      <4>1. req'[s].user \in User \ users
        BY <1>1, <2>4, <3>1 DEF User
      <4>2. \A y \in Slot \ {s} : pc'[y] = "newSession" => req'[y].user \in users
        BY <2>1 DEF NewSessions
      <4> QED BY <1>1, <2>3, <3>1, <4>1, <4>2
    <3>2. CASE x # s
      <4>1. pc[x] = "newSession" /\ req'[x] = req[x] /\ req[x].user \in Guest
        BY <2>1, <2>4, <3>2
      <4>2. /\ tokenOf[req[x].user] = NoToken /\ req[x].user \in users
            /\ \A y \in Slot \ {x} : pc[y] = "newSession" => req[y].user # req[x].user
        BY <4>1 DEF NewSessions
      <4>3. pc'[s] = "newSession" => req'[s].user # req[x].user
        BY <1>1, <4>1, <4>2
      <4> QED BY <1>1, <2>1, <4>1, <4>2, <4>3
    <3> QED BY <3>1, <3>2
  <2> QED BY <2>2, <2>4 DEF NewSessions
<1>2. ASSUME NEW s \in Slot, CreateSession(s) PROVE NewSessions'
  <2>1. /\ req' = req /\ users' = users /\ pc'[s] # "newSession" /\ pc[s] = "newSession"
        /\ \A x \in Slot \ {s} : pc'[x] = pc[x]
        /\ \A u \in User : u # req[s].user => tokenOf'[u] = tokenOf[u]
    BY <1>2 DEF CreateSession, Goto, TypeOK
  <2> QED BY <2>1 DEF NewSessions, User
<1>3. ASSUME NEW s \in Slot, CreateAnonymousUser(s) PROVE NewSessions'
  <2>1. PICK u \in Guest \ users : users' = users \cup {u} /\ req' = [req EXCEPT ![s].user = u]
    BY <1>3 DEF CreateAnonymousUser
  <2>2. req'[s].user = u /\ tokenOf' = tokenOf
    BY <1>3, <2>1 DEF CreateAnonymousUser, TypeOK, Request
  <2> QED BY <1>1, <1>3, <2>1, <2>2 DEF Step, Handle
<1>4. ASSUME NEW s \in Slot, Login(s) PROVE NewSessions'
  <2>1. CASE \E u \in Account : req' = [req EXCEPT ![s].user = u]
    <3>1. PICK u \in Account : req' = [req EXCEPT ![s].user = u]
      BY <2>1
    <3>2. req'[s].user = u /\ users' = users /\ tokenOf' = tokenOf /\ u \notin Guest
      BY <1>4, <3>1, UserAssumption DEF Login, TypeOK, Request, tables
    <3> QED BY <1>1, <1>4, <3>2 DEF RowsMatch, Step, Handle
  <2>2. CASE Goto(s, "reply") /\ UNCHANGED req
    <3>1. pc'[s] = "reply" /\ users' = users /\ tokenOf' = tokenOf
      BY <1>4, <2>2 DEF Login, Goto, TypeOK, tables
    <3> QED BY <1>1, <1>4, <2>2, <3>1 DEF NewSessions, Step, Handle
  <2> QED BY <1>4, <2>1, <2>2 DEF Login
<1>5. ASSUME NEW s \in Slot, FoundSession(s) PROVE NewSessions'
  <2>1. PICK u \in Found(req[s].token) : \/ Goto(s, "reply") /\ UNCHANGED req
                                         \/ Goto(s, "act") /\ req' = [req EXCEPT ![s].user = u]
    BY <1>5 DEF FoundSession
  <2>2. u \in users
    <3>1. u \in User /\ tokenOf[u] # NoToken
      BY <2>1 DEF Found
    <3>2. owner[tokenOf[u]] = u /\ tokenOf[u] \in Token
      BY <3>1 DEF RowsMatch, TypeOK
    <3> QED BY <3>1, <3>2, UserAssumption DEF RowsMatch
  <2>3. /\ pc'[s] # "newSession" /\ users' = users /\ tokenOf' = tokenOf
        /\ req'[s].user \in {u, req[s].user}
    BY <1>5, <2>1 DEF FoundSession, Goto, TypeOK, Request, tables
  <2> QED BY <1>1, <1>5, <2>2, <2>3 DEF NewSessions, Step, Handle
<1>6. ASSUME NEW s \in Slot, Send(s) PROVE NewSessions'
  <2>1. req'[s].user = NoUser /\ pc'[s] # "newSession" /\ users' = users /\ tokenOf' = tokenOf
    BY <1>6 DEF Send, Goto, TypeOK, tables
  <2> QED BY <1>1, <1>6, <2>1 DEF Step
<1>7. ASSUME NEW s \in Slot, Deliver(s) \/ Lose(s) PROVE NewSessions'
  <2>1. req'[s].user = NoUser /\ pc'[s] # "newSession" /\ users' = users /\ tokenOf' = tokenOf
    BY <1>7 DEF Deliver, Lose, Close, NoRequest, Goto, TypeOK, tables
  <2> QED BY <1>1, <1>7, <2>1 DEF Step
<1>8. ASSUME NEW s \in Slot, NoSession(s) \/ Act(s) \/ StatementFails(s) PROVE NewSessions'
  <2>1. req' = req /\ pc'[s] # "newSession" /\ users' = users /\ tokenOf' = tokenOf
    BY <1>8 DEF NoSession, Act, StatementFails, Goto, TypeOK, tables
  <2> QED BY <1>1, <1>8, <2>1 DEF NewSessions, Step, Handle
<1>9. CASE Expire \/ UNCHANGED vars
  BY <1>9 DEF Expire, NewSessions, vars, tables
<1> QED BY <1>2, <1>3, <1>4, <1>5, <1>6, <1>7, <1>8, <1>9 DEF Next, Handle
-----------------------------------------------------------------------------
(* One browser to each anonymous user.                                     *)

\* Nothing bears a user that does not exist.
LEMMA NobodyBears ==
    ASSUME SessionInv, NEW u \in User \ users, NEW b \in Browser
    PROVE  ~Bears(u, b)
<1>1. u # NoUser /\ actors[u] = {}
  BY UserAssumption DEF SessionInv, RowsMatch
<1>2. \A k \in Token : owner[k] # u
  BY <1>1 DEF SessionInv, RowsMatch
<1>3. \A s \in Slot : req[s].user # u /\ req[s].token \in Token \cup {NoToken}
  BY <1>1 DEF SessionInv, NewSessions, TypeOK, Request
<1>4. jar[b] \in Token \cup {NoToken}
  BY DEF SessionInv, TypeOK
<1> QED BY <1>1, <1>2, <1>3, <1>4 DEF Bears

\* What the request of a slot says about the users its browser bears.
Tells(s, u) ==
    \/ req[s].user = u
    \/ req[s].token # NoToken /\ owner[req[s].token] = u
    \/ cookie[s] \in Token /\ owner[cookie[s]] = u

\* Only the creation of a user makes a browser bear one that it did not.
LEMMA BearStep ==
    ASSUME SessionInv, [Next]_vars, NEW u \in Guest, NEW b \in Browser, Bears(u, b)'
    PROVE  \/ Bears(u, b)
           \/ \E s \in Slot : CreateAnonymousUser(s) /\ u \notin users /\ req[s].browser = b
<1>a. /\ TypeOK /\ TokensGenerated /\ RowsMatch /\ NewSessions /\ InFlight
      /\ u \in User /\ u # NoUser
  BY UserAssumption DEF SessionInv, User
<1>b. /\ \A s \in Slot : /\ req[s] \in Request /\ req[s].token \in Token \cup {NoToken}
                         /\ cookie[s] \in Token \cup {NoToken, "none"}
      /\ jar[b] \in Token \cup {NoToken}
  BY <1>a DEF TypeOK, Request
\* A token that was generated keeps its owner.
<1>c. /\ \A k \in Token : owner[k] # NoUser => owner'[k] = owner[k]
      /\ jar[b] # NoToken => owner'[jar[b]] = owner[jar[b]]
      /\ \A s \in Slot :
            /\ req[s].token # NoToken => owner'[req[s].token] = owner[req[s].token]
            /\ cookie[s] \in Token => owner'[cookie[s]] = owner[cookie[s]]
  <2>1. \A k \in Token : owner[k] # NoUser => owner'[k] = owner[k]
    BY <1>a, OwnersStay
  <2>2. jar[b] # NoToken => owner[jar[b]] # NoUser
    BY <1>a DEF TokensGenerated, Generated
  <2>3. \A s \in Slot : /\ req[s].token # NoToken => owner[req[s].token] # NoUser
                        /\ cookie[s] \in Token => owner[cookie[s]] # NoUser
    BY <1>a, TokenAssumption DEF TokensGenerated, Generated
  <2> QED BY <1>b, <2>1, <2>2, <2>3
<1>d. \A s \in Slot : req[s].browser = b /\ Tells(s, u) => Bears(u, b)
  BY DEF Tells, Bears
<1>1. CASE jar'[b] # NoToken /\ owner'[jar'[b]] = u
  <2>1. CASE jar'[b] = jar[b]
    BY <1>1, <1>c, <2>1 DEF Bears
  <2>2. CASE jar'[b] # jar[b]
    <3>1. PICK s \in Slot : Deliver(s)
      BY <2>2 DEF Next, Send, Handle, FoundSession, NoSession, CreateAnonymousUser, Login,
                  CreateSession, Act, StatementFails, Lose, Expire, vars
    <3>2. req[s].browser = b /\ jar'[b] = cookie[s] /\ owner' = owner
      BY <1>a, <2>2, <3>1 DEF Deliver, TypeOK, observer
    <3>3. cookie[s] \in Token
      BY <1>1, <1>b, <2>2, <3>1, <3>2 DEF Deliver
    <3> QED BY <1>1, <1>d, <3>2, <3>3 DEF Tells
  <2> QED BY <2>1, <2>2
<1>2. CASE b \in actors'[u]
  <2>1. CASE b \in actors[u]
    BY <2>1 DEF Bears
  <2>2. CASE b \notin actors[u]
    <3>1. PICK s \in Slot : Act(s)
      BY <1>2, <2>2 DEF Next, Send, Handle, FoundSession, NoSession, CreateAnonymousUser, Login,
                  CreateSession, StatementFails, Deliver, Lose, Expire, vars, observer
    <3>2. req[s].user = u /\ req[s].browser = b
      BY <1>a, <1>2, <2>2, <3>1 DEF Act, TypeOK
    <3> QED BY <1>d, <3>2 DEF Tells
  <2> QED BY <2>1, <2>2
<1>3. ASSUME NEW s \in Slot, req'[s].browser = b, Tells(s, u)'
      PROVE  \/ Bears(u, b)
             \/ CreateAnonymousUser(s) /\ u \notin users /\ req[s].browser = b
  <2>1. CASE req'[s] = req[s] /\ cookie'[s] = cookie[s]
    <3>1. Tells(s, u)
      BY <1>3, <1>b, <1>c, <2>1 DEF Tells
    <3> QED BY <1>3, <1>d, <2>1, <3>1
  <2>2. ASSUME NEW x \in Slot, Step(x), x # s
        PROVE  req'[s] = req[s] /\ cookie'[s] = cookie[s]
    BY <1>a, <2>2, Alone
  <2>3. CASE Send(s)
    <3>1. /\ req'[s].token = jar[b] /\ req'[s].user = NoUser /\ owner' = owner
          /\ cookie'[s] = "none"
      BY <1>a, <1>3, <2>3 DEF Send, TypeOK, InFlight, observer
    <3>2. jar[b] # NoToken /\ owner[jar[b]] = u
      BY <1>a, <1>3, <3>1, TokenAssumption DEF Tells
    <3> QED BY <3>2 DEF Bears
  <2>4. CASE FoundSession(s)
    <3>1. PICK v \in Found(req[s].token) : req' = req \/ req' = [req EXCEPT ![s].user = v]
      BY <2>4 DEF FoundSession
    <3>2. /\ req'[s].browser = req[s].browser /\ req'[s].token = req[s].token
          /\ req'[s].user \in {req[s].user, v} /\ cookie' = cookie /\ owner' = owner
      BY <1>a, <1>b, <2>4, <3>1 DEF FoundSession, TypeOK, Request, observer
    <3>3. req[s].token # NoToken /\ owner[req[s].token] = v
      BY <1>a, <3>1 DEF Found, RowsMatch
    <3> QED BY <1>3, <1>d, <3>2, <3>3 DEF Tells
  <2>5. CASE NoSession(s)
    <3>1. req' = req /\ owner' = owner
          /\ (cookie'[s] = cookie[s] \/ cookie'[s] \in {"none", NoToken})
      BY <1>a, <2>5 DEF NoSession, Clear, TypeOK, observer
    <3> QED BY <1>3, <1>d, <3>1, TokenAssumption DEF Tells
  <2>6. CASE CreateAnonymousUser(s)
    <3>1. PICK v \in Guest \ users : req' = [req EXCEPT ![s].user = v]
      BY <2>6 DEF CreateAnonymousUser
    <3>2. /\ req'[s].browser = req[s].browser /\ req'[s].token = req[s].token
          /\ req'[s].user = v /\ cookie' = cookie /\ owner' = owner
      BY <1>a, <1>b, <2>6, <3>1 DEF CreateAnonymousUser, TypeOK, Request, observer
    <3> QED BY <1>3, <1>d, <2>6, <3>1, <3>2 DEF Tells
  <2>7. CASE Login(s)
    <3>1. CASE req' = req
      BY <2>1, <2>7, <3>1 DEF Login
    <3>2. ASSUME NEW v \in Account, req' = [req EXCEPT ![s].user = v] PROVE Bears(u, b)
      <4>1. /\ req'[s].browser = req[s].browser /\ req'[s].token = req[s].token
            /\ req'[s].user = v /\ cookie' = cookie /\ owner' = owner /\ v # u
        BY <1>a, <1>b, <2>7, <3>2, UserAssumption DEF Login, TypeOK, Request, observer
      <4> QED BY <1>3, <1>d, <4>1 DEF Tells
    <3> QED BY <2>7, <3>1, <3>2 DEF Login
  <2>8. CASE CreateSession(s)
    <3>1. PICK k \in Token : /\ owner' = [owner EXCEPT ![k] = req[s].user]
                             /\ cookie' = [cookie EXCEPT ![s] = k] /\ req' = req
      BY <2>8 DEF CreateSession
    <3>2. cookie'[s] = k /\ owner'[k] = req[s].user
      BY <1>a, <3>1 DEF TypeOK
    <3>3. Tells(s, u)
      BY <1>3, <1>c, <3>1, <3>2 DEF Tells
    <3> QED BY <1>3, <1>d, <3>1, <3>3
  <2>9. CASE Act(s) \/ StatementFails(s) \/ Expire \/ UNCHANGED vars
    BY <2>1, <2>9 DEF Act, StatementFails, Expire, vars
  <2>10. CASE Deliver(s) \/ Lose(s)
    <3>1. req'[s] = NoRequest /\ cookie'[s] = "none"
      BY <1>a, <2>10 DEF Deliver, Lose, Close, TypeOK
    <3> QED BY <1>a, <1>3, <3>1, TokenAssumption DEF Tells, NoRequest
  <2> QED BY <2>1, <2>2, <2>3, <2>4, <2>5, <2>6, <2>7, <2>8, <2>9, <2>10 DEF Next, Step, Handle
<1> QED BY <1>1, <1>2, <1>3 DEF Bears, Tells

LEMMA OneBearerStep ==
    ASSUME SessionInv, [Next]_vars
    PROVE  OneBearer'
<1> SUFFICES ASSUME NEW u \in Guest, NEW b \in Browser, NEW c \in Browser,
                    Bears(u, b)', Bears(u, c)'
             PROVE  b = c
  BY DEF OneBearer
<1>1. CASE u \in users
  <2>1. Bears(u, b) /\ Bears(u, c)
    BY <1>1, BearStep
  <2> QED BY <2>1 DEF SessionInv, OneBearer
<1>2. CASE u \notin users
  <2>1. ~Bears(u, b) /\ ~Bears(u, c)
    BY <1>2, NobodyBears DEF User
  <2>2. PICK s \in Slot : CreateAnonymousUser(s) /\ req[s].browser = b
    BY <2>1, BearStep
  <2>3. PICK x \in Slot : CreateAnonymousUser(x) /\ req[x].browser = c
    BY <2>1, BearStep
  <2>4. s = x
    <3>1. pc'[s] # pc[s]
      BY <2>2 DEF CreateAnonymousUser, Goto, SessionInv, TypeOK
    <3> QED BY <2>3, <3>1, Alone DEF Step, Handle, SessionInv
  <2> QED BY <2>2, <2>3, <2>4
<1> QED BY <1>1, <1>2
-----------------------------------------------------------------------------
(* What a request knows of its browser and its token.                      *)

\* A token that was generated and is not known any more is never known again.
LEMMA DeadStays ==
    ASSUME TypeOK, NewSessions, [Next]_vars,
           NEW k \in Token \cup {NoToken}, Generated(k), ~Works(k)
    PROVE  ~Works(k)'
<1>1. expired \subseteq expired'
  BY DEF Next, Send, Handle, FoundSession, NoSession, CreateAnonymousUser, Login,
         CreateSession, Act, StatementFails, Deliver, Lose, Expire, vars, tables
<1>2. \A u \in User : tokenOf'[u] = k /\ k # NoToken => tokenOf[u] = k
  <2>1. ASSUME NEW s \in Slot, CreateSession(s)
        PROVE  \A u \in User : tokenOf'[u] = k /\ k # NoToken => tokenOf[u] = k
    <3>1. PICK n \in Token : owner[n] = NoUser /\ tokenOf' = [tokenOf EXCEPT ![req[s].user] = n]
      BY <2>1 DEF CreateSession
    <3>2. k # NoToken => n # k
      BY <3>1 DEF Generated
    <3> QED BY <3>1, <3>2 DEF TypeOK
  <2>2. tokenOf' = tokenOf \/ \E s \in Slot : CreateSession(s)
    BY DEF Next, Send, Handle, FoundSession, NoSession, CreateAnonymousUser, Login, Act,
           StatementFails, Deliver, Lose, Expire, vars, tables
  <2> QED BY <2>1, <2>2
<1> QED BY <1>1, <1>2 DEF Works, Found

\* A browser's cookie changes only by a response to one of its requests.
LEMMA JarStep ==
    ASSUME TypeOK, [Next]_vars, NEW b \in Browser, jar'[b] # jar[b]
    PROVE  \E s \in Slot : /\ Deliver(s) /\ req[s].browser = b
                           /\ cookie[s] # "none" /\ jar'[b] = cookie[s]
<1>1. PICK s \in Slot : Deliver(s)
  BY DEF Next, Send, Handle, FoundSession, NoSession, CreateAnonymousUser, Login,
         CreateSession, Act, StatementFails, Lose, Expire, vars
<1>2. cookie[s] # "none" /\ jar' = [jar EXCEPT ![req[s].browser] = cookie[s]]
  BY <1>1 DEF Deliver
<1> QED BY <1>1, <1>2 DEF TypeOK

LEMMA InFlightStep ==
    ASSUME SessionInv, [Next]_vars
    PROVE  InFlight'
<1>a. TypeOK /\ TokensGenerated /\ RowsMatch /\ NewSessions /\ InFlight
  BY DEF SessionInv
<1>b. \A s \in Slot : req[s] \in Request /\ req[s].token \in Token \cup {NoToken}
                      /\ Generated(req[s].token)
  BY <1>a DEF TypeOK, Request, TokensGenerated
<1> DEFINE Knows(x) ==
        /\ pc[x] = "idle" => cookie[x] = "none" /\ req[x] = NoRequest
        /\ pc[x] # "idle" => req[x].browser \in Browser /\ Uses(req[x].browser, x)
        /\ pc[x] # "idle" /\ Patient(req[x].browser) => jar[req[x].browser] = req[x].token
        /\ pc[x] = "newUser" \/ cookie[x] = NoToken => ~Works(req[x].token)
<1> SUFFICES ASSUME NEW x \in Slot PROVE Knows(x)'
  BY DEF InFlight
<1>c. Knows(x)
  BY <1>a DEF InFlight
<1>d. ~Works(req[x].token) => ~(\E u \in User : /\ tokenOf'[u] = req[x].token
                                                /\ req[x].token # NoToken
                                                /\ req[x].token \notin expired')
  BY <1>a, <1>b, DeadStays DEF Works, Found
\* A patient browser's cookie stays while its request is in flight.
<1>e. pc[x] # "idle" /\ pc'[x] # "idle" /\ Patient(req[x].browser)
         => jar'[req[x].browser] = jar[req[x].browser]
  <2> SUFFICES ASSUME pc[x] # "idle", pc'[x] # "idle", Patient(req[x].browser),
                      jar'[req[x].browser] # jar[req[x].browser]
               PROVE  FALSE
    OBVIOUS
  <2>1. req[x].browser \in Browser /\ Uses(req[x].browser, x)
    BY <1>c
  <2>2. PICK s \in Slot : Deliver(s) /\ req[s].browser = req[x].browser
    BY <1>a, <2>1, JarStep
  <2>3. pc[s] = "reply" /\ pc'[s] = "idle"
    BY <1>a, <2>2 DEF Deliver, Close, Goto, TypeOK
  <2>4. Uses(req[s].browser, s)
    BY <1>a, <2>3 DEF InFlight
  <2>5. s = x
    BY <2>1, <2>2, <2>4 DEF Patient
  <2> QED BY <2>3, <2>5
\* A step that keeps who asks, with what.
<1>1. ASSUME pc[x] # "idle", pc'[x] # "idle",
             req'[x].browser = req[x].browser, req'[x].token = req[x].token,
             pc'[x] = "newUser" \/ cookie'[x] = NoToken => ~Works(req[x].token)
      PROVE  Knows(x)'
  BY <1>1, <1>c, <1>d, <1>e DEF Works, Found, Patient
<1>2. ASSUME pc'[x] = pc[x], req'[x] = req[x], cookie'[x] = cookie[x] PROVE Knows(x)'
  <2>1. CASE pc[x] = "idle"
    BY <1>2, <1>c, <2>1, TokenAssumption
  <2>2. CASE pc[x] # "idle"
    BY <1>1, <1>2, <1>c, <2>2
  <2> QED BY <2>1, <2>2
<1>3. ASSUME NEW s \in Slot, Step(s), s # x PROVE Knows(x)'
  BY <1>2, <1>3, <1>a, Alone
<1>4. CASE Send(x)
  <2>1. PICK b \in Browser, kind \in Kinds :
             /\ Uses(b, x)
             /\ req' = [req EXCEPT ![x] = [browser |-> b, kind |-> kind,
                                           token |-> jar[b], user |-> NoUser]]
             /\ Goto(x, IF kind = "login" THEN "verify" ELSE "lookup")
    BY <1>4 DEF Send
  <2>2. /\ req'[x].browser = b /\ req'[x].token = jar[b] /\ jar' = jar
        /\ pc'[x] \in {"verify", "lookup"} /\ cookie'[x] = "none"
    BY <1>4, <1>a, <1>c, <2>1 DEF Send, Goto, TypeOK
  <2> QED BY <2>1, <2>2, TokenAssumption
<1>5. CASE FoundSession(x)
  <2>1. PICK u \in User : \/ Goto(x, "reply") /\ UNCHANGED req
                          \/ Goto(x, "act") /\ req' = [req EXCEPT ![x].user = u]
    BY <1>5 DEF FoundSession, Found
  <2>2. /\ pc[x] = "lookup" /\ pc'[x] \in {"reply", "act"} /\ cookie' = cookie
        /\ req'[x].browser = req[x].browser /\ req'[x].token = req[x].token
    BY <1>5, <1>a, <1>b, <2>1 DEF FoundSession, Goto, TypeOK, Request
  <2> QED BY <1>1, <1>c, <2>2
<1>6. CASE NoSession(x)
  <2>1. pc[x] = "lookup" /\ pc'[x] \in {"newUser", "act", "reply"} /\ req' = req
        /\ ~Works(req[x].token)
    BY <1>6, <1>a DEF NoSession, Goto, TypeOK
  <2> QED BY <1>1, <2>1
<1>7. CASE CreateAnonymousUser(x)
  <2>1. /\ pc[x] = "newUser" /\ pc'[x] = "newSession" /\ cookie' = cookie
        /\ req'[x].browser = req[x].browser /\ req'[x].token = req[x].token
    BY <1>7, <1>a, <1>b DEF CreateAnonymousUser, Goto, TypeOK, Request
  <2> QED BY <1>1, <1>c, <2>1
<1>8. CASE Login(x)
  <2>1. /\ pc[x] = "verify" /\ pc'[x] \in {"newSession", "reply"} /\ cookie' = cookie
        /\ req'[x].browser = req[x].browser /\ req'[x].token = req[x].token
    BY <1>8, <1>a, <1>b DEF Login, Goto, TypeOK, Request
  <2> QED BY <1>1, <1>c, <2>1
<1>9. CASE CreateSession(x)
  <2>1. /\ pc[x] = "newSession" /\ pc'[x] \in {"reply", "act"} /\ req' = req
        /\ cookie'[x] \in Token
    BY <1>9, <1>a DEF CreateSession, Goto, TypeOK
  <2> QED BY <1>1, <2>1, TokenAssumption
<1>10. CASE Act(x) \/ StatementFails(x)
  <2>1. pc[x] # "idle" /\ pc'[x] = "reply" /\ req' = req /\ cookie' = cookie
    BY <1>10, <1>a DEF Act, StatementFails, Goto, TypeOK
  <2> QED BY <1>1, <1>c, <2>1
<1>11. CASE Deliver(x) \/ Lose(x)
  <2>1. pc'[x] = "idle" /\ cookie'[x] = "none" /\ req'[x] = NoRequest
    BY <1>11, <1>a DEF Deliver, Lose, Close, Goto, TypeOK
  <2> QED BY <2>1, TokenAssumption
<1>12. CASE Expire \/ UNCHANGED vars
  BY <1>2, <1>12 DEF Expire, vars
<1> HIDE DEF Knows
<1> QED BY <1>3, <1>4, <1>5, <1>6, <1>7, <1>8, <1>9, <1>10, <1>11, <1>12 DEF Next, Step, Handle

-----------------------------------------------------------------------------
(* What is not settled yet.                                                *)

LEMMA NothingEarlyStep ==
    ASSUME TypeOK, RowsMatch, NewSessions, NothingEarly, [Next]_vars
    PROVE  NothingEarly'
<1> USE DEF TypeOK, NothingEarly, Goto, tables, observer
<1>1. ASSUME NEW s \in Slot, Step(s) PROVE NothingEarly'
  <2>1. /\ expired' = expired
        /\ \A k \in Token : owner[k] # NoUser => owner'[k] # NoUser
    <3>1. CASE CreateSession(s)
      BY <3>1, UserAssumption DEF CreateSession, NewSessions, RowsMatch
    <3>2. CASE Handle(s) /\ ~CreateSession(s)
      BY <3>2 DEF Handle, FoundSession, NoSession, CreateAnonymousUser, Login, Act, StatementFails
    <3>3. CASE Send(s) \/ Deliver(s) \/ Lose(s)
      BY <3>3 DEF Send, Deliver, Lose
    <3> QED BY <1>1, <3>1, <3>2, <3>3 DEF Step
  <2>2. pc'[s] \in {"lookup", "verify", "newUser"} => req'[s].user = NoUser
    <3>1. CASE Send(s)
      BY <3>1 DEF Send
    <3>2. CASE NoSession(s)
      BY <3>2 DEF NoSession
    <3>3. CASE Handle(s) /\ ~NoSession(s)
      BY <3>3 DEF Handle, FoundSession, CreateAnonymousUser, Login, CreateSession, Act,
                  StatementFails
    <3>4. CASE Deliver(s) \/ Lose(s)
      BY <3>4 DEF Deliver, Lose, Close
    <3> QED BY <1>1, <3>1, <3>2, <3>3, <3>4 DEF Step
  <2>3. \A x \in Slot \ {s} : pc'[x] = pc[x] /\ req'[x] = req[x]
    BY <1>1, Alone
  <2> QED BY <2>1, <2>2, <2>3
<1>2. CASE Expire
  BY <1>2, UserAssumption DEF Expire, Works, Found, RowsMatch
<1>3. CASE UNCHANGED vars
  BY <1>3 DEF vars
<1> QED BY <1>1, <1>2, <1>3 DEF Next, Step

-----------------------------------------------------------------------------
(* The theorems.                                                           *)

LEMMA SessionsHold == Spec => []SessionInv
<1>1. SessionInv /\ [Next]_vars => SessionInv'
  <2> SUFFICES ASSUME SessionInv, [Next]_vars PROVE SessionInv'
    OBVIOUS
  <2>1. TypeOK'
    BY TypeStep DEF SessionInv
  <2>2. TokensGenerated'
    BY GeneratedStep DEF SessionInv
  <2>3. RowsMatch'
    BY RowsStep DEF SessionInv
  <2>4. NewSessions'
    BY NewSessionsStep DEF SessionInv
  <2>5. OneBearer' /\ InFlight'
    BY OneBearerStep, InFlightStep
  <2>6. NothingEarly'
    BY NothingEarlyStep DEF SessionInv
  <2> QED BY <2>1, <2>2, <2>3, <2>4, <2>5, <2>6 DEF SessionInv
<1> QED BY <1>1, InitHolds, PTL DEF Spec

\* The variables keep the types of the source's rows, cookies and handler states.
THEOREM TypeCorrect == Spec => []TypeOK
BY SessionsHold, PTL DEF SessionInv

\* No two browsers ever act as the same anonymous user, because no two ever hold,
\* are sent or present a token that was generated for it.
THEOREM GuestsHaveOneBrowser == Spec => []GuestHasOneBrowser
<1>1. SessionInv => GuestHasOneBrowser
  <2> SUFFICES ASSUME SessionInv, NEW u \in Guest PROVE Cardinality(actors[u]) <= 1
    BY DEF GuestHasOneBrowser
  <2>1. actors[u] \subseteq Browser
    BY DEF SessionInv, TypeOK, User
  <2>2. CASE actors[u] = {}
    BY <2>2, FS_EmptySet
  <2>3. CASE actors[u] # {}
    <3>1. PICK b \in Browser : b \in actors[u]
      BY <2>1, <2>3
    <3>2. \A c \in actors[u] : c = b
      BY <2>1, <3>1 DEF SessionInv, OneBearer, Bears
    <3>3. actors[u] = {b}
      BY <3>1, <3>2
    <3>4. Cardinality(actors[u]) = 1
      BY <3>3, FS_Singleton
    <3> QED BY <3>4
  <2> QED BY <2>2, <2>3
<1> QED BY <1>1, SessionsHold, PTL

\* A cookie that was delivered is good until it expires or its account logs in
\* again, whatever the other requests in flight do.
THEOREM DeliveredTokensWork == Spec => []DeliveredTokenWorks
<1>1. SessionInv => DeliveredTokenWorks
  <2> SUFFICES ASSUME SessionInv, NEW b \in Browser, jar[b] # NoToken
               PROVE  /\ jar[b] \notin expired \cup ended => Works(jar[b])
                      /\ jar[b] \in ended => owner[jar[b]] \in Account
    BY DEF DeliveredTokenWorks
  <2>1. jar[b] \in Token /\ owner[jar[b]] \in User
    BY DEF SessionInv, TypeOK, TokensGenerated, Generated
  <2>2. ASSUME jar[b] \notin expired \cup ended PROVE Works(jar[b])
    <3>1. tokenOf[owner[jar[b]]] = jar[b]
      BY <2>1, <2>2, UserAssumption DEF SessionInv, RowsMatch
    <3>2. owner[jar[b]] \in Found(jar[b])
      BY <2>1, <2>2, <3>1 DEF Found
    <3> QED BY <3>2 DEF Works
  <2>3. jar[b] \in ended => owner[jar[b]] \in Account
    BY DEF SessionInv, RowsMatch
  <2> QED BY <2>2, <2>3
<1> QED BY <1>1, SessionsHold, PTL

\* Whatever is in flight, a lookup accepts a token only while it is the last one its
\* user was given and has not expired.
THEOREM StaleTokensIdentifyNobody == Spec => StaleTokenIdentifiesNobody
<1>1. SessionInv /\ [Next]_vars =>
        [\A s \in Slot : pc[s] = "lookup" /\ pc'[s] = "act" /\ req'[s].user # NoUser =>
             /\ req[s].token \notin expired \cup ended
             /\ owner[req[s].token] = req'[s].user]_vars
  <2> SUFFICES ASSUME SessionInv, Next, NEW s \in Slot,
                      pc[s] = "lookup", pc'[s] = "act", req'[s].user # NoUser
               PROVE  /\ req[s].token \notin expired \cup ended
                      /\ owner[req[s].token] = req'[s].user
    OBVIOUS
  <2>a. TypeOK /\ RowsMatch /\ req[s].user = NoUser
    BY DEF SessionInv, NothingEarly
  <2>1. FoundSession(s)
    <3>1. PICK x \in Slot : Step(x)
      BY <2>a DEF Next, Step, Expire
    <3>2. x = s
      BY <2>a, <3>1, Alone
    <3>3. ~Send(s) /\ ~CreateAnonymousUser(s) /\ ~Login(s) /\ ~CreateSession(s) /\ ~Act(s)
          /\ ~Deliver(s) /\ ~Lose(s)
      BY DEF Send, CreateAnonymousUser, Login, CreateSession, Act, Deliver, Lose
    <3>4. ~NoSession(s)
      BY <2>a DEF NoSession
    <3>5. ~StatementFails(s)
      BY <2>a DEF StatementFails
    <3> QED BY <3>1, <3>2, <3>3, <3>4, <3>5 DEF Step, Handle
  <2>2. PICK u \in Found(req[s].token) : req' = [req EXCEPT ![s].user = u]
    BY <2>1, <2>a DEF FoundSession, Goto, TypeOK
  <2>3. /\ tokenOf[u] = req[s].token /\ req[s].token # NoToken /\ req[s].token \notin expired
        /\ u \in User /\ req'[s].user = u
    BY <2>2, <2>a DEF Found, TypeOK, Request
  <2> QED BY <2>3, <2>a DEF RowsMatch
<1> QED BY <1>1, SessionsHold, PTL DEF Spec, StaleTokenIdentifiesNobody

\* A browser that waits for each response keeps its cookie while it works.
THEOREM OnlyDeadCookiesAreCleared == Spec => ClearsOnlyDead
<1>1. SessionInv /\ [Next]_vars =>
         [\A b \in Browser : Patient(b) /\ jar[b] # NoToken /\ jar'[b] = NoToken
                                => ~Works(jar[b])]_vars
  <2> SUFFICES ASSUME SessionInv, [Next]_vars, NEW b \in Browser,
                      Patient(b), jar[b] # NoToken, jar'[b] = NoToken
               PROVE  ~Works(jar[b])
    OBVIOUS
  <2>1. PICK s \in Slot : Deliver(s) /\ req[s].browser = b /\ cookie[s] = NoToken
    BY JarStep DEF SessionInv
  <2>2. pc[s] = "reply"
    BY <2>1 DEF Deliver
  <2> QED BY <2>1, <2>2 DEF SessionInv, InFlight
<1> QED BY <1>1, SessionsHold, PTL DEF Spec, ClearsOnlyDead

\* A browser that waits for each response becomes a new anonymous user only when
\* the cookie it holds is not known.
THEOREM IdentityIsKept == Spec => IdentityKept
<1>1. SessionInv /\ [Next]_vars =>
         [\A s \in Slot : pc[s] = "newUser" /\ pc'[s] = "newSession" /\ Patient(req[s].browser)
                             => ~Works(jar[req[s].browser])]_vars
  <2> SUFFICES ASSUME SessionInv, NEW s \in Slot, pc[s] = "newUser", Patient(req[s].browser)
               PROVE  ~Works(jar[req[s].browser])
    OBVIOUS
  <2> QED BY DEF SessionInv, InFlight
<1> QED BY <1>1, SessionsHold, PTL DEF Spec, IdentityKept

-----------------------------------------------------------------------------
(* Tokens and cookies implement the abstract identities.                   *)

\* A step of a slot changes whom that one acts as, if anybody.
LEMMA OnlyActor ==
    ASSUME TypeOK, NEW s \in Slot, Step(s)
    PROVE  actorOf' = [actorOf EXCEPT ![s] = actorOf'[s]]
<1>1. \A x \in Slot \ {s} : actorOf'[x] = actorOf[x]
  BY Alone DEF actorOf
<1> QED BY <1>1 DEF actorOf

\* Where no session row and no expiry changes, nobody's sign-in does.
LEMMA SameSignedIn ==
    ASSUME UNCHANGED <<tokenOf, expired>>
    PROVE  signedIn' = signedIn
BY DEF signedIn

\* The steps of a handler that end or leave alone what it acts as.
LEMMA ActsNoMore ==
    ASSUME TypeOK, NEW s \in Slot, Step(s), UNCHANGED tables,
           pc'[s] \notin {"newSession", "act"}
    PROVE  Identity!Done(s)
<1>1. actorOf'[s] = NoUser
  BY DEF actorOf
<1>2. actorOf' = [actorOf EXCEPT ![s] = NoUser]
  BY <1>1, OnlyActor
<1> QED BY <1>2, SameSignedIn DEF Identity!Done, Identity!Leave, tables

\* A fresh token signs its user in and nobody out.
LEMMA TokenSignsIn ==
    ASSUME SessionInv, NEW s \in Slot, CreateSession(s)
    PROVE  signedIn' = signedIn \cup {req[s].user}
<1>1. req[s].user \in User
  BY DEF SessionInv, TypeOK, NewSessions, CreateSession
<1>2. PICK k \in Token : /\ owner[k] = NoUser
                         /\ tokenOf' = [tokenOf EXCEPT ![req[s].user] = k]
  BY DEF CreateSession
<1>3. k # NoToken /\ k \notin expired /\ expired' = expired
  BY <1>2, TokenAssumption DEF SessionInv, NothingEarly, CreateSession
<1>4. /\ tokenOf'[req[s].user] = k
      /\ \A u \in User \ {req[s].user} : tokenOf'[u] = tokenOf[u]
  BY <1>1, <1>2 DEF SessionInv, TypeOK
<1> QED BY <1>1, <1>3, <1>4 DEF signedIn

LEMMA IdentityHandle ==
    ASSUME SessionInv, NEW s \in Slot, Handle(s)
    PROVE  [Identity!IdentityNext]_(Identity!identityVars)
<1>0. TypeOK /\ Step(s)
  BY DEF SessionInv, Step
<1>a. actorOf' = [actorOf EXCEPT ![s] = actorOf'[s]]
  BY <1>0, OnlyActor
<1>1. CASE pc'[s] \notin {"newSession", "act"} /\ UNCHANGED tables
  BY <1>0, <1>1, ActsNoMore DEF Identity!IdentityNext
<1>2. CASE FoundSession(s) /\ pc'[s] = "act"
  <2>1. PICK u \in Found(req[s].token) : req' = [req EXCEPT ![s].user = u]
    BY <1>0, <1>2 DEF FoundSession, Goto, TypeOK
  <2>2. u \in signedIn
    BY <2>1 DEF Found, signedIn
  <2>3. actorOf[s] = NoUser /\ actorOf'[s] = u
    BY <1>0, <1>2, <2>1 DEF FoundSession, actorOf, TypeOK
  <2>4. signedIn' = signedIn /\ users' = users
    BY <1>2, SameSignedIn DEF FoundSession, tables
  <2>5. Identity!Recognize(s)
    BY <1>a, <2>2, <2>3, <2>4 DEF Identity!Recognize, Identity!ActAs
  <2> QED BY <2>5 DEF Identity!IdentityNext
<1>3. CASE NoSession(s) /\ pc'[s] = "act"
  <2>1. req[s].user = NoUser /\ req' = req
    BY <1>3 DEF NoSession, SessionInv, NothingEarly
  <2>2. actorOf'[s] = NoUser
    BY <1>3, <2>1 DEF actorOf
  <2>3. signedIn' = signedIn /\ users' = users
    BY <1>3, SameSignedIn DEF NoSession, tables
  <2>4. Identity!Done(s)
    BY <1>a, <2>2, <2>3 DEF Identity!Done, Identity!Leave
  <2> QED BY <2>4 DEF Identity!IdentityNext
<1>4. CASE CreateAnonymousUser(s)
  <2>1. PICK u \in Guest \ users : users' = users \cup {u} /\ req' = [req EXCEPT ![s].user = u]
    BY <1>4 DEF CreateAnonymousUser
  <2>2. u \in User \ (users \cup Account)
    BY <2>1, UserAssumption DEF User
  <2>3. actorOf[s] = NoUser /\ actorOf'[s] = u
    BY <1>0, <1>4, <2>1 DEF CreateAnonymousUser, Goto, actorOf, TypeOK
  <2>4. signedIn' = signedIn
    BY <1>4, SameSignedIn DEF CreateAnonymousUser
  <2>5. Identity!Introduce(s)
    BY <1>a, <2>1, <2>2, <2>3, <2>4 DEF Identity!Introduce, Identity!ActAs
  <2> QED BY <2>5 DEF Identity!IdentityNext
<1>5. CASE Login(s) /\ pc'[s] = "newSession"
  <2>1. PICK u \in Account : req' = [req EXCEPT ![s].user = u]
    BY <1>0, <1>5 DEF Login, Goto, TypeOK
  <2>2. actorOf[s] = NoUser /\ actorOf'[s] = u
    BY <1>0, <1>5, <2>1 DEF Login, actorOf, TypeOK
  <2>3. signedIn' = signedIn /\ users' = users
    BY <1>5, SameSignedIn DEF Login, tables
  <2>4. Identity!Verify(s)
    BY <1>a, <2>1, <2>2, <2>3 DEF Identity!Verify, Identity!ActAs
  <2> QED BY <2>4 DEF Identity!IdentityNext
<1>6. CASE CreateSession(s)
  <2>1. signedIn' = signedIn \cup {req[s].user}
    BY <1>6, TokenSignsIn
  <2>2. actorOf[s] = req[s].user /\ actorOf'[s] \in {NoUser, actorOf[s]}
    BY <1>0, <1>6 DEF CreateSession, Goto, actorOf, TypeOK
  <2>3. actorOf[s] \in users /\ users' = users
    BY <1>6, <2>2 DEF CreateSession, SessionInv, NewSessions
  <2>4. actorOf' = [actorOf EXCEPT ![s] = NoUser] \/ actorOf' = actorOf
    <3>1. CASE actorOf'[s] = NoUser
      BY <1>a, <3>1
    <3>2. CASE actorOf'[s] = actorOf[s]
      BY <1>a, <3>2 DEF actorOf
    <3> QED BY <2>2, <3>1, <3>2
  <2>5. Identity!SignIn(s)
    BY <2>1, <2>2, <2>3, <2>4 DEF Identity!SignIn, Identity!Leave
  <2> QED BY <2>5 DEF Identity!IdentityNext
<1> QED BY <1>0, <1>1, <1>2, <1>3, <1>4, <1>5, <1>6
        DEF Handle, FoundSession, NoSession, Login, Act, StatementFails, Goto, TypeOK, tables

\* What expires is one user's session, because no two rows hold the same token.
LEMMA IdentityExpire ==
    ASSUME SessionInv, Expire
    PROVE  [Identity!IdentityNext]_(Identity!identityVars)
<1>1. PICK u \in User : Works(tokenOf[u]) /\ expired' = expired \cup {tokenOf[u]}
  BY DEF Expire
<1>2. \A w \in User : tokenOf[w] # NoToken /\ tokenOf[w] = tokenOf[u] => w = u
  BY DEF SessionInv, RowsMatch
<1>3. tokenOf' = tokenOf /\ users' = users /\ actorOf' = actorOf
  BY DEF Expire, actorOf
<1>4. signedIn' = signedIn \ {u}
  BY <1>1, <1>2, <1>3 DEF signedIn
<1>5. Identity!Expire(u)
  BY <1>3, <1>4 DEF Identity!Expire
<1> QED BY <1>5 DEF Identity!IdentityNext

LEMMA IdentityStep ==
    SessionInv /\ [Next]_vars => [Identity!IdentityNext]_(Identity!identityVars)
<1> SUFFICES ASSUME SessionInv, [Next]_vars
             PROVE  [Identity!IdentityNext]_(Identity!identityVars)
  OBVIOUS
<1>1. ASSUME NEW s \in Slot, Send(s) \/ Deliver(s) \/ Lose(s)
      PROVE  Identity!Done(s)
  <2>1. Step(s) /\ TypeOK
    BY <1>1 DEF Step, SessionInv
  <2>2. UNCHANGED tables /\ pc'[s] \notin {"newSession", "act"}
    BY <1>1, <2>1 DEF Send, Deliver, Lose, Close, Goto, TypeOK
  <2> QED BY <2>1, <2>2, ActsNoMore
<1>2. CASE UNCHANGED vars
  BY <1>2, SameSignedIn DEF vars, tables, actorOf, Identity!identityVars
<1> QED BY <1>1, <1>2, IdentityHandle, IdentityExpire DEF Next, Identity!IdentityNext

LEMMA IdentityStart == Init => Identity!IdentityInit
BY DEF Init, Identity!IdentityInit, actorOf, signedIn

\* A session is what FlightLog takes it for: whatever cookies are in flight, lost,
\* replaced or expired, a request acts as a user only with a session that was valid
\* at the lookup, as one it created or as an account whose password it presented.
THEOREM TokensImplementIdentities == Spec => ImplementsIdentities
BY IdentityStart, IdentityStep, SessionsHold, PTL
   DEF Spec, ImplementsIdentities, Identity!IdentitySpec
=============================================================================
