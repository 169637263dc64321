----------------------------- MODULE Identities -----------------------------
(***************************************************************************)
(* What the rest of the API may rely on of sessions: which users exist,    *)
(* which of them a cookie is accepted for, and whom a request acts as.  A  *)
(* request acts as somebody only because a session was valid when it was   *)
(* looked up, because it brought the anonymous user into being itself, or  *)
(* because it verified the password of an account; and only the latter two *)
(* make a session.  There are no tokens, cookies or statements.            *)
(***************************************************************************)
CONSTANTS Client,    \* requests that are handled at a time
          User,
          Account,   \* the users that can log in; they exist from the start
          Nobody     \* whom a request acts as that has no identity (yet)

VARIABLES members,   \* the users that exist
          signedIn,  \* the users a cookie is accepted for
          actor      \* whom each request acts as

identityVars == <<members, signedIn, actor>>

IdentityInit ==
    /\ members = Account
    /\ signedIn \subseteq Account
    /\ actor = [c \in Client |-> Nobody]

ActAs(c, u) ==
    /\ actor[c] = Nobody
    /\ actor' = [actor EXCEPT ![c] = u]

\* The cookie of the request is accepted.
Recognize(c) ==
    /\ \E u \in signedIn : ActAs(c, u)
    /\ UNCHANGED <<members, signedIn>>

\* It is not: the request becomes somebody new.
Introduce(c) ==
    /\ \E u \in User \ (members \cup Account) : ActAs(c, u) /\ members' = members \cup {u}
    /\ UNCHANGED signedIn

\* A password is verified.
Verify(c) ==
    /\ \E u \in Account : ActAs(c, u)
    /\ UNCHANGED <<members, signedIn>>

Leave(c) == actor' = [actor EXCEPT ![c] = Nobody]

\* A login has nothing else to do; any other request goes on.
SignIn(c) ==
    /\ actor[c] \in members
    /\ signedIn' = signedIn \cup {actor[c]}
    /\ Leave(c) \/ UNCHANGED actor
    /\ UNCHANGED members

Done(c) == Leave(c) /\ UNCHANGED <<members, signedIn>>

Expire(u) ==
    /\ signedIn' = signedIn \ {u}
    /\ UNCHANGED <<members, actor>>

IdentityNext ==
    \/ \E c \in Client :
          Recognize(c) \/ Introduce(c) \/ Verify(c) \/ SignIn(c) \/ Done(c)
    \/ \E u \in User : Expire(u)

IdentitySpec == IdentityInit /\ [][IdentityNext]_identityVars
=============================================================================
