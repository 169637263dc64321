-------------------------- MODULE FlightLogService --------------------------
(***************************************************************************)
(* The board as its clients are promised it: a call is made, the service   *)
(* learns who the caller is, the call takes effect for that caller in ONE  *)
(* step that also fixes its answer, and the answer returns.  ok means the  *)
(* effect took place (a like or unlike is idempotent on an entry everybody *)
(* can see); flight_log_not_found means the entry is absent, invisible or  *)
(* not the caller's, and nothing happened; a refusal (bad text, no session,*)
(* not an admin) changes nothing.  Only internal_error leaves it open: it  *)
(* is a refusal, or stands for an ok that could not be sent.               *)
(***************************************************************************)
EXTENDS FlightLogBoard

CONSTANTS Client,      \* callers, one call each at a time
          OwnerCalls, AdminCalls,   \* kinds of call besides "login": by anybody, by admins
          Refusals     \* answers that are neither ok nor not-found

VARIABLES call,        \* what each client asked, and as whom once that is known
          answered     \* the answer that is on its way, "none" before it is fixed

serviceVars == <<boardVars, call, answered>>

NoCall == [kind |-> "none", entry |-> 0, user |-> Nobody]

ServiceInit ==
    /\ BoardInit
    /\ call = [c \in Client |-> NoCall]
    /\ answered = [c \in Client |-> "none"]

Call(c) ==
    /\ call[c] = NoCall
    /\ \E kind \in OwnerCalls \cup AdminCalls \cup {"login"}, e \in EntryId \cup {0} :
          call' = [call EXCEPT ![c] = [kind |-> kind, entry |-> e, user |-> Nobody]]
    /\ UNCHANGED <<boardVars, answered>>

\* The call of client c turns out to be the user u's.
Identify(c, u) ==
    /\ call[c].kind # "none" /\ call[c].user = Nobody
    /\ call' = [call EXCEPT ![c].user = u]
    /\ UNCHANGED answered

\* The caller is a member; for what is the admins', one of them.
Recognize(c) ==
    /\ \E u \in members : /\ call[c].kind \notin OwnerCalls => u \in Admin
                          /\ Identify(c, u)
    /\ UNCHANGED boardVars

\* The first write of a visitor makes them a member before it is served.
Enter(c) ==
    /\ call[c].kind \in OwnerCalls
    /\ \E u \in User : Join(u) /\ Identify(c, u)

\* The call of client c is served with this answer.
Serve(c, kind, answerOf) ==
    /\ call[c].kind = kind
    /\ answered[c] = "none"
    /\ answered' = [answered EXCEPT ![c] = answerOf]

ServePost(c) ==
    /\ Serve(c, "post", "ok")
    /\ \E e \in EntryId :
          /\ Write(call[c].user, e)
          /\ call' = [call EXCEPT ![c].entry = e]

\* A call that acts on its entry: one operation of the board and ok, or
\* nothing and not-found.
ServeEntry(c, kind, possible, Operation) ==
    /\ call[c].kind = kind
    /\ UNCHANGED call
    /\ \/ possible  /\ Serve(c, kind, "ok") /\ Operation
       \/ ~possible /\ Serve(c, kind, "flight_log_not_found") /\ UNCHANGED boardVars

ServeDelete(c) ==
    LET e == call[c].entry
        u == call[c].user IN
    u \in members /\ ServeEntry(c, "delete", author[e] = u, Remove(u, e))

ServeLike(c) ==
    LET e == call[c].entry
        u == call[c].user IN
    u \in members /\ ServeEntry(c, "like", e \in Seen, AddLike(u, e))

\* Taking back a like that is there succeeds on a hidden entry too.
ServeUnlike(c) ==
    LET e == call[c].entry
        u == call[c].user IN
    u \in members /\ ServeEntry(c, "unlike", e \in Seen \/ <<e, u>> \in liked, TakeLike(u, e))

ServeModeration(c) ==
    LET e == call[c].entry IN
    /\ call[c].user \in Admin
    /\ \/ ServeEntry(c, "hide", e \in Posted, Hide(e))
       \/ ServeEntry(c, "unhide", e \in Posted, Unhide(e))
       \/ ServeEntry(c, "clear", e \in Posted, Answer(e, NoAnswer))
       \/ \E text \in Text : ServeEntry(c, "respond", e \in Posted, Answer(e, text))

ServeLogin(c) ==
    /\ call[c].user \in members
    /\ Serve(c, "login", "ok")
    /\ UNCHANGED <<boardVars, call>>

Refuse(c) ==
    /\ \E r \in Refusals : Serve(c, call[c].kind, r)
    /\ call[c] # NoCall
    /\ UNCHANGED <<boardVars, call>>

\* The answer of a call that took effect cannot be sent.
LoseAnswer(c) ==
    /\ answered[c] = "ok"
    /\ answered' = [answered EXCEPT ![c] = "internal_error"]
    /\ UNCHANGED <<boardVars, call>>

Return(c) ==
    /\ answered[c] # "none"
    /\ call' = [call EXCEPT ![c] = NoCall]
    /\ answered' = [answered EXCEPT ![c] = "none"]
    /\ UNCHANGED boardVars

ServiceNext ==
    \E c \in Client :
       \/ Call(c) \/ Recognize(c) \/ Enter(c) \/ ServePost(c) \/ ServeDelete(c)
       \/ ServeLike(c) \/ ServeUnlike(c) \/ ServeModeration(c) \/ ServeLogin(c)
       \/ Refuse(c) \/ LoseAnswer(c) \/ Return(c)

ServiceSpec == ServiceInit /\ [][ServiceNext]_serviceVars
=============================================================================
