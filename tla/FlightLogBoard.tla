--------------------------- MODULE FlightLogBoard ---------------------------
(***************************************************************************)
(* What the flight-log message board promises about its data, with no      *)
(* threads, statements or counters: every operation of the API is one      *)
(* atomic step.  An entry id is handed out once, in order; its author is   *)
(* fixed for ever; removal is permanent; hiding can be taken back; a like  *)
(* can only be added to an entry that everybody can see.                   *)
(***************************************************************************)
EXTENDS Naturals

CONSTANTS User,        \* every user row the database may come to hold
          Admin,       \* the accounts whose role is 'admin'
          EntryCount,  \* bound: how many entries are ever posted
          Text         \* sanitized official responses

CONSTANTS Nobody,      \* author of an id that was not handed out
          NoAnswer     \* response of an entry that has none

EntryId == 1 .. EntryCount

VARIABLES members,  \* the users that exist
          author,   \* who posted each entry
          removed,  \* entries deleted by their author
          hidden,   \* entries hidden by an admin
          answer,   \* the official response of each entry
          liked     \* pairs <<entry, user>>

boardVars == <<members, author, removed, hidden, answer, liked>>

Posted == {e \in EntryId : author[e] # Nobody}
Seen   == Posted \ (removed \cup hidden)

BoardInit ==
    /\ members = Admin
    /\ author = [e \in EntryId |-> Nobody]
    /\ removed = {}
    /\ hidden = {}
    /\ answer = [e \in EntryId |-> NoAnswer]
    /\ liked = {}

Join(u) ==
    /\ u \notin members
    /\ members' = members \cup {u}
    /\ UNCHANGED <<author, removed, hidden, answer, liked>>

Write(u, e) ==
    /\ u \in members
    /\ author[e] = Nobody
    /\ \A f \in EntryId : f < e => author[f] # Nobody
    /\ author' = [author EXCEPT ![e] = u]
    /\ UNCHANGED <<members, removed, hidden, answer, liked>>

Remove(u, e) ==
    /\ author[e] = u
    /\ u \in members
    /\ removed' = removed \cup {e}
    /\ UNCHANGED <<members, author, hidden, answer, liked>>

Hide(e) ==
    /\ e \in Posted
    /\ hidden' = hidden \cup {e}
    /\ UNCHANGED <<members, author, removed, answer, liked>>

Unhide(e) ==
    /\ e \in Posted
    /\ hidden' = hidden \ {e}
    /\ UNCHANGED <<members, author, removed, answer, liked>>

Answer(e, text) ==
    /\ e \in Posted
    /\ answer' = [answer EXCEPT ![e] = text]
    /\ UNCHANGED <<members, author, removed, hidden, liked>>

AddLike(u, e) ==
    /\ u \in members
    /\ e \in Seen
    /\ liked' = liked \cup {<<e, u>>}
    /\ UNCHANGED <<members, author, removed, hidden, answer>>

TakeLike(u, e) ==
    /\ u \in members
    /\ liked' = liked \ {<<e, u>>}
    /\ UNCHANGED <<members, author, removed, hidden, answer>>

Moderate(e) ==
    \/ Hide(e)
    \/ Unhide(e)
    \/ \E text \in Text \cup {NoAnswer} : Answer(e, text)

BoardNext ==
    \/ \E u \in User : Join(u)
    \/ \E u \in User, e \in EntryId :
          Write(u, e) \/ Remove(u, e) \/ AddLike(u, e) \/ TakeLike(u, e)
    \/ \E e \in EntryId : Moderate(e)

BoardSpec == BoardInit /\ [][BoardNext]_boardVars
=============================================================================
