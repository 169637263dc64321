---------------------------- MODULE FlightLogList ----------------------------
(***************************************************************************)
(* GET /api/v1/flight-log and its admin list beside the handlers that      *)
(* write, which appear here as the operations of the board they implement  *)
(* (ImplementsBoard of FlightLog).  A list is one SELECT on the connection *)
(* that all threads share, and every row of it is an sqlite3_step of its   *)
(* own: other threads write between two of them, and the statement sees    *)
(* what they wrote.                                                        *)
(*                                                                         *)
(* The query walks flight_log_entries downwards by entry_id.  A group ends *)
(* when the walk meets the next entry, so the step that hands out a row    *)
(* has already chosen the entry of the next row.  Of a row, only its entry *)
(* is modelled.                                                            *)
(***************************************************************************)
EXTENDS FlightLogBoard, Sequences, FiniteSets

CONSTANT Reader        \* worker threads that answer requests

ASSUME AdminAssumption == Admin \subseteq User
ASSUME EntryCountAssumption == EntryCount \in Nat

VARIABLES place,       \* where the handler of each thread is
          scope,       \* the list it was asked for
          viewer,      \* the user it acts for
          ahead,       \* the entry it has read but not handed out; 0 is the end
          rows,        \* the entries of the rows handed out so far
          sometime,    \* observer: entries everybody could see at some moment of it
          always       \* observer: entries that belonged to the list at every moment

list     == <<place, scope, viewer, ahead, rows>>
moments  == <<sometime, always>>

Scopes == {"public", "admin"}

\* Nothing was read yet: the walk begins above the last entry.
Unread == EntryCount + 1

Places == {"idle", "routed", "scan", "done", "refused"}

ListTypeOK ==
    /\ place \in [Reader -> Places]
    /\ scope \in [Reader -> Scopes]
    /\ viewer \in [Reader -> User \cup {Nobody}]
    /\ ahead \in [Reader -> 0 .. Unread]
    /\ rows \in [Reader -> Seq(EntryId)]
    /\ sometime \in [Reader -> SUBSET EntryId]
    /\ always \in [Reader -> SUBSET EntryId]

ListInit ==
    /\ place = [r \in Reader |-> "idle"]
    /\ scope = [r \in Reader |-> "public"]
    /\ viewer = [r \in Reader |-> Nobody]
    /\ ahead = [r \in Reader |-> Unread]
    /\ rows = [r \in Reader |-> <<>>]
    /\ sometime = [r \in Reader |-> {}]
    /\ always = [r \in Reader |-> {}]

Goto(r, where) == place' = [place EXCEPT ![r] = where]

-----------------------------------------------------------------------------
\* WHERE: the admin's list has none.
Shown(s) == IF s = "admin" THEN Posted ELSE Seen

\* getUserIdOrNull finds the session of a user or goes on without one; requireAdmin
\* wants that of an admin.
MutantAnyViewer(s) == IF s = "public" THEN members \cup {Nobody} ELSE members
Viewers(s) == IF s = "public" THEN members \cup {Nobody} ELSE Admin

OpenList(r, s) ==
    /\ Goto(r, "scan")
    /\ \E u \in Viewers(s) :
          /\ scope' = [scope EXCEPT ![r] = s]
          /\ viewer' = [viewer EXCEPT ![r] = u]
    /\ sometime' = [sometime EXCEPT ![r] = Seen]
    /\ always' = [always EXCEPT ![r] = Shown(s)]
    /\ UNCHANGED <<ahead, rows>>

\* Where the walk comes to below e: the next entry of the list, or the end.
Comes(s, e) ==
    LET below == {f \in Shown(s) : f < e} IN
    IF below = {} THEN {0} ELSE {f \in below : \A g \in below : g <= f}

\* The walk keeps its place by counting rows instead of by the entry it stands on.
MutantOffset(r) ==
    LET here == {f \in Shown(scope[r]) :
                    Cardinality({g \in Shown(scope[r]) : g > f}) = Len(rows[r])} IN
    /\ place[r] = "scan"
    /\ IF here = {} THEN Goto(r, "done") /\ UNCHANGED rows
       ELSE /\ \E e \in here : rows' = [rows EXCEPT ![r] = Append(@, e)]
            /\ UNCHANGED place
    /\ UNCHANGED <<scope, viewer, ahead, moments>>

\* One sqlite3_step: a row, or the end.  The first one has to find its own row.
Finds(r) == IF ahead[r] = Unread THEN Comes(scope[r], Unread) ELSE {ahead[r]}

StepRow(r) ==
    /\ place[r] = "scan"
    /\ \/ 0 \in Finds(r) /\ Goto(r, "done") /\ UNCHANGED <<ahead, rows>>
       \/ \E read \in Finds(r) \ {0} : \E next \in Comes(scope[r], read) :
             /\ rows' = [rows EXCEPT ![r] = Append(@, read)]
             /\ ahead' = [ahead EXCEPT ![r] = next]
             /\ UNCHANGED place
    /\ UNCHANGED <<scope, viewer, moments>>

\* The handlers of `those` are through with their requests.
Reset(old, those, new) == [r \in Reader |-> IF r \in those THEN new ELSE old[r]]

CloseList(those) ==
    /\ place' = Reset(place, those, "idle")
    /\ scope' = Reset(scope, those, "public")
    /\ viewer' = Reset(viewer, those, Nobody)
    /\ ahead' = Reset(ahead, those, Unread)
    /\ rows' = Reset(rows, those, <<>>)
    /\ sometime' = Reset(sometime, those, {})
    /\ always' = Reset(always, those, {})

\* A handler elsewhere wrote: every list that is being read observes it.
Watched(old, new) == [r \in Reader |-> IF place[r] = "scan" THEN new[r] ELSE old[r]]

Watch ==
    /\ sometime' = Watched(sometime,
                     [r \in Reader |-> sometime[r] \cup Seen'])
    /\ always' = Watched(always,
                     [r \in Reader |-> always[r] \cap Shown(scope[r])'])

-----------------------------------------------------------------------------
(* Properties.                                                             *)

Listed(r) == {rows[r][i] : i \in DOMAIN rows[r]}

\* A list is no snapshot, but it is as good as the writes beside it allow: newest
\* first, no entry twice, none that could not be seen at some moment of the request
\* (or belong to the admin's list), and every one that belonged to it throughout.
ListIsTrue ==
    \A r \in Reader :
        /\ \A i, j \in DOMAIN rows[r] : i < j => rows[r][i] > rows[r][j]
        /\ scope[r] = "public" => Listed(r) \subseteq sometime[r]
        /\ place[r] = "done" => always[r] \subseteq Listed(r)

\* An entry that was hidden or deleted all the time is read out to admins only.
HiddenOnlyToAdmins ==
    \A r \in Reader : Listed(r) \subseteq sometime[r] \/ viewer[r] \in Admin

-----------------------------------------------------------------------------
(* The inductive invariant of the proofs in FlightLogEndpointProofs.       *)

\* What has been read of a list, and what is still below the walk.
ReadSoFar(r) ==
    /\ scope[r] = "admin" => viewer[r] \in Admin
    /\ scope[r] = "public" => Listed(r) \cup ({ahead[r]} \cap EntryId) \subseteq sometime[r]
    /\ \A i \in DOMAIN rows[r] : ahead[r] < rows[r][i]
    /\ \A i, j \in DOMAIN rows[r] : i < j => rows[r][i] > rows[r][j]

Observed(r) ==
    /\ place[r] = "scan" /\ scope[r] = "public" => Seen \subseteq sometime[r]
    /\ place[r] = "scan" => always[r] \subseteq Shown(scope[r])
    /\ place[r] = "scan" => \A e \in always[r] : e \in Listed(r) \/ e <= ahead[r]
    /\ place[r] = "done" => always[r] \subseteq Listed(r)
    /\ place[r] \in {"idle", "routed"} => rows[r] = <<>> /\ ahead[r] = Unread /\ always[r] = {}

ListInv == ListTypeOK /\ \A r \in Reader : ReadSoFar(r) /\ Observed(r)
=============================================================================
