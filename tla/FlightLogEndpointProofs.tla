----------------------- MODULE FlightLogEndpointProofs -----------------------
(***************************************************************************)
(* Proofs about FlightLogEndpoint for any number of threads, users and     *)
(* entries, whatever the requests.                                         *)
(***************************************************************************)
EXTENDS FlightLogEndpoint, FiniteSetTheorems, TLAPS

\* A list only knows entries.
LEMMA ShownAreEntries ==
    Seen \subseteq EntryId /\ \A s : Shown(s) \subseteq EntryId
BY DEF Seen, Posted, Shown

LEMMA SeenIsPublic == Shown("public") = Seen
BY DEF Shown

-----------------------------------------------------------------------------
(* Every step of a list keeps ListInv.                                     *)

LEMMA NoListHolds == ListInit => ListInv
<1> SUFFICES ASSUME ListInit PROVE ListInv
  OBVIOUS
<1>1. ListTypeOK
  BY EntryCountAssumption DEF ListInit, ListTypeOK, Places, Scopes, Unread
<1>2. ASSUME NEW x \in Reader PROVE ReadSoFar(x) /\ Observed(x)
  <2>1. rows[x] = <<>> /\ place[x] = "idle" /\ scope[x] = "public" /\ ahead[x] = Unread
        /\ sometime[x] = {} /\ always[x] = {}
    BY DEF ListInit
  <2>2. DOMAIN rows[x] = {} /\ Unread \notin EntryId
    BY <2>1, EntryCountAssumption DEF Unread, EntryId
  <2> QED BY <2>1, <2>2 DEF ReadSoFar, Observed, Listed
<1> QED BY <1>1, <1>2 DEF ListInv

\* A write beside the lists.
LEMMA WatchHolds ==
    ASSUME ListInv, Watch, UNCHANGED list
    PROVE  ListInv'
<1>1. ListTypeOK'
  BY ShownAreEntries DEF ListInv, ListTypeOK, Watch, Watched, list, Seen, Posted, Shown, EntryId
<1>2. ASSUME NEW x \in Reader PROVE (ReadSoFar(x) /\ Observed(x))'
  <2>1. ReadSoFar(x) /\ Observed(x)
    BY DEF ListInv
  <2>2. /\ sometime'[x] = IF place[x] = "scan" THEN sometime[x] \cup Seen' ELSE sometime[x]
        /\ always'[x] = IF place[x] = "scan" THEN always[x] \cap Shown(scope[x])' ELSE always[x]
    BY DEF Watch, Watched
  <2>3. Listed(x)' = Listed(x)
    BY DEF list, Listed
  <2>4. ReadSoFar(x)'
    BY <2>1, <2>2, <2>3 DEF ReadSoFar, list
  <2>5. Observed(x)'
    BY <2>1, <2>2, <2>3 DEF Observed, list
  <2> QED BY <2>4, <2>5
<1> QED BY <1>1, <1>2 DEF ListInv

\* The handler of r moves, its list is as it was.
LEMMA MoveHolds ==
    ASSUME ListInv, NEW r \in Reader, NEW where \in Places,
           Goto(r, where), UNCHANGED <<boardVars, scope, viewer, ahead, rows, moments>>,
           \/ place[r] = "idle" /\ where = "routed"
           \/ where = "refused"
    PROVE  ListInv'
<1>1. ListTypeOK'
  BY DEF ListInv, ListTypeOK, Goto, moments
<1>2. ASSUME NEW x \in Reader PROVE (ReadSoFar(x) /\ Observed(x))'
  <2>1. ReadSoFar(x) /\ Observed(x)
    BY DEF ListInv
  <2>2. place'[x] = IF x = r THEN where ELSE place[x]
    BY DEF Goto, ListInv, ListTypeOK
  <2>3. Seen' = Seen /\ Shown(scope[x])' = Shown(scope[x])
    BY DEF boardVars, Seen, Posted, Shown
  <2> QED BY <2>1, <2>2, <2>3 DEF ReadSoFar, Observed, Listed, moments
<1> QED BY <1>1, <1>2 DEF ListInv

LEMMA ActHolds ==
    ASSUME ListInv, NEW r \in Reader, place[r] = "routed", Goto(r, "done"),
           UNCHANGED <<scope, viewer, ahead, rows>>, Watch
    PROVE  ListInv'
<1>1. ListTypeOK'
  BY DEF ListInv, ListTypeOK, Goto, Places, Watch, Watched, Seen, Posted, Shown, EntryId
<1>2. ASSUME NEW x \in Reader PROVE (ReadSoFar(x) /\ Observed(x))'
  <2>1. ReadSoFar(x) /\ Observed(x)
    BY DEF ListInv
  <2>2. place'[x] = IF x = r THEN "done" ELSE place[x]
    BY DEF Goto, ListInv, ListTypeOK
  <2>3. /\ sometime'[x] = IF place[x] = "scan" THEN sometime[x] \cup Seen' ELSE sometime[x]
        /\ always'[x] = IF place[x] = "scan" THEN always[x] \cap Shown(scope[x])' ELSE always[x]
    BY DEF Watch, Watched
  <2>4. Listed(x)' = Listed(x)
    BY DEF Listed
  <2>5. ReadSoFar(x)'
    BY <2>1, <2>3, <2>4 DEF ReadSoFar
  <2>6. Observed(x)'
    BY <2>1, <2>2, <2>3, <2>4 DEF Observed
  <2> QED BY <2>5, <2>6
<1> QED BY <1>1, <1>2 DEF ListInv

LEMMA OpenHolds ==
    ASSUME ListInv, NEW r \in Reader, NEW s \in Scopes, place[r] = "routed",
           OpenList(r, s), UNCHANGED boardVars, members \subseteq User
    PROVE  ListInv'
<1>1. PICK u \in Viewers(s) : /\ scope' = [scope EXCEPT ![r] = s]
                              /\ viewer' = [viewer EXCEPT ![r] = u]
  BY DEF OpenList
<1>2. u \in User \cup {Nobody} /\ (s = "admin" => u \in Admin)
  BY <1>1, AdminAssumption DEF Viewers
<1>3. ListTypeOK'
  BY <1>1, <1>2, ShownAreEntries DEF ListInv, ListTypeOK, OpenList, Goto, Places
<1>4. Seen' = Seen /\ \A x : Shown(x)' = Shown(x)
  BY DEF boardVars, Seen, Posted, Shown
<1>5. ASSUME NEW x \in Reader PROVE (ReadSoFar(x) /\ Observed(x))'
  <2>1. ReadSoFar(x) /\ Observed(x)
    BY DEF ListInv
  <2>2. CASE x # r
    <3>1. /\ place'[x] = place[x] /\ scope'[x] = scope[x] /\ viewer'[x] = viewer[x]
          /\ ahead'[x] = ahead[x] /\ rows'[x] = rows[x]
          /\ sometime'[x] = sometime[x] /\ always'[x] = always[x]
      BY <1>1, <2>2 DEF OpenList, Goto, ListInv, ListTypeOK
    <3> QED BY <2>1, <3>1, <1>4 DEF ReadSoFar, Observed, Listed
  <2>3. CASE x = r
    <3>1. /\ place'[r] = "scan" /\ scope'[r] = s /\ viewer'[r] = u
          /\ ahead'[r] = Unread /\ rows'[r] = <<>>
          /\ sometime'[r] = Seen /\ always'[r] = Shown(s)
      BY <1>1, <2>1, <2>3 DEF OpenList, Goto, ListInv, ListTypeOK, Observed
    <3>2. Listed(r)' = {} /\ Unread \notin EntryId /\ DOMAIN rows'[r] = {}
      BY <3>1, EntryCountAssumption DEF Listed, Unread, EntryId
    <3>3. \A e \in EntryId : e <= Unread
      BY EntryCountAssumption DEF Unread, EntryId
    <3>4. ReadSoFar(r)'
      BY <3>1, <3>2, <1>2 DEF ReadSoFar
    <3>5. Observed(r)'
      BY <3>1, <3>2, <3>3, <1>4, SeenIsPublic, ShownAreEntries DEF Observed
    <3> QED BY <2>3, <3>4, <3>5
  <2> QED BY <2>2, <2>3
<1> QED BY <1>3, <1>5 DEF ListInv

LEMMA CloseHolds ==
    ASSUME ListInv, NEW those \in SUBSET Reader, CloseList(those), UNCHANGED boardVars
    PROVE  ListInv'
<1>1. ListTypeOK'
  BY EntryCountAssumption
     DEF ListInv, ListTypeOK, CloseList, Reset, Places, Scopes, Unread
<1>2. Seen' = Seen /\ \A x : Shown(x)' = Shown(x)
  BY DEF boardVars, Seen, Posted, Shown
<1>3. ASSUME NEW x \in Reader PROVE (ReadSoFar(x) /\ Observed(x))'
  <2>1. ReadSoFar(x) /\ Observed(x)
    BY DEF ListInv
  <2>2. CASE x \notin those
    <3>1. /\ place'[x] = place[x] /\ scope'[x] = scope[x] /\ viewer'[x] = viewer[x]
          /\ ahead'[x] = ahead[x] /\ rows'[x] = rows[x]
          /\ sometime'[x] = sometime[x] /\ always'[x] = always[x]
      BY <2>2 DEF CloseList, Reset
    <3> QED BY <2>1, <3>1, <1>2 DEF ReadSoFar, Observed, Listed
  <2>3. CASE x \in those
    <3>1. /\ place'[x] = "idle" /\ scope'[x] = "public"
          /\ ahead'[x] = Unread /\ rows'[x] = <<>>
          /\ sometime'[x] = {} /\ always'[x] = {}
      BY <2>3 DEF CloseList, Reset
    <3>2. Listed(x)' = {} /\ Unread \notin EntryId /\ DOMAIN rows'[x] = {}
      BY <3>1, EntryCountAssumption DEF Listed, Unread, EntryId
    <3> QED BY <3>1, <3>2 DEF ReadSoFar, Observed
  <2> QED BY <2>2, <2>3
<1> QED BY <1>1, <1>3 DEF ListInv

LEMMA ComesDown ==
    ASSUME NEW s, NEW e \in 1 .. Unread, NEW next \in Comes(s, e)
    PROVE  /\ next \in 0 .. EntryCount /\ next < e
           /\ next # 0 => next \in Shown(s)
           /\ \A f \in Shown(s) : f < e => f <= next
<1>1. Shown(s) \subseteq EntryId
  BY ShownAreEntries
<1>2. CASE {f \in Shown(s) : f < e} = {}
  BY <1>2, EntryCountAssumption DEF Comes, Unread
<1>3. CASE {f \in Shown(s) : f < e} # {}
  <2>1. next \in {f \in Shown(s) : f < e} /\ \A g \in {f \in Shown(s) : f < e} : g <= next
    BY <1>3 DEF Comes
  <2> QED BY <2>1, <1>1, EntryCountAssumption DEF EntryId
<1> QED BY <1>2, <1>3

\* A row is handed out, or the list ends.
LEMMA StepHolds ==
    ASSUME ListInv, NEW r \in Reader, StepRow(r), UNCHANGED boardVars
    PROVE  ListInv'
<1> USE EntryCountAssumption
<1>1. /\ ReadSoFar(r) /\ Observed(r) /\ ahead[r] \in 0 .. Unread
      /\ rows[r] \in Seq(EntryId) /\ always[r] \subseteq EntryId /\ place[r] = "scan"
      /\ scope[r] \in Scopes
  BY DEF ListInv, ListTypeOK, StepRow
<1>2. Seen' = Seen /\ \A x : Shown(x)' = Shown(x)
  BY DEF boardVars, Seen, Posted, Shown
<1>3. \A e \in EntryId : e \in 1 .. EntryCount /\ e < Unread
  BY DEF EntryId, Unread
<1>4. CASE 0 \in Finds(r) /\ Goto(r, "done") /\ UNCHANGED <<ahead, rows>>
  <2>1. ListTypeOK'
    BY <1>4 DEF ListInv, ListTypeOK, StepRow, Goto, Places, moments
  <2>2. always[r] \subseteq Listed(r)
    <3>1. CASE ahead[r] = Unread
      <4>1. 0 \in Comes(scope[r], Unread)
        BY <1>4, <3>1 DEF Finds
      <4>2. \A f \in Shown(scope[r]) : f < Unread => f <= 0
        BY <4>1, ComesDown DEF Unread
      <4>3. Shown(scope[r]) = {}
        BY <4>2, <1>3, ShownAreEntries
      <4> QED BY <4>3, <1>1 DEF Observed
    <3>2. CASE ahead[r] # Unread
      <4>1. ahead[r] = 0
        BY <1>4, <3>2 DEF Finds
      <4> QED BY <4>1, <1>1, <1>3 DEF Observed
    <3> QED BY <3>1, <3>2
  <2>3. ASSUME NEW x \in Reader PROVE (ReadSoFar(x) /\ Observed(x))'
    <3>1. /\ place'[x] = IF x = r THEN "done" ELSE place[x]
          /\ UNCHANGED <<scope, viewer, ahead, rows, sometime, always>>
      BY <1>4 DEF ListInv, ListTypeOK, StepRow, Goto, moments
    <3>2. ReadSoFar(x) /\ Observed(x)
      BY DEF ListInv
    <3> QED BY <3>1, <3>2, <2>2, <1>2 DEF ReadSoFar, Observed, Listed
  <2> QED BY <2>1, <2>3 DEF ListInv
<1>5. ASSUME NEW read \in Finds(r) \ {0}, NEW next \in Comes(scope[r], read),
             rows' = [rows EXCEPT ![r] = Append(@, read)],
             ahead' = [ahead EXCEPT ![r] = next], UNCHANGED place
      PROVE  ListInv'
  <2>1. /\ read \in EntryId
        /\ ahead[r] = read \/ (ahead[r] = Unread /\ read \in Shown(scope[r]))
        /\ \A f \in always[r] : f \in Listed(r) \/ f <= read
    <3>1. CASE ahead[r] = Unread
      <4>1. read \in Comes(scope[r], Unread)
        BY <1>5, <3>1 DEF Finds
      <4>2. /\ read \in Shown(scope[r])
            /\ \A f \in Shown(scope[r]) : f < Unread => f <= read
        BY <4>1, <1>5, ComesDown DEF Unread
      <4> QED BY <3>1, <4>2, <1>1, <1>3, ShownAreEntries DEF Observed
    <3>2. CASE ahead[r] # Unread
      <4>1. read = ahead[r] /\ read # 0
        BY <1>5, <3>2 DEF Finds
      <4>2. read \in EntryId
        BY <4>1, <3>2, <1>1 DEF EntryId, Unread
      <4> QED BY <4>1, <4>2, <1>1 DEF Observed
    <3> QED BY <3>1, <3>2
  <2>2. /\ next \in 0 .. EntryCount /\ next < read
        /\ next # 0 => next \in Shown(scope[r])
        /\ \A f \in Shown(scope[r]) : f < read => f <= next
    <3>1. read \in 1 .. Unread
      BY <2>1, <1>3 DEF Unread
    <3> QED BY <3>1, ComesDown
  <2>3. /\ place' = place /\ scope' = scope /\ viewer' = viewer
        /\ sometime' = sometime /\ always' = always
    BY <1>5 DEF StepRow, moments
  <2>4. ahead'[r] = next /\ rows'[r] = Append(rows[r], read)
    BY <1>5 DEF ListInv, ListTypeOK
  <2>5. ListTypeOK'
    <3>1. Append(rows[r], read) \in Seq(EntryId) /\ next \in 0 .. Unread
      BY <1>1, <2>1, <2>2 DEF Unread
    <3> QED BY <1>5, <2>3, <3>1 DEF ListInv, ListTypeOK
  <2>6. ASSUME NEW x \in Reader, x # r PROVE (ReadSoFar(x) /\ Observed(x))'
    <3>1. ahead'[x] = ahead[x] /\ rows'[x] = rows[x]
      BY <1>5, <2>6 DEF ListInv, ListTypeOK
    <3>2. ReadSoFar(x) /\ Observed(x)
      BY DEF ListInv
    <3> QED BY <2>3, <3>1, <3>2, <1>2 DEF ReadSoFar, Observed, Listed
  <2>7. /\ DOMAIN rows[r] = 1 .. Len(rows[r]) /\ Len(rows[r]) \in Nat
        /\ DOMAIN rows'[r] = 1 .. Len(rows[r]) + 1
        /\ \A i \in DOMAIN rows[r] : rows'[r][i] = rows[r][i] /\ rows[r][i] \in EntryId
        /\ rows'[r][Len(rows[r]) + 1] = read
    BY <2>1, <2>4, <1>1
  <2>8. Listed(r)' = Listed(r) \cup {read}
    BY <2>7 DEF Listed
  <2>9. \A i \in DOMAIN rows[r] : read < rows[r][i]
    BY <2>1, <2>7, <1>1, <1>3 DEF ReadSoFar
  <2>10. ReadSoFar(r)'
    <3>1. (scope[r] = "admin" => viewer[r] \in Admin)'
      BY <1>1, <2>3 DEF ReadSoFar
    <3>2. (scope[r] = "public" => Listed(r) \cup ({ahead[r]} \cap EntryId) \subseteq sometime[r])'
      <4> SUFFICES ASSUME scope[r] = "public"
                   PROVE  Listed(r)' \cup ({next} \cap EntryId) \subseteq sometime[r]
        BY <2>3, <2>4
      <4>1. Seen \subseteq sometime[r] /\ Shown(scope[r]) = Seen
        BY <1>1, SeenIsPublic DEF Observed
      <4>2. read \in sometime[r]
        BY <2>1, <4>1, <1>1 DEF ReadSoFar
      <4>3. {next} \cap EntryId \subseteq sometime[r]
        BY <2>2, <4>1, <1>3
      <4> QED BY <2>8, <4>2, <4>3, <1>1 DEF ReadSoFar
    <3>3. \A i \in DOMAIN rows'[r] : next < rows'[r][i]
      <4> TAKE i \in DOMAIN rows'[r]
      <4>1. CASE i \in DOMAIN rows[r]
        BY <4>1, <2>7, <2>9, <2>2, <2>1, <1>3
      <4>2. CASE i = Len(rows[r]) + 1
        BY <4>2, <2>7, <2>2
      <4> QED BY <4>1, <4>2, <2>7
    <3>4. \A i, j \in DOMAIN rows'[r] : i < j => rows'[r][i] > rows'[r][j]
      <4> TAKE i, j \in DOMAIN rows'[r]
      <4> HAVE i < j
      <4>1. i \in DOMAIN rows[r]
        BY <2>7
      <4>2. CASE j \in DOMAIN rows[r]
        BY <4>1, <4>2, <2>7, <1>1 DEF ReadSoFar
      <4>3. CASE j = Len(rows[r]) + 1
        BY <4>1, <4>3, <2>7, <2>9, <2>1, <1>3
      <4> QED BY <4>2, <4>3, <2>7
    <3> QED BY <3>1, <3>2, <3>3, <3>4, <2>4 DEF ReadSoFar
  <2>11. Observed(r)'
    <3>1. \A e \in always[r] : e \in Listed(r)' \/ e <= next
      <4> TAKE e \in always[r]
      <4>1. e \in Shown(scope[r]) /\ e \in EntryId
        BY <1>1 DEF Observed
      <4>2. CASE e \in Listed(r) \/ e = read
        BY <4>2, <2>8
      <4>3. CASE e < read
        BY <4>3, <4>1, <2>2
      <4> QED BY <4>1, <4>2, <4>3, <2>1, <1>3
    <3> QED BY <3>1, <2>3, <2>4, <1>1, <1>2 DEF Observed
  <2> QED BY <2>5, <2>6, <2>10, <2>11 DEF ListInv
<1> QED BY <1>4, <1>5 DEF StepRow

-----------------------------------------------------------------------------
(* The requests.                                                           *)

\* The routes are the documented paths and no other.
LEMMA RoutesMean ==
    ASSUME NEW path, path.next \in {"end", "slash", "other"}
    PROVE  /\ ParseRoute(path).to \in {"base", "admin", "entry", "entry_like", "not_found",
                                       "invalid_entry_id"}
           /\ ParseRoute(path).to = "base" <=> path.next = "end"
           /\ ParseRoute(path).to = "admin" <=> Names(path, "admin", <<>>)
           /\ ParseRoute(path).to = "entry" <=> Names(path, "id", <<>>)
           /\ ParseRoute(path).to = "entry_like" <=> Names(path, "id", <<Word("like")>>)
           /\ ParseRoute(path).to \in {"entry", "entry_like"} =>
                 ParseRoute(path).id = Named(path)
<1>1. <<>> # <<Word("like")>>
  OBVIOUS
<1>2. CASE path.next # "slash"
  BY <1>2 DEF ParseRoute, Route, Names
<1>3. CASE path.next = "slash"
  <2> DEFINE first == path.segments[1]
             more  == Tail(path.segments)
  <2>1. Head(path.segments) = first
    OBVIOUS
  <2>2. ParseRoute(path) =
          CASE first.kind = "empty" -> Route("not_found", 0)
            [] first.kind = "admin" -> Route(IF more = <<>> THEN "admin" ELSE "not_found", 0)
            [] first.kind = "id"    ->
                  CASE more = <<>> -> Route("entry", first.id)
                    [] more = <<Word("like")>> -> Route("entry_like", first.id)
                    [] OTHER -> Route("not_found", 0)
            [] OTHER -> Route("invalid_entry_id", 0)
    BY <1>3 DEF ParseRoute
  <2> HIDE DEF first, more
  <2>3. /\ Names(path, "admin", <<>>) <=> first.kind = "admin" /\ more = <<>>
        /\ Names(path, "id", <<>>) <=> first.kind = "id" /\ more = <<>>
        /\ Names(path, "id", <<Word("like")>>) <=> first.kind = "id" /\ more = <<Word("like")>>
        /\ Named(path) = first.id
    BY <1>3, <2>1 DEF Names, Named, first, more
  <2>4. CASE first.kind = "empty"
    BY <2>2, <2>3, <2>4, <1>3 DEF Route
  <2>5. CASE first.kind = "admin"
    BY <2>2, <2>3, <2>5, <1>3 DEF Route
  <2>6. CASE first.kind = "id"
    <3>1. CASE more = <<>>
      BY <2>2, <2>3, <2>6, <3>1, <1>1, <1>3 DEF Route
    <3>2. CASE more = <<Word("like")>>
      BY <2>2, <2>3, <2>6, <3>2, <1>1, <1>3 DEF Route
    <3>3. CASE more # <<>> /\ more # <<Word("like")>>
      BY <2>2, <2>3, <2>6, <3>3, <1>3 DEF Route
    <3> QED BY <3>1, <3>2, <3>3
  <2>7. CASE first.kind \notin {"empty", "admin", "id"}
    BY <2>2, <2>3, <2>7, <1>3 DEF Route
  <2> QED BY <2>4, <2>5, <2>6, <2>7
<1> QED BY <1>2, <1>3

\* A body that is counted as one field sets one.
LEMMA OneField ==
    ASSUME NEW body \in Body
    PROVE  /\ Cardinality(Active(body)) \in Nat
           /\ Cardinality(Active(body)) = 1 <=> \E f : Active(body) = {f}
<1> DEFINE Four == {"is_deleted", "is_hidden", "response", "clear_response"}
<1>1. Active(body) \subseteq Four
  BY DEF Active, Body
<1>2. IsFiniteSet({}) /\ IsFiniteSet({"is_deleted"}) /\ IsFiniteSet({"is_deleted", "is_hidden"})
      /\ IsFiniteSet({"is_deleted", "is_hidden", "response"})
  <2>1. IsFiniteSet({"is_deleted"})
    BY FS_Singleton
  <2>2. IsFiniteSet({"is_deleted"} \cup {"is_hidden"})
    BY <2>1, FS_AddElement
  <2>3. IsFiniteSet(({"is_deleted"} \cup {"is_hidden"}) \cup {"response"})
    BY <2>2, FS_AddElement
  <2>4. /\ {"is_deleted"} \cup {"is_hidden"} = {"is_deleted", "is_hidden"}
        /\ ({"is_deleted"} \cup {"is_hidden"}) \cup {"response"}
             = {"is_deleted", "is_hidden", "response"}
    OBVIOUS
  <2> QED BY <2>1, <2>2, <2>3, <2>4, FS_EmptySet
<1>3. IsFiniteSet(Four)
  <2>1. IsFiniteSet({"is_deleted", "is_hidden", "response"} \cup {"clear_response"})
    BY <1>2, FS_AddElement
  <2>2. {"is_deleted", "is_hidden", "response"} \cup {"clear_response"} = Four
    OBVIOUS
  <2> QED BY <2>1, <2>2
<1>4. IsFiniteSet(Active(body))
  BY <1>1, <1>3, FS_Subset
<1> QED BY <1>4, FS_CardinalityType, FS_Singleton

\* What is documented for a field is asked for where it alone is counted, and its
\* value fits.
LEMMA AskingSetsOne ==
    ASSUME NEW body \in Body
    PROVE  \A w : AsksFor(body, w) <=>
              \/ w = "delete"  /\ Active(body) = {"is_deleted"} /\ body.is_deleted = TRUE
              \/ w = "hide"    /\ Active(body) = {"is_hidden"} /\ body.is_hidden = TRUE
              \/ w = "unhide"  /\ Active(body) = {"is_hidden"} /\ body.is_hidden = FALSE
              \/ w = "respond" /\ Active(body) = {"response"}
              \/ w = "clear_response" /\ Active(body) = {"clear_response"}
<1>1. /\ body.is_deleted \in BOOLEAN \cup {Null} /\ body.is_hidden \in BOOLEAN \cup {Null}
      /\ body.response \in {"text", Null} /\ body.clear_response \in BOOLEAN \cup {Null}
      /\ DOMAIN body = {"is_deleted", "is_hidden", "response", "clear_response"}
  BY DEF Body
<1>2. /\ Active(body) \subseteq {"is_deleted", "is_hidden", "response", "clear_response"}
      /\ "is_deleted" \in Active(body) <=> body.is_deleted # Null
      /\ "is_hidden" \in Active(body) <=> body.is_hidden # Null
      /\ "response" \in Active(body) <=> body.response # Null
      /\ "clear_response" \in Active(body) <=> body.clear_response = TRUE
  BY <1>1 DEF Active
<1>3. /\ Only(body, "is_deleted") <=>
            body.is_hidden = Null /\ body.response = Null /\ body.clear_response # TRUE
      /\ Only(body, "is_hidden") <=>
            body.is_deleted = Null /\ body.response = Null /\ body.clear_response # TRUE
      /\ Only(body, "response") <=>
            body.is_deleted = Null /\ body.is_hidden = Null /\ body.clear_response # TRUE
      /\ Only(body, "clear_response") <=>
            body.is_deleted = Null /\ body.is_hidden = Null /\ body.response = Null
  <2> DEFINE Unset(g) == body[g] = Null \/ (g = "clear_response" /\ body[g] = FALSE)
  <2>1. /\ Unset("is_deleted") <=> body.is_deleted = Null
        /\ Unset("is_hidden") <=> body.is_hidden = Null
        /\ Unset("response") <=> body.response = Null
        /\ Unset("clear_response") <=> body.clear_response # TRUE
    BY <1>1, NullAssumption
  <2>2. \A f : Only(body, f) <=>
               \A g \in {"is_deleted", "is_hidden", "response", "clear_response"} \ {f} : Unset(g)
    BY <1>1 DEF Only
  <2> HIDE DEF Unset
  <2>3. Only(body, "is_deleted") <=> Unset("is_hidden") /\ Unset("response") /\ Unset("clear_response")
    BY <2>2
  <2>4. Only(body, "is_hidden") <=> Unset("is_deleted") /\ Unset("response") /\ Unset("clear_response")
    BY <2>2
  <2>5. Only(body, "response") <=> Unset("is_deleted") /\ Unset("is_hidden") /\ Unset("clear_response")
    BY <2>2
  <2>6. Only(body, "clear_response") <=> Unset("is_deleted") /\ Unset("is_hidden") /\ Unset("response")
    BY <2>2
  <2> QED BY <2>1, <2>3, <2>4, <2>5, <2>6
<1>4. /\ Active(body) = {"is_deleted"} <=>
            body.is_deleted # Null /\ Only(body, "is_deleted")
      /\ Active(body) = {"is_hidden"} <=> body.is_hidden # Null /\ Only(body, "is_hidden")
      /\ Active(body) = {"response"} <=> body.response # Null /\ Only(body, "response")
      /\ Active(body) = {"clear_response"} <=>
            body.clear_response = TRUE /\ Only(body, "clear_response")
  <2> DEFINE A == Active(body)
  <2>1. /\ A = {"is_deleted"} <=> /\ "is_deleted" \in A /\ "is_hidden" \notin A
                                  /\ "response" \notin A /\ "clear_response" \notin A
        /\ A = {"is_hidden"} <=> /\ "is_deleted" \notin A /\ "is_hidden" \in A
                                 /\ "response" \notin A /\ "clear_response" \notin A
        /\ A = {"response"} <=> /\ "is_deleted" \notin A /\ "is_hidden" \notin A
                                /\ "response" \in A /\ "clear_response" \notin A
        /\ A = {"clear_response"} <=> /\ "is_deleted" \notin A /\ "is_hidden" \notin A
                                      /\ "response" \notin A /\ "clear_response" \in A
    BY <1>2
  <2> QED BY <1>2, <1>3, <2>1
<1> QED BY <1>1, <1>4, NullAssumption DEF AsksFor

\* parseAction finds an action exactly where one is documented.
LEMMA BodiesMean ==
    ASSUME NEW body \in Body
    PROVE  /\ ParseAction(body) \in PatchActions \cup {"panic", "invalid_request"}
           /\ \A w \in PatchActions : ParseAction(body) = w <=> AsksFor(body, w)
<1> DEFINE n == Cardinality(Active(body))
<1>1. n \in Nat /\ (n = 1 <=> \E f : Active(body) = {f})
  BY OneField
<1>2. ParseAction(body) = CASE n > 3 -> "panic"
                            [] n = 1 -> ActionOf(body)
                            [] OTHER -> "invalid_request"
  BY DEF ParseAction, CountMax
<1> HIDE DEF n
<1>3. CASE n # 1
  <2>1. ParseAction(body) \in {"panic", "invalid_request"}
    BY <1>1, <1>2, <1>3
  <2>2. \A w : ~AsksFor(body, w)
    BY <1>1, <1>3, AskingSetsOne
  <2> QED BY <2>1, <2>2 DEF PatchActions
<1>4. CASE n = 1
  <2>1. ParseAction(body) = ActionOf(body)
    BY <1>2, <1>4
  <2>2. PICK f : Active(body) = {f}
    BY <1>1, <1>4
  <2>3. /\ body.is_deleted \in BOOLEAN \cup {Null} /\ body.is_hidden \in BOOLEAN \cup {Null}
        /\ body.response \in {"text", Null} /\ body.clear_response \in BOOLEAN \cup {Null}
    BY DEF Body
  <2>4. /\ "is_deleted" \in Active(body) <=> body.is_deleted # Null
        /\ "is_hidden" \in Active(body) <=> body.is_hidden # Null
        /\ "response" \in Active(body) <=> body.response # Null
        /\ "clear_response" \in Active(body) <=> body.clear_response = TRUE
    BY DEF Active, Body
  <2>5. f \in {"is_deleted", "is_hidden", "response", "clear_response"}
    BY <2>2 DEF Active, Body
  <2>6. CASE f = "is_deleted"
    <3>1. ActionOf(body) = IF body.is_deleted THEN "delete" ELSE "invalid_request"
      BY <2>2, <2>4, <2>6 DEF ActionOf
    <3> QED BY <2>1, <2>2, <2>3, <2>4, <2>6, <3>1, NullAssumption, AskingSetsOne DEF PatchActions
  <2>7. CASE f = "is_hidden"
    <3>1. ActionOf(body) = IF body.is_hidden THEN "hide" ELSE "unhide"
      BY <2>2, <2>4, <2>7 DEF ActionOf
    <3> QED BY <2>1, <2>2, <2>3, <2>4, <2>7, <3>1, NullAssumption, AskingSetsOne DEF PatchActions
  <2>8. CASE f = "response"
    <3>1. ActionOf(body) = "respond"
      BY <2>2, <2>4, <2>8 DEF ActionOf
    <3>2. \A w : AsksFor(body, w) <=> w = "respond"
      BY <2>2, <2>8, AskingSetsOne
    <3> QED BY <2>1, <3>1, <3>2 DEF PatchActions
  <2>9. CASE f = "clear_response"
    <3>1. ActionOf(body) = "clear_response"
      BY <2>2, <2>4, <2>9 DEF ActionOf
    <3>2. \A w : AsksFor(body, w) <=> w = "clear_response"
      <4>1. Active(body) = {"clear_response"}
        BY <2>2, <2>9
      <4>2. /\ Active(body) # {"is_deleted"} /\ Active(body) # {"is_hidden"}
            /\ Active(body) # {"response"}
        BY <4>1
      <4> QED BY <4>1, <4>2, AskingSetsOne
    <3> QED BY <2>1, <3>1, <3>2 DEF PatchActions
  <2> QED BY <2>5, <2>6, <2>7, <2>8, <2>9
<1> QED BY <1>3, <1>4

\* The dispatcher and parseAction together do what is documented.
LEMMA DecisionsMean ==
    ASSUME NEW request \in Requests
    PROVE  /\ Decide(request) \in Lists \cup Operations \cup Refusals \cup {"panic"}
           /\ Decide(request) \in Lists \cup Operations => Meaning(request) = {Decide(request)}
           /\ Decide(request) \in Refusals => Meaning(request) = {}
<1> DEFINE path == request.path
           to   == ParseRoute(path).to
<1>1. /\ request.method \in {"GET", "POST", "PATCH", "DELETE"} /\ request.body \in Body
      /\ path.next \in {"end", "slash", "other"}
  BY RequestsAssumption
<1>2. /\ to \in {"base", "admin", "entry", "entry_like", "not_found", "invalid_entry_id"}
      /\ to = "base" <=> path.next = "end"
      /\ to = "admin" <=> Names(path, "admin", <<>>)
      /\ to = "entry" <=> Names(path, "id", <<>>)
      /\ to = "entry_like" <=> Names(path, "id", <<Word("like")>>)
  BY <1>1, RoutesMean
<1>3. Decide(request) = IF Handler(request.method, to) = "patch"
                        THEN ParseAction(request.body) ELSE Handler(request.method, to)
  BY DEF Decide
<1> HIDE DEF to
<1>4. CASE request.method = "GET"
  <2>1. Handler(request.method, to) = CASE to = "base" -> "list"
                                        [] to = "admin" -> "admin_list"
                                        [] to = "invalid_entry_id" -> "invalid_entry_id"
                                        [] OTHER -> "not_found"
    BY <1>2, <1>4 DEF Handler
  <2>2. Meaning(request) = {w \in Lists : \/ w = "list" /\ to = "base"
                                          \/ w = "admin_list" /\ to = "admin"}
    BY <1>2, <1>4 DEF Meaning
  <2> QED BY <1>2, <1>3, <2>1, <2>2 DEF Lists, Operations, Refusals, PatchActions
<1>5. CASE request.method = "POST"
  <2>1. Handler(request.method, to) = CASE to = "base" -> "post"
                                        [] to = "entry_like" -> "like"
                                        [] to = "invalid_entry_id" -> "invalid_entry_id"
                                        [] OTHER -> "not_found"
    BY <1>2, <1>5 DEF Handler
  <2>2. Meaning(request) = {w \in Operations : \/ w = "post" /\ to = "base"
                                               \/ w = "like" /\ to = "entry_like"}
    BY <1>2, <1>5 DEF Meaning
  <2> QED BY <1>2, <1>3, <2>1, <2>2 DEF Lists, Operations, Refusals, PatchActions
<1>6. CASE request.method = "DELETE"
  <2>1. Handler(request.method, to) = CASE to = "entry_like" -> "unlike"
                                        [] to = "invalid_entry_id" -> "invalid_entry_id"
                                        [] OTHER -> "not_found"
    BY <1>2, <1>6 DEF Handler
  <2>2. Meaning(request) = {w \in Operations : w = "unlike" /\ to = "entry_like"}
    BY <1>2, <1>6 DEF Meaning
  <2> QED BY <1>2, <1>3, <2>1, <2>2 DEF Lists, Operations, Refusals, PatchActions
<1>7. CASE request.method = "PATCH"
  <2>1. Handler(request.method, to) = CASE to = "entry" -> "patch"
                                        [] to = "invalid_entry_id" -> "invalid_entry_id"
                                        [] OTHER -> "not_found"
    BY <1>2, <1>7 DEF Handler
  <2>2. Meaning(request) = {w \in PatchActions : to = "entry" /\ AsksFor(request.body, w)}
    BY <1>2, <1>7 DEF Meaning
  <2>3. CASE to = "entry"
    <3>1. Decide(request) = ParseAction(request.body)
      BY <1>3, <2>1, <2>3
    <3>2. Meaning(request) = {w \in PatchActions : ParseAction(request.body) = w}
      BY <1>1, <2>2, <2>3, BodiesMean
    <3>3. ParseAction(request.body) \in PatchActions \cup {"panic", "invalid_request"}
      BY <1>1, BodiesMean
    <3> QED BY <3>1, <3>2, <3>3 DEF Lists, Operations, Refusals, PatchActions
  <2>4. CASE to # "entry"
    BY <1>3, <2>1, <2>2, <2>4 DEF Lists, Operations, Refusals, PatchActions
  <2> QED BY <2>3, <2>4
<1> QED BY <1>1, <1>4, <1>5, <1>6, <1>7

\* What is done to an entry is done to the one that the path names.
LEMMA DecisionsName ==
    ASSUME NEW request \in Requests, Decide(request) \in Operations \ {"post"}
    PROVE  ParseRoute(request.path).id = Named(request.path)
<1> DEFINE to == ParseRoute(request.path).to
<1>1. /\ request.method \in {"GET", "POST", "PATCH", "DELETE"}
      /\ to \in {"base", "admin", "entry", "entry_like", "not_found", "invalid_entry_id"}
      /\ to \in {"entry", "entry_like"} => ParseRoute(request.path).id = Named(request.path)
  BY RequestsAssumption, RoutesMean
<1>2. Decide(request) = IF Handler(request.method, to) = "patch"
                        THEN ParseAction(request.body) ELSE Handler(request.method, to)
  BY DEF Decide
<1> HIDE DEF to
<1>3. CASE to \notin {"entry", "entry_like"}
  <2>1. Handler(request.method, to) \in Lists \cup Refusals \cup {"post"}
    BY <1>1, <1>3 DEF Handler, Lists, Refusals
  <2> QED BY <1>2, <2>1 DEF Lists, Refusals, Operations, PatchActions
<1> QED BY <1>1, <1>3

-----------------------------------------------------------------------------
(* The endpoint.                                                           *)

EndpointInv ==
    EndpointTypeOK /\ ListInv /\ members \subseteq User /\ DecisionIsMeant

\* A step that writes is one operation of the board.
LEMMA OperatesBoard ==
    ASSUME NEW what, NEW id, Operate(what, id), members \subseteq User
    PROVE  BoardNext
<1>1. CASE what = "post" /\ \E u \in members, e \in EntryId : Write(u, e)
  BY <1>1 DEF BoardNext
<1>2. ASSUME NEW e \in EntryId,
             \/ \E u \in members : Remove(u, e) \/ AddLike(u, e) \/ TakeLike(u, e)
             \/ Hide(e) \/ Unhide(e)
             \/ \E text \in Text : Answer(e, text)
             \/ Answer(e, NoAnswer)
      PROVE  BoardNext
  BY <1>2 DEF BoardNext, Moderate
<1> QED BY <1>1, <1>2 DEF Operate

LEMMA ElsewhereIsBoard == Elsewhere => BoardNext
BY DEF Elsewhere, BoardNext, Moderate

LEMMA StepsBoard ==
    ASSUME members \subseteq User, [EndpointNext]_endpointVars
    PROVE  [BoardNext]_boardVars
<1>1. CASE Elsewhere
  BY <1>1, ElsewhereIsBoard
<1>2. CASE UNCHANGED endpointVars
  BY <1>2 DEF endpointVars
<1>3. ASSUME NEW r \in Reader, Serve(r) PROVE [BoardNext]_boardVars
  <2>1. CASE Act(r)
    BY <2>1, OperatesBoard DEF Act
  <2>2. CASE Receive(r) \/ BeginList(r) \/ Refuse(r) \/ ReadRow(r) \/ Respond(r)
    BY <2>2 DEF Receive, BeginList, Refuse, ReadRow, Respond
  <2> QED BY <1>3, <2>1, <2>2 DEF Serve
<1> QED BY <1>1, <1>2, <1>3 DEF EndpointNext

LEMMA MembersHold ==
    ASSUME members \subseteq User, [BoardNext]_boardVars
    PROVE  members' \subseteq User
BY DEF BoardNext, boardVars, Join, Write, Remove, AddLike, TakeLike, Moderate, Hide, Unhide,
       Answer

LEMMA BeginsWell == EndpointInit => EndpointInv
<1> SUFFICES ASSUME EndpointInit PROVE EndpointInv
  OBVIOUS
<1>1. ListInv
  BY NoListHolds DEF EndpointInit
<1>2. EndpointTypeOK
  BY <1>1 DEF EndpointInit, EndpointTypeOK, ListInv
<1>3. members \subseteq User
  BY AdminAssumption DEF EndpointInit, BoardInit
<1>4. DecisionIsMeant
  BY DEF EndpointInit, ListInit, DecisionIsMeant
<1> QED BY <1>1, <1>2, <1>3, <1>4 DEF EndpointInv

\* What is known of a request as it was decided, or forgotten.
LEMMA DecisionHolds ==
    ASSUME EndpointInv, NEW r \in Reader, NEW where \in Places, Goto(r, where),
           where # "routed", UNCHANGED endpoint \/ Forget(r), ListTypeOK'
    PROVE  EndpointTypeOK' /\ DecisionIsMeant'
<1>1. asked \in [Reader -> Requests \cup {NoRequest}]
      /\ decision \in [Reader -> Lists \cup Operations \cup Refusals \cup {"none", "panic"}]
      /\ place \in [Reader -> Places]
  BY DEF EndpointInv, EndpointTypeOK, ListTypeOK
<1>2. EndpointTypeOK'
  BY <1>1 DEF Forget, endpoint, EndpointTypeOK
<1>3. ASSUME NEW x \in Reader, place'[x] = "routed"
      PROVE  x # r /\ place[x] = "routed" /\ asked'[x] = asked[x] /\ decision'[x] = decision[x]
  BY <1>1, <1>3 DEF Goto, Forget, endpoint
<1>4. DecisionIsMeant'
  BY <1>3 DEF DecisionIsMeant, EndpointInv
<1> QED BY <1>2, <1>4

LEMMA ServeHolds ==
    ASSUME EndpointInv, NEW r \in Reader, Serve(r)
    PROVE  ListInv' /\ EndpointTypeOK' /\ DecisionIsMeant'
<1>1. ListInv /\ members \subseteq User /\ ListTypeOK
  BY DEF EndpointInv, ListInv
<1>2. CASE Receive(r)
  <2>1. PICK request \in Requests :
             /\ asked' = [asked EXCEPT ![r] = request]
             /\ decision' = [decision EXCEPT ![r] = Decide(request)]
    BY <1>2 DEF Receive
  <2>2. ListInv'
    BY <1>1, <1>2, MoveHolds DEF Receive, Places
  <2>3. EndpointTypeOK'
    BY <2>1, <2>2, DecisionsMean DEF EndpointInv, EndpointTypeOK, ListInv
  <2>4. ASSUME NEW x \in Reader, place'[x] = "routed"
        PROVE  /\ decision'[x] \in Lists \cup Operations => Meaning(asked'[x]) = {decision'[x]}
               /\ decision'[x] \in Operations \ {"post"} =>
                     ParseRoute(asked'[x].path).id = Named(asked'[x].path)
               /\ decision'[x] \in Refusals => Meaning(asked'[x]) = {}
    <3>1. CASE x = r
      <4>1. asked'[x] = request /\ decision'[x] = Decide(request)
        BY <2>1, <3>1 DEF EndpointInv, EndpointTypeOK
      <4> QED BY <4>1, DecisionsMean, DecisionsName
    <3>2. CASE x # r
      <4>1. asked'[x] = asked[x] /\ decision'[x] = decision[x] /\ place[x] = "routed"
        BY <1>1, <1>2, <2>1, <2>4, <3>2
           DEF Receive, Goto, ListTypeOK, EndpointInv, EndpointTypeOK
      <4> QED BY <4>1 DEF EndpointInv, DecisionIsMeant
    <3> QED BY <3>1, <3>2
  <2> QED BY <2>2, <2>3, <2>4 DEF DecisionIsMeant
<1>3. CASE Act(r)
  <2>1. ListInv'
    BY <1>1, <1>3, ActHolds DEF Act
  <2> QED BY <1>3, <2>1, DecisionHolds DEF Act, Places, ListInv
<1>4. CASE BeginList(r)
  <2>1. PICK s \in Scopes : OpenList(r, s)
    BY <1>4 DEF BeginList, Scopes
  <2>2. ListInv'
    BY <1>1, <1>4, <2>1, OpenHolds DEF BeginList
  <2> QED BY <1>4, <2>1, <2>2, DecisionHolds DEF BeginList, OpenList, Places, ListInv
<1>5. CASE Refuse(r)
  <2>1. ListInv'
    BY <1>1, <1>5, MoveHolds DEF Refuse, Places
  <2> QED BY <1>5, <2>1, DecisionHolds DEF Refuse, Places, ListInv
<1>6. CASE ReadRow(r)
  <2>1. ListInv'
    BY <1>1, <1>6, StepHolds DEF ReadRow
  <2>2. PICK where \in {"scan", "done"} : Goto(r, where)
    BY <1>1, <1>6 DEF ReadRow, StepRow, Goto, ListTypeOK
  <2> QED BY <1>6, <2>1, <2>2, DecisionHolds DEF ReadRow, Places, ListInv
<1>7. CASE Respond(r)
  <2>1. ListInv'
    BY <1>1, <1>7, CloseHolds DEF Respond
  <2>2. Goto(r, "idle")
    BY <1>1, <1>7 DEF Respond, CloseList, Reset, Goto, ListTypeOK
  <2> QED BY <1>7, <2>1, <2>2, DecisionHolds DEF Respond, Places, ListInv
<1> QED BY <1>2, <1>3, <1>4, <1>5, <1>6, <1>7 DEF Serve

LEMMA EndpointStep == EndpointInv /\ [EndpointNext]_endpointVars => EndpointInv'
<1> SUFFICES ASSUME EndpointInv, [EndpointNext]_endpointVars PROVE EndpointInv'
  OBVIOUS
<1>1. members' \subseteq User
  BY StepsBoard, MembersHold DEF EndpointInv
<1>2. CASE UNCHANGED endpointVars
  BY <1>2 DEF EndpointInv, EndpointTypeOK, ListInv, ListTypeOK, DecisionIsMeant, ReadSoFar,
              Observed, Listed, Shown, Seen, Posted, endpointVars, boardVars, list, moments,
              endpoint
<1>3. CASE Elsewhere
  <2>1. ListInv'
    BY <1>3, WatchHolds DEF Elsewhere, EndpointInv
  <2> QED BY <1>1, <1>3, <2>1
          DEF Elsewhere, EndpointInv, EndpointTypeOK, ListInv, DecisionIsMeant, list, endpoint
<1>4. CASE \E r \in Reader : Serve(r)
  BY <1>1, <1>4, ServeHolds DEF EndpointInv
<1> QED BY <1>2, <1>3, <1>4 DEF EndpointNext

LEMMA AlwaysInv == EndpointSpec => []EndpointInv
BY BeginsWell, EndpointStep, PTL DEF EndpointSpec

\* The variables always have their types.
THEOREM TypeCorrect == EndpointSpec => []EndpointTypeOK
<1>1. EndpointInv => EndpointTypeOK
  BY DEF EndpointInv
<1> QED BY <1>1, AlwaysInv, PTL

\* Every list is in order, holds no entry twice, none that was never public (in the
\* public list), and all that stayed in it: for any writes between any of its rows.
THEOREM ListsAreTrue == EndpointSpec => []ListIsTrue
<1>1. EndpointInv => ListIsTrue
  BY DEF EndpointInv, ListInv, ListIsTrue, ReadSoFar, Observed
<1> QED BY <1>1, AlwaysInv, PTL

\* A list with an entry that was never public while it was read is an admin's.
THEOREM HiddenStaysHidden == EndpointSpec => []HiddenOnlyToAdmins
<1>1. EndpointInv => HiddenOnlyToAdmins
  BY DEF EndpointInv, ListInv, ListTypeOK, Scopes, ReadSoFar, HiddenOnlyToAdmins
<1> QED BY <1>1, AlwaysInv, PTL

\* Whatever requests arrive, what a request is taken for is the one thing that is
\* documented for it.
THEOREM DecisionsAreMeant == EndpointSpec => []DecisionIsMeant
<1>1. EndpointInv => DecisionIsMeant
  BY DEF EndpointInv
<1> QED BY <1>1, AlwaysInv, PTL

\* From the request to the data: whatever other threads wrote since it arrived, a
\* thread that writes does the one thing documented for its request, and to the entry
\* that its path names.
WritesAsAsked ==
    [][\A r \in Reader : place[r] = "routed" /\ place'[r] = "done" =>
          \E w \in Meaning(asked[r]) :
             /\ Operate(w, ParseRoute(asked[r].path).id)
             /\ w # "post" => ParseRoute(asked[r].path).id = Named(asked[r].path)]_endpointVars

THEOREM WritesAreMeant == EndpointSpec => WritesAsAsked
<1>1. EndpointInv /\ [EndpointNext]_endpointVars =>
        [\A r \in Reader : place[r] = "routed" /\ place'[r] = "done" =>
            \E w \in Meaning(asked[r]) :
               /\ Operate(w, ParseRoute(asked[r].path).id)
               /\ w # "post" => ParseRoute(asked[r].path).id = Named(asked[r].path)]_endpointVars
  <2> SUFFICES ASSUME EndpointInv, EndpointNext, NEW r \in Reader,
                      place[r] = "routed", place'[r] = "done"
               PROVE  \E w \in Meaning(asked[r]) :
                         /\ Operate(w, ParseRoute(asked[r].path).id)
                         /\ w # "post" => ParseRoute(asked[r].path).id = Named(asked[r].path)
    OBVIOUS
  <2>1. place \in [Reader -> Places] /\ DecisionIsMeant
    BY DEF EndpointInv, EndpointTypeOK, ListTypeOK
  <2>2. ~Elsewhere
    BY DEF Elsewhere, list
  <2>3. PICK x \in Reader : Serve(x)
    BY <2>2 DEF EndpointNext
  <2>4. x = r
    BY <2>1, <2>3 DEF Serve, Receive, Act, BeginList, OpenList, Refuse, ReadRow, StepRow,
                      Respond, CloseList, Reset, Goto
  <2>5. Act(r)
    BY <2>1, <2>3, <2>4 DEF Serve, Receive, BeginList, OpenList, Refuse, ReadRow, StepRow,
                            Respond, Goto
  <2>6. /\ decision[r] \in Operations
        /\ Operate(decision[r], ParseRoute(asked[r].path).id)
    BY <2>5 DEF Act
  <2>7. /\ Meaning(asked[r]) = {decision[r]}
        /\ decision[r] # "post" => ParseRoute(asked[r].path).id = Named(asked[r].path)
    BY <2>1, <2>6 DEF DecisionIsMeant
  <2> QED BY <2>6, <2>7
<1> QED BY <1>1, AlwaysInv, PTL DEF EndpointSpec, WritesAsAsked
-----------------------------------------------------------------------------
(* Which requests stop the process.                                        *)

Fields == {"is_deleted", "is_hidden", "response", "clear_response"}

\* The count leaves two bits only when every field asks for something.
LEMMA CountOverflows ==
    ASSUME NEW body \in Body
    PROVE  ParseAction(body) = "panic" <=> Active(body) = Fields
<1> DEFINE n == Cardinality(Active(body))
<1>1. Active(body) \subseteq Fields
  BY DEF Active, Body, Fields
<1>2. IsFiniteSet(Fields) /\ Cardinality(Fields) = 4
  <2> DEFINE A == {"is_deleted"}
             B == A \cup {"is_hidden"}
             C == B \cup {"response"}
             D == C \cup {"clear_response"}
  <2>1. IsFiniteSet(A) /\ Cardinality(A) = 1
    BY FS_Singleton
  <2>2. IsFiniteSet(B) /\ Cardinality(B) = 2
    <3>1. "is_hidden" \notin A
      OBVIOUS
    <3> HIDE DEF A
    <3> QED BY <2>1, <3>1, FS_AddElement
  <2>3. IsFiniteSet(C) /\ Cardinality(C) = 3
    <3>1. "response" \notin B
      OBVIOUS
    <3> HIDE DEF B
    <3> QED BY <2>2, <3>1, FS_AddElement
  <2>4. IsFiniteSet(D) /\ Cardinality(D) = 4
    <3>1. "clear_response" \notin C
      OBVIOUS
    <3> HIDE DEF C
    <3> QED BY <2>3, <3>1, FS_AddElement
  <2>5. D = Fields
    BY DEF Fields
  <2> HIDE DEF D
  <2> QED BY <2>4, <2>5
<1>3. n \in Nat /\ n <= 4 /\ (n = 4 <=> Active(body) = Fields)
  BY <1>1, <1>2, OneField, FS_Subset
<1>4. ParseAction(body) = "panic" <=> n > 3
  <2>1. ParseAction(body) = CASE n > 3 -> "panic"
                              [] n = 1 -> ActionOf(body)
                              [] OTHER -> "invalid_request"
    BY DEF ParseAction, CountMax
  <2>2. ActionOf(body) \in PatchActions \cup {"invalid_request"}
    BY DEF ActionOf, PatchActions
  <2> HIDE DEF n
  <2> QED BY <1>3, <2>1, <2>2 DEF PatchActions
<1> HIDE DEF n
<1> QED BY <1>3, <1>4

Overflows(request) ==
    /\ request.method = "PATCH" /\ Names(request.path, "id", <<>>)
    /\ Active(request.body) = Fields

LEMMA DecidesPanic ==
    ASSUME NEW request \in Requests
    PROVE  Decide(request) = "panic" <=> Overflows(request)
<1> DEFINE to == ParseRoute(request.path).to
<1>1. /\ request.method \in {"GET", "POST", "PATCH", "DELETE"}
      /\ ParseAction(request.body) = "panic" <=> Active(request.body) = Fields
  BY RequestsAssumption, CountOverflows
<1>2. /\ to \in {"base", "admin", "entry", "entry_like", "not_found", "invalid_entry_id"}
      /\ to = "entry" <=> Names(request.path, "id", <<>>)
  BY RequestsAssumption, RoutesMean
<1>3. Decide(request) = IF Handler(request.method, to) = "patch"
                        THEN ParseAction(request.body) ELSE Handler(request.method, to)
  BY DEF Decide
<1> HIDE DEF to
<1>4. /\ Handler(request.method, to) = "patch" <=> request.method = "PATCH" /\ to = "entry"
      /\ Handler(request.method, to) # "panic"
  BY <1>1, <1>2 DEF Handler
<1> QED BY <1>1, <1>2, <1>3, <1>4 DEF Overflows

\* A request is decided to stop the process exactly when it is a PATCH of an entry
\* whose body sets all four fields: the run patch_four_fields shows one, and there is
\* no other way.
OnlyFourFieldsPanic == \A r \in Reader : decision[r] = "panic" <=> Overflows(asked[r])

LEMMA PanicStep ==
    ASSUME EndpointInv, OnlyFourFieldsPanic, [EndpointNext]_endpointVars
    PROVE  OnlyFourFieldsPanic'
<1> USE DEF OnlyFourFieldsPanic
<1>1. EndpointTypeOK
  BY DEF EndpointInv
<1>2. ~Overflows(NoRequest)
  BY DEF Overflows, NoRequest
<1>3. ASSUME UNCHANGED endpoint
      PROVE  OnlyFourFieldsPanic'
  BY <1>3 DEF endpoint, Overflows
<1>4. ASSUME NEW r \in Reader, Forget(r)
      PROVE  OnlyFourFieldsPanic'
  BY <1>1, <1>2, <1>4 DEF Forget, EndpointTypeOK, Overflows
<1>5. ASSUME NEW r \in Reader, Receive(r)
      PROVE  OnlyFourFieldsPanic'
  <2>1. PICK request \in Requests :
             /\ asked' = [asked EXCEPT ![r] = request]
             /\ decision' = [decision EXCEPT ![r] = Decide(request)]
    BY <1>5 DEF Receive
  <2> QED BY <1>1, <2>1, DecidesPanic DEF EndpointTypeOK, Overflows
<1>6. CASE UNCHANGED endpointVars \/ Elsewhere
  BY <1>3, <1>6 DEF endpointVars, Elsewhere
<1>7. ASSUME NEW r \in Reader, Serve(r)
      PROVE  UNCHANGED endpoint \/ Forget(r) \/ Receive(r)
  BY <1>7 DEF Serve, Act, BeginList, Refuse, ReadRow, Respond
<1> QED BY <1>3, <1>4, <1>5, <1>6, <1>7 DEF EndpointNext

\* A process is stopped by a request exactly when its body sets all four fields;
\* any other body that sets several is refused, as README.md says.
THEOREM PanicsOnFourFields == EndpointSpec => []OnlyFourFieldsPanic
<1>1. EndpointInit => OnlyFourFieldsPanic
  BY DEF EndpointInit, OnlyFourFieldsPanic, Overflows, NoRequest
<1>2. EndpointInv /\ OnlyFourFieldsPanic /\ [EndpointNext]_endpointVars => OnlyFourFieldsPanic'
  BY PanicStep
<1> QED BY <1>1, <1>2, AlwaysInv, PTL DEF EndpointSpec
=============================================================================
