------------------------- MODULE CredentialsProofs -------------------------
(***************************************************************************)
(* Proofs about Credentials for any number of threads and of passwords.    *)
(***************************************************************************)
EXTENDS Credentials, TLAPS

LEMMA StartHolds == Init => IndInv
BY NoHashAssumption
   DEF Init, IndInv, TypeOK, Knows, LoginAtOneInstant, UndisturbedChange, Answered, Place, Reply, Request,
       NoRequest, Kinds

LEMMA StepHolds == IndInv /\ [Next]_vars => IndInv'
<1> SUFFICES ASSUME IndInv, [Next]_vars
             PROVE  IndInv'
  OBVIOUS
<1> USE NoHashAssumption
    DEF IndInv, TypeOK, Knows, LoginAtOneInstant, UndisturbedChange, Answered, Place, Reply,
        Refusals, Request, NoRequest, Kinds, Goto, Respond, Disturb, observer
<1>1. CASE UNCHANGED vars
  BY <1>1 DEF vars, handler
<1>2. ASSUME NEW t \in Thread, Arrive(t)
      PROVE  IndInv'
  BY <1>2 DEF Arrive
<1>3. ASSUME NEW t \in Thread, Guard(t)
      PROVE  IndInv'
  <2>1. CASE PassGuard(t)
    BY <2>1 DEF PassGuard
  <2>2. CASE RefuseChange(t)
    BY <2>2 DEF RefuseChange
  <2> QED BY <1>3, <2>1, <2>2 DEF Guard
<1>4. ASSUME NEW t \in Thread, Check(t)
      PROVE  IndInv'
  <2>1. CASE ReadHash(t)
    BY <2>1 DEF ReadHash
  <2>2. CASE NoCredential(t)
    BY <2>2 DEF NoCredential
  <2>3. CASE Verify(t)
    BY <2>3 DEF Verify
  <2>4. CASE Mismatch(t)
    BY <2>4 DEF Mismatch
  <2> QED BY <1>4, <2>1, <2>2, <2>3, <2>4 DEF Check
<1>5. ASSUME NEW t \in Thread, Write(t)
      PROVE  IndInv'
  <2>1. CASE CreateSession(t)
    BY <2>1 DEF CreateSession
  <2>2. CASE SetPasswordHash(t)
    <3>1. stored' = req[t].new /\ stored' \in Password /\ stored' # NoHash
      BY <2>2 DEF SetPasswordHash
    <3>2. /\ \A x \in Thread : during[x] \subseteq during'[x]
          /\ \A x \in Thread : pc[x] \notin {"idle", "done"} => stored' \in during'[x]
          /\ \A x \in Thread : pc[x] = "done" => during'[x] = during[x]
      BY <2>2 DEF SetPasswordHash, Observe
    <3>3. during' \in [Thread -> SUBSET (Password \cup {NoHash})]
      BY <2>2, <3>1 DEF SetPasswordHash, Observe
    <3>4. /\ pc' = [pc EXCEPT ![t] = "affected"] /\ pc[t] = "store"
          /\ replaced' = [replaced EXCEPT ![t] = stored] /\ changes' = 1
          /\ UNCHANGED <<req, hash, reply>>
          /\ disturbed' = [x \in Thread |-> disturbed[x] \/ (x # t /\ pc[x] = "affected")]
      BY <2>2 DEF SetPasswordHash
    <3>5. TypeOK'
      BY <3>1, <3>3, <3>4
    <3>6. ASSUME NEW x \in Thread
          PROVE  Knows(x)'
      <4>1. CASE x = t
        <5>1. stored' \in during'[t] /\ req'[t] = req[t] /\ pc'[t] = "affected"
          BY <3>2, <3>4
        <5> QED BY <3>1, <3>2, <3>4, <4>1, <5>1
      <4>2. CASE x # t
        <5>1. pc'[x] = pc[x] /\ req'[x] = req[x] /\ hash'[x] = hash[x]
          BY <3>4, <4>2
        <5>2. pc[x] = "affected" => disturbed'[x]
          BY <3>4, <4>2
        <5>3. during[x] \subseteq during'[x]
          BY <3>2
        <5>4. pc[x] \notin {"idle", "done"} => stored' \in during'[x]
          BY <3>2
        <5>5. Knows(x)
          OBVIOUS
        <5> HIDE DEF IndInv, TypeOK, LoginAtOneInstant, UndisturbedChange
        <5> QED BY <3>1, <5>1, <5>2, <5>3, <5>4, <5>5
      <4> QED BY <4>1, <4>2
    <3>7. LoginAtOneInstant' /\ UndisturbedChange'
      <4>1. ASSUME NEW x \in Thread, pc'[x] = "done"
            PROVE  /\ pc[x] = "done" /\ req'[x] = req[x] /\ reply'[x] = reply[x]
                   /\ during'[x] = during[x] /\ disturbed'[x] = disturbed[x]
        <5>1. pc[x] = "done"
          BY <3>4, <4>1
        <5> QED BY <3>2, <3>4, <5>1
      <4> QED BY <4>1
    <3> QED BY <3>5, <3>6, <3>7
  <2>3. CASE ReadAffected(t)
    BY <2>3 DEF ReadAffected
  <2>4. CASE OtherWrite(t)
    BY <2>4 DEF OtherWrite
  <2> QED BY <1>5, <2>1, <2>2, <2>3, <2>4 DEF Write
<1>6. ASSUME NEW t \in Thread, StatementFails(t)
      PROVE  IndInv'
  <2>1. CASE pc[t] \in {"guard", "read", "verify"}
    <3>1. /\ pc' = [pc EXCEPT ![t] = "done"] /\ reply' = [reply EXCEPT ![t] = "internal_error"]
          /\ UNCHANGED <<stored, req, hash, during, replaced, changes, disturbed>>
      BY <1>6, <2>1 DEF StatementFails
    <3> QED BY <2>1, <3>1
  <2>2. CASE pc[t] \in {"session", "store", "other"}
    <3>1. /\ pc' = [pc EXCEPT ![t] = "done"] /\ reply' = [reply EXCEPT ![t] = "internal_error"]
          /\ UNCHANGED <<stored, req, hash, during, replaced>>
          /\ changes' \in {0, 1}
          /\ disturbed' = [x \in Thread |-> disturbed[x] \/ (x # t /\ pc[x] = "affected")]
      BY <1>6, <2>2 DEF StatementFails
    <3>2. disturbed' \in [Thread -> BOOLEAN]
      BY <3>1
    <3>3. \A x \in Thread \ {t} : /\ pc[x] = "affected" => disturbed'[x]
                                  /\ disturbed[x] => disturbed'[x]
      BY <3>1
    <3>4. ASSUME NEW x \in Thread PROVE Knows(x)'
      BY <2>2, <3>1, <3>3
    <3>5. LoginAtOneInstant' /\ UndisturbedChange'
      BY <2>2, <3>1, <3>3
    <3> QED BY <3>1, <3>2, <3>4, <3>5
  <2> QED BY <1>6, <2>1, <2>2 DEF StatementFails
<1>7. ASSUME NEW t \in Thread, Finish(t)
      PROVE  IndInv'
  BY <1>7 DEF Finish
<1> QED BY <1>1, <1>2, <1>3, <1>4, <1>5, <1>6, <1>7 DEF Next

LEMMA Inductive == Spec => []IndInv
BY StartHolds, StepHolds, PTL DEF Spec

\* The variables always have their types.
THEOREM TypeCorrect == Spec => []TypeOK
<1>1. IndInv => TypeOK
  BY DEF IndInv
<1> QED BY <1>1, Inductive, PTL

\* A login is never answered ok with a password the account did not have while
\* the request ran, nor refused with the only one it had.
THEOREM LoginsAreTrue == Spec => []LoginAtOneInstant
<1>1. IndInv => LoginAtOneInstant
  BY DEF IndInv
<1> QED BY <1>1, Inductive, PTL

\* A change answered ok was stored; a stored one is answered user_not_found only if
\* another handler wrote before the shared counter was read.
THEOREM ChangesAreTrue == Spec => []UndisturbedChange
<1>1. IndInv => UndisturbedChange
  BY DEF IndInv
<1> QED BY <1>1, Inductive, PTL

\* Only SetPasswordHash writes the hash.
LEMMA OnlySet ==
    ASSUME IndInv, Next, stored' # stored
    PROVE  \E t \in Thread : SetPasswordHash(t)
BY DEF Next, Arrive, Guard, PassGuard, RefuseChange, Check, ReadHash, NoCredential, Verify,
       Mismatch, Write, CreateSession, ReadAffected, OtherWrite, StatementFails, Finish

\* Every new password comes from a change that knew one the account had while the
\* change ran: no interleaving of changes and logins lets a stranger set it.
THEOREM ChangesEntitled == Spec => ChangesAreEntitled
<1>1. IndInv /\ [Next]_vars => [stored' # stored => ChangedByKnower]_vars
  <2> SUFFICES ASSUME IndInv, Next, stored' # stored
               PROVE  ChangedByKnower
    OBVIOUS
  <2>1. PICK t \in Thread : SetPasswordHash(t)
    BY OnlySet
  <2> QED BY <2>1 DEF SetPasswordHash, ChangedByKnower, IndInv, Knows
<1> QED BY <1>1, Inductive, PTL DEF Spec, ChangesAreEntitled

\* An account left without a password stays without one, however many threads try.
THEOREM StaysLockedOut == Spec => NoWayIn
<1>1. IndInv /\ [Next]_vars => [stored = NoHash => stored' = NoHash]_vars
  <2> SUFFICES ASSUME IndInv, Next, stored = NoHash, stored' # stored
               PROVE  FALSE
    BY DEF vars
  <2>1. PICK t \in Thread : SetPasswordHash(t)
    BY OnlySet
  <2> QED BY <2>1, NoHashAssumption DEF SetPasswordHash, IndInv, Knows
<1> QED BY <1>1, Inductive, PTL DEF Spec, NoWayIn
\* The process has one worker thread.
OneThread == \A t, x \in Thread : t = x

\* With one thread the hash a handler verified is the one its statement replaces.
Alone ==
    \A t \in Thread :
        /\ pc[t] \in {"verify", "store"} => hash[t] = stored
        /\ pc[t] = "affected" => replaced[t] = req[t].current
        /\ Answered(t, "change") /\ reply[t] = "ok" => replaced[t] = req[t].current

LEMMA AloneStep ==
    ASSUME OneThread, IndInv, Alone, [Next]_vars
    PROVE  Alone'
<1> USE DEF OneThread, Alone, Answered, Goto, Respond, observer
<1> DEFINE T == TypeOK /\ \A x \in Thread : Knows(x)
<1>t. T
  BY DEF IndInv
<1>1. CASE UNCHANGED vars
  BY <1>1 DEF vars, handler
<1>2. ASSUME NEW t \in Thread, Arrive(t) \/ Guard(t)
      PROVE  Alone'
  BY <1>t, <1>2 DEF Arrive, Guard, PassGuard, RefuseChange, TypeOK, Kinds
<1>3. ASSUME NEW t \in Thread, Check(t)
      PROVE  Alone'
  BY <1>t, <1>3 DEF Check, ReadHash, NoCredential, Verify, Mismatch, TypeOK, Knows
<1>4. ASSUME NEW t \in Thread, Write(t)
      PROVE  Alone'
  <2>1. CASE CreateSession(t) \/ OtherWrite(t)
    BY <1>t, <2>1 DEF CreateSession, OtherWrite, TypeOK, Knows
  <2>2. CASE SetPasswordHash(t)
    BY <1>t, <2>2 DEF SetPasswordHash, TypeOK, Knows
  <2>3. CASE ReadAffected(t)
    BY <1>t, <2>3 DEF ReadAffected, TypeOK
  <2> QED BY <1>4, <2>1, <2>2, <2>3 DEF Write
<1>5. ASSUME NEW t \in Thread, StatementFails(t) \/ Finish(t)
      PROVE  Alone'
  BY <1>t, <1>5 DEF StatementFails, Finish, TypeOK
<1> QED BY <1>1, <1>2, <1>3, <1>4, <1>5 DEF Next

\* A process with one worker thread keeps what README.md says of a change: answered
\* ok, it replaced the password it named.  The lost update of the run
\* credentials_lost_update needs another thread between verification and statement.
THEOREM OneThreadLosesNoChange == ASSUME OneThread PROVE Spec => []OkReplacedCurrent
<1>1. Init => Alone
  BY DEF Init, Alone, Answered
<1>2. IndInv /\ Alone /\ [Next]_vars => Alone'
  BY AloneStep
<1>3. Alone => OkReplacedCurrent
  BY DEF Alone, OkReplacedCurrent
<1> QED BY <1>1, <1>2, <1>3, Inductive, PTL DEF Spec
=============================================================================
