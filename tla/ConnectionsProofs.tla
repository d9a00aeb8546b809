------------------------- MODULE ConnectionsProofs -------------------------
(***************************************************************************)
(* What holds of the attempts, the row and the vendor's profiles for any   *)
(* number of attempts, overlapping confirmations and faults; and of chats, *)
(* binding codes and messages for any number of each.                      *)
(***************************************************************************)
EXTENDS Connections, Chat, TLAPS

\* A profile whose one link is done, or is written and about to close: nothing
\* will link it again, and no timer of it runs.
SpentAttempt(a) ==
  \/ attempt[a] \in {"confirmed", "forgotten"} /\ a \notin armed
  \/ \E r \in Requests : request[r].pc = "written" /\ request[r].attempt = a

\* Nothing has happened to the profile of an attempt that was not made.
NewAttempts == \A a \in Attempts : attempt[a] = "none" =>
  /\ a \notin deleting
  /\ a # row.profile
  /\ \A r \in Requests : request[r].attempt # a /\ request[r].previous # a

\* The commit of an unmeddled attempt is its only one, and off the clock.
CommitsAlone == \A r \in Requests : InCommit(r) /\ request[r].attempt \notin meddled =>
  /\ attempt[request[r].attempt] = "started"
  /\ request[r].attempt \notin armed
  /\ \A s \in Requests : InCommit(s) /\ request[s].attempt = request[r].attempt => s = r

\* The profile of an open attempt is kept until its link is written.
OpenIsKept == \A a \in Attempts \ meddled : attempt[a] \in {"minted", "started"} =>
  \/ a \in live \ deleting
  \/ \E r \in Requests : request[r].pc = "written" /\ request[r].attempt = a

\* What a link found in the row is spent, and no longer there once it has written.
SeenIsSpent == \A r \in Requests : request[r].previous \in Attempts \ meddled =>
  /\ SpentAttempt(request[r].previous)
  /\ request[r].pc = "written" /\ request[r].previous # request[r].attempt =>
       row.profile # request[r].previous

\* What the row names is spent and kept.
RowIsKept == row.profile \in Attempts \ meddled =>
  SpentAttempt(row.profile) /\ row.profile \in live \ deleting

KeepInv == NewAttempts /\ CommitsAlone /\ OpenIsKept /\ SeenIsSpent /\ RowIsKept

-----------------------------------------------------------------------------
(* Types *)

\* Attempts, requests and the row keep their types, and a confirmation has an
\* attempt exactly while it is under way.
LEMMA TypeStep == TypeOK /\ [Next]_vars => TypeOK'
<1> SUFFICES ASSUME TypeOK, [Next]_vars PROVE TypeOK'
  OBVIOUS
<1> USE ConnectionsAssumption DEF TypeOK, Statuses, InCommit
<1>1. ASSUME NEW a \in Attempts, MintProfile(a) PROVE TypeOK'
  BY <1>1 DEF MintProfile, history
<1>2. ASSUME NEW a \in Attempts, OpenAttempt(a) PROVE TypeOK'
  BY <1>2 DEF OpenAttempt, vendor, history
<1>3. ASSUME NEW a \in Attempts, ExpireAttempt(a) PROVE TypeOK'
  BY <1>3 DEF ExpireAttempt, Discard, history
<1>4. ASSUME NEW a \in Attempts, CancelAttempt(a) PROVE TypeOK'
  BY <1>4 DEF CancelAttempt, Disarmed, Discard
<1>5. ASSUME NEW a \in Attempts, ProfileDeleted(a) PROVE TypeOK'
  BY <1>5 DEF ProfileDeleted, memory, history
<1>6. ASSUME NEW a \in Attempts, DeletionRefused(a) PROVE TypeOK'
  BY <1>6 DEF DeletionRefused, memory
<1>7. ASSUME NEW r \in Requests, NEW a \in Attempts, ConfirmAttempt(r, a) PROVE TypeOK'
  <2>1. OthersUnderWay(a) \subseteq Attempts
    BY DEF OthersUnderWay
  <2>2. /\ request' \in [Requests -> [pc : {"idle", "read", "upsert", "written"},
                                      attempt : Attempts \cup {None},
                                      previous : Attempts \cup {None}]]
        /\ \A s \in Requests : InCommit(s)' <=> request'[s].attempt # None
    BY <1>7 DEF ConfirmAttempt
  <2>3. QED
    BY <1>7, <2>1, <2>2 DEF ConfirmAttempt, Disarmed, vendor
<1>8. ASSUME NEW r \in Requests, ReadPrevious(r) PROVE TypeOK'
  BY <1>8 DEF ReadPrevious, vendor, history
<1>9. ASSUME NEW r \in Requests, LinkConnection(r) PROVE TypeOK'
  BY <1>9 DEF LinkConnection, vendor, history
<1>10. ASSUME NEW r \in Requests, CloseConfirmed(r) PROVE TypeOK'
  BY <1>10 DEF CloseConfirmed, Replaced, Idle, history
<1>11. ASSUME NEW r \in Requests, CommitFails(r) PROVE TypeOK'
  BY <1>11 DEF CommitFails, Rearmed, Replaced, Idle, vendor
<1>12. CASE ExpireConnection
  BY <1>12 DEF ExpireConnection, RowExists, memory, vendor, history
<1>13. CASE ProcessDies
  <2>1. Forgotten \in [Attempts -> Statuses]
    BY DEF Forgotten
  <2>2. QED
    BY <1>13, <2>1 DEF ProcessDies, Idle
<1>14. CASE CloseServer
  <2> DEFINE waiting == {a \in Attempts : attempt[a] = "started"}
  <2>1. [a \in Attempts |-> IF a \in waiting THEN "cancelled" ELSE attempt[a]]
          \in [Attempts -> Statuses]
    OBVIOUS
  <2>2. QED
    BY <1>14, <2>1 DEF CloseServer, history
<1>15. CASE UNCHANGED vars
  BY <1>15 DEF vars
<1>16. ASSUME NEW a \in Attempts, MintUnanswered(a) PROVE TypeOK'
  BY <1>16 DEF MintUnanswered
<1>17. QED
  BY <1>1, <1>2, <1>3, <1>4, <1>5, <1>6, <1>7, <1>8, <1>9, <1>10, <1>11, <1>12, <1>13, <1>14,
     <1>15, <1>16 DEF Next, RequestStep

\* Every variable of the connection keeps its type.
THEOREM ConnectionTypeCorrect == Spec => []TypeOK
<1>1. Init => TypeOK
  BY ConnectionsAssumption DEF Init, TypeOK, Statuses, InCommit, Idle
<1>2. QED
  BY <1>1, TypeStep, PTL DEF Spec

-----------------------------------------------------------------------------
(* What the row names is kept *)

\* Every step keeps what protects the profile the row names.
LEMMA KeepStep == TypeOK /\ KeepInv /\ [Next]_vars => KeepInv'
<1> SUFFICES ASSUME TypeOK, KeepInv, [Next]_vars PROVE KeepInv'
  OBVIOUS
<1> USE ConnectionsAssumption DEF TypeOK, InCommit, KeepInv
<1>1. ASSUME NEW a \in Attempts, MintProfile(a) PROVE KeepInv'
  <2>1. NewAttempts'
    BY <1>1 DEF NewAttempts, MintProfile
  <2>2. CommitsAlone'
    BY <1>1 DEF CommitsAlone, MintProfile, history
  <2>3. OpenIsKept'
    BY <1>1 DEF OpenIsKept, NewAttempts, MintProfile, history
  <2>4. SeenIsSpent'
    BY <1>1 DEF SeenIsSpent, SpentAttempt, MintProfile, history
  <2>5. RowIsKept'
    BY <1>1 DEF RowIsKept, SpentAttempt, MintProfile, history
  <2>6. QED
    BY <2>1, <2>2, <2>3, <2>4, <2>5
<1>2. ASSUME NEW a \in Attempts, OpenAttempt(a) PROVE KeepInv'
  <2>1. NewAttempts'
    BY <1>2 DEF NewAttempts, OpenAttempt, vendor
  <2>2. CommitsAlone'
    BY <1>2 DEF CommitsAlone, OpenAttempt, history
  <2>3. OpenIsKept'
    BY <1>2 DEF OpenIsKept, OpenAttempt, vendor, history
  <2>4. SeenIsSpent'
    BY <1>2 DEF SeenIsSpent, SpentAttempt, OpenAttempt, history
  <2>5. RowIsKept'
    BY <1>2 DEF RowIsKept, SpentAttempt, OpenAttempt, vendor, history
  <2>6. QED
    BY <2>1, <2>2, <2>3, <2>4, <2>5
<1>3. ASSUME NEW a \in Attempts, ExpireAttempt(a) PROVE KeepInv'
  <2>1. NewAttempts'
    BY <1>3 DEF NewAttempts, ExpireAttempt, Discard
  <2>2. CommitsAlone'
    BY <1>3 DEF CommitsAlone, ExpireAttempt, Discard, history
  <2>3. OpenIsKept'
    BY <1>3 DEF OpenIsKept, ExpireAttempt, Discard, history
  <2>4. SeenIsSpent'
    BY <1>3 DEF SeenIsSpent, SpentAttempt, ExpireAttempt, Discard, history
  <2>5. RowIsKept'
    BY <1>3 DEF RowIsKept, SpentAttempt, CommitsAlone, ExpireAttempt, Discard, history
  <2>6. QED
    BY <2>1, <2>2, <2>3, <2>4, <2>5
<1>4. ASSUME NEW a \in Attempts, CancelAttempt(a) PROVE KeepInv'
  <2>1. NewAttempts'
    BY <1>4 DEF NewAttempts, CancelAttempt, Discard
  <2>2. CommitsAlone'
    BY <1>4 DEF CommitsAlone, CancelAttempt, Disarmed, Discard, CommitsOf
  <2>3. OpenIsKept'
    BY <1>4 DEF OpenIsKept, CancelAttempt, Discard
  <2>4. SeenIsSpent'
    BY <1>4 DEF SeenIsSpent, SpentAttempt, CancelAttempt, Disarmed, Discard
  <2>5. RowIsKept'
    BY <1>4 DEF RowIsKept, SpentAttempt, CancelAttempt, Disarmed, Discard, CommitsOf
  <2>6. QED
    BY <2>1, <2>2, <2>3, <2>4, <2>5
<1>5. ASSUME NEW a \in Attempts, ProfileDeleted(a) PROVE KeepInv'
  <2>1. NewAttempts'
    BY <1>5 DEF NewAttempts, ProfileDeleted, memory
  <2>2. CommitsAlone'
    BY <1>5 DEF CommitsAlone, ProfileDeleted, memory, history
  <2>3. OpenIsKept'
    BY <1>5 DEF OpenIsKept, ProfileDeleted, memory, history
  <2>4. SeenIsSpent'
    BY <1>5 DEF SeenIsSpent, SpentAttempt, ProfileDeleted, memory, history
  <2>5. RowIsKept'
    BY <1>5 DEF RowIsKept, SpentAttempt, ProfileDeleted, memory, history
  <2>6. QED
    BY <2>1, <2>2, <2>3, <2>4, <2>5
<1>6. ASSUME NEW a \in Attempts, DeletionRefused(a) PROVE KeepInv'
  <2>1. NewAttempts'
    BY <1>6 DEF NewAttempts, DeletionRefused, memory
  <2>2. CommitsAlone'
    BY <1>6 DEF CommitsAlone, DeletionRefused, memory
  <2>3. OpenIsKept'
    BY <1>6 DEF OpenIsKept, DeletionRefused, memory
  <2>4. SeenIsSpent'
    BY <1>6 DEF SeenIsSpent, SpentAttempt, DeletionRefused, memory
  <2>5. RowIsKept'
    BY <1>6 DEF RowIsKept, SpentAttempt, DeletionRefused, memory
  <2>6. QED
    BY <2>1, <2>2, <2>3, <2>4, <2>5
<1>7. ASSUME NEW r \in Requests, NEW a \in Attempts, ConfirmAttempt(r, a) PROVE KeepInv'
  <2>1. /\ request[r].pc = "idle"
        /\ request'[r] = [pc |-> "read", attempt |-> a, previous |-> None]
        /\ \A s \in Requests \ {r} : request'[s] = request[s]
    BY <1>7 DEF ConfirmAttempt, Idle
  <2>2. attempt[a] = "started" /\ armed' = armed \ {a} /\ UNCHANGED <<attempt, row, live, deleting>>
    BY <1>7 DEF ConfirmAttempt, Disarmed, vendor
  <2>3. meddled \subseteq meddled' /\ (a \notin meddled' => CommitsOf(a) = {})
    BY <1>7 DEF ConfirmAttempt
  <2>4. ASSUME NEW b \in Attempts, SpentAttempt(b) PROVE SpentAttempt(b)'
    BY <2>1, <2>2, <2>4 DEF SpentAttempt
  <2>5. NewAttempts'
    BY <2>1, <2>2 DEF NewAttempts
  <2>6. CommitsAlone'
    BY <2>1, <2>2, <2>3 DEF CommitsAlone, CommitsOf
  <2>7. OpenIsKept'
    BY <2>1, <2>2, <2>3 DEF OpenIsKept
  <2>8. SeenIsSpent'
    BY <2>1, <2>2, <2>3, <2>4 DEF SeenIsSpent
  <2>9. RowIsKept'
    BY <2>2, <2>3, <2>4 DEF RowIsKept
  <2>10. QED
    BY <2>5, <2>6, <2>7, <2>8, <2>9
<1>8. ASSUME NEW r \in Requests, ReadPrevious(r) PROVE KeepInv'
  <2>1. NewAttempts'
    BY <1>8 DEF NewAttempts, ReadPrevious, vendor
  <2>2. CommitsAlone'
    BY <1>8 DEF CommitsAlone, ReadPrevious, history
  <2>3. OpenIsKept'
    BY <1>8 DEF OpenIsKept, ReadPrevious, vendor, history
  <2>4. SeenIsSpent'
    BY <1>8 DEF SeenIsSpent, SpentAttempt, RowIsKept, ReadPrevious, history
  <2>5. RowIsKept'
    BY <1>8 DEF RowIsKept, SpentAttempt, ReadPrevious, vendor, history
  <2>6. QED
    BY <2>1, <2>2, <2>3, <2>4, <2>5
<1>9. ASSUME NEW r \in Requests, LinkConnection(r) PROVE KeepInv'
  <2>1. NewAttempts'
    BY <1>9 DEF NewAttempts, LinkConnection, vendor
  <2>2. CommitsAlone'
    BY <1>9 DEF CommitsAlone, LinkConnection, history
  <2>3. OpenIsKept'
    BY <1>9 DEF OpenIsKept, LinkConnection, vendor, history
  <2>4. SeenIsSpent'
    BY <1>9 DEF SeenIsSpent, SpentAttempt, CommitsAlone, LinkConnection, history
  <2>5. RowIsKept'
    BY <1>9 DEF RowIsKept, SpentAttempt, CommitsAlone, OpenIsKept, LinkConnection, vendor, history
  <2>6. QED
    BY <2>1, <2>2, <2>3, <2>4, <2>5
<1>10. ASSUME NEW r \in Requests, CloseConfirmed(r) PROVE KeepInv'
  <2>1. NewAttempts'
    BY <1>10 DEF NewAttempts, CloseConfirmed, Replaced, Idle
  <2>2. CommitsAlone'
    BY <1>10 DEF CommitsAlone, CloseConfirmed, Idle, history
  <2>3. OpenIsKept'
    BY <1>10 DEF OpenIsKept, SeenIsSpent, SpentAttempt, CloseConfirmed, Replaced, history
  <2>4. SeenIsSpent'
    BY <1>10 DEF SeenIsSpent, SpentAttempt, CommitsAlone, CloseConfirmed, Idle, history
  <2>5. RowIsKept'
    BY <1>10 DEF RowIsKept, SpentAttempt, CommitsAlone, SeenIsSpent, CloseConfirmed, Replaced, history
  <2>6. QED
    BY <2>1, <2>2, <2>3, <2>4, <2>5
<1>11. ASSUME NEW r \in Requests, CommitFails(r) PROVE KeepInv'
  <2>1. NewAttempts'
    BY <1>11 DEF NewAttempts, CommitFails, Idle, vendor
  <2>2. CommitsAlone'
    BY <1>11 DEF CommitsAlone, CommitFails, Rearmed, Idle
  <2>3. OpenIsKept'
    BY <1>11 DEF OpenIsKept, CommitFails, vendor
  <2>4. SeenIsSpent'
    BY <1>11 DEF SeenIsSpent, SpentAttempt, RowIsKept, CommitsAlone, CommitFails, Rearmed, Idle
  <2>5. RowIsKept'
    BY <1>11 DEF RowIsKept, SpentAttempt, CommitsAlone, CommitFails, Rearmed, vendor
  <2>6. QED
    BY <2>1, <2>2, <2>3, <2>4, <2>5
<1>12. ASSUME ExpireConnection PROVE KeepInv'
  <2>1. NewAttempts'
    BY <1>12 DEF NewAttempts, ExpireConnection, memory, vendor
  <2>2. CommitsAlone'
    BY <1>12 DEF CommitsAlone, ExpireConnection, memory, history
  <2>3. OpenIsKept'
    BY <1>12 DEF OpenIsKept, ExpireConnection, memory, vendor, history
  <2>4. SeenIsSpent'
    BY <1>12 DEF SeenIsSpent, SpentAttempt, ExpireConnection, memory, history
  <2>5. RowIsKept'
    BY <1>12 DEF RowIsKept, SpentAttempt, ExpireConnection, memory, vendor, history
  <2>6. QED
    BY <2>1, <2>2, <2>3, <2>4, <2>5
<1>13. ASSUME ProcessDies PROVE KeepInv'
  <2>1. NewAttempts'
    BY <1>13 DEF NewAttempts, ProcessDies, Forgotten, Idle
  <2>2. CommitsAlone'
    BY <1>13 DEF CommitsAlone, ProcessDies, Idle
  <2>3. OpenIsKept'
    BY <1>13 DEF OpenIsKept, ProcessDies, Forgotten
  <2>4. SeenIsSpent'
    BY <1>13 DEF SeenIsSpent, ProcessDies, Idle
  <2>5. RowIsKept'
    BY <1>13 DEF RowIsKept, SpentAttempt, NewAttempts, ProcessDies, Forgotten
  <2>6. QED
    BY <2>1, <2>2, <2>3, <2>4, <2>5
<1>14. ASSUME CloseServer PROVE KeepInv'
  <2>1. NewAttempts'
    BY <1>14 DEF NewAttempts, CloseServer
  <2>2. CommitsAlone'
    BY <1>14 DEF CommitsAlone, CloseServer, Idle
  <2>3. OpenIsKept'
    BY <1>14 DEF OpenIsKept, CloseServer
  <2>4. SeenIsSpent'
    BY <1>14 DEF SeenIsSpent, CloseServer, Idle
  <2>5. RowIsKept'
    BY <1>14 DEF RowIsKept, SpentAttempt, CloseServer, Idle, history
  <2>6. QED
    BY <2>1, <2>2, <2>3, <2>4, <2>5
<1>15. ASSUME UNCHANGED vars PROVE KeepInv'
  <2>1. NewAttempts'
    BY <1>15 DEF NewAttempts, vars
  <2>2. CommitsAlone'
    BY <1>15 DEF CommitsAlone, vars
  <2>3. OpenIsKept'
    BY <1>15 DEF OpenIsKept, vars
  <2>4. SeenIsSpent'
    BY <1>15 DEF SeenIsSpent, SpentAttempt, vars
  <2>5. RowIsKept'
    BY <1>15 DEF RowIsKept, SpentAttempt, vars
  <2>6. QED
    BY <2>1, <2>2, <2>3, <2>4, <2>5
<1>16. ASSUME NEW a \in Attempts, MintUnanswered(a) PROVE KeepInv'
  <2>1. NewAttempts'
    BY <1>16 DEF NewAttempts, MintUnanswered
  <2>2. CommitsAlone'
    BY <1>16 DEF CommitsAlone, MintUnanswered
  <2>3. OpenIsKept'
    BY <1>16 DEF OpenIsKept, MintUnanswered
  <2>4. SeenIsSpent'
    BY <1>16 DEF SeenIsSpent, SpentAttempt, MintUnanswered
  <2>5. RowIsKept'
    BY <1>16 DEF RowIsKept, SpentAttempt, MintUnanswered
  <2>6. QED
    BY <2>1, <2>2, <2>3, <2>4, <2>5
<1>17. QED
  BY <1>1, <1>2, <1>3, <1>4, <1>5, <1>6, <1>7, <1>8, <1>9, <1>10, <1>11, <1>12, <1>13, <1>14,
     <1>15, <1>16 DEF Next, RequestStep

\* It holds before the first attempt.
LEMMA KeepInit == Init => KeepInv
BY ConnectionsAssumption DEF Init, KeepInv, NewAttempts, CommitsAlone, OpenIsKept, SeenIsSpent, RowIsKept,
     InCommit, Idle

\* The connection never names a deleted profile, through any number of links,
\* replacements, failed commits and deaths, unless somebody cancelled or confirmed
\* the attempt while its commit was out, or the commit was left in doubt.
THEOREM NeverADeadProfile == Spec => []RowNamesALiveProfile
<1>1. Init => TypeOK /\ KeepInv
  BY KeepInit, ConnectionsAssumption DEF Init, TypeOK, Statuses, InCommit, Idle
<1>2. TypeOK /\ KeepInv /\ [Next]_vars => TypeOK' /\ KeepInv'
  BY TypeStep, KeepStep
<1>3. TypeOK /\ KeepInv => RowNamesALiveProfile
  BY ConnectionsAssumption DEF TypeOK, KeepInv, RowIsKept, RowNamesALiveProfile
<1>4. QED
  BY <1>1, <1>2, <1>3, PTL DEF Spec

-----------------------------------------------------------------------------
(* No attempt is left open with nobody to close it *)

\* Whoever takes an attempt off the clock closes it or puts it back.
LEMMA WatchedStep == TypeOK /\ OpenIsWatched /\ [Next]_vars => OpenIsWatched'
<1> SUFFICES ASSUME TypeOK, OpenIsWatched, [Next]_vars,
                    NEW a \in Attempts, attempt'[a] = "started"
             PROVE  a \in armed' \/ CommitsOf(a)' # {}
  BY DEF OpenIsWatched
<1> USE DEF TypeOK, OpenIsWatched, InCommit, CommitsOf
<1>1. ASSUME NEW b \in Attempts, OpenAttempt(b) PROVE a \in armed' \/ CommitsOf(a)' # {}
  BY <1>1 DEF OpenAttempt
<1>2. ASSUME NEW b \in Attempts,
             MintProfile(b) \/ MintUnanswered(b) \/ ExpireAttempt(b) \/ CancelAttempt(b)
             \/ ProfileDeleted(b) \/ DeletionRefused(b)
      PROVE  a \in armed' \/ CommitsOf(a)' # {}
  BY <1>2 DEF MintProfile, MintUnanswered, ExpireAttempt, CancelAttempt, ProfileDeleted, DeletionRefused, Discard,
       Disarmed, memory
<1>3. ASSUME NEW r \in Requests, NEW b \in Attempts, ConfirmAttempt(r, b)
      PROVE  a \in armed' \/ CommitsOf(a)' # {}
  <2>1. /\ request[r].pc = "idle"
        /\ request'[r] = [pc |-> "read", attempt |-> b, previous |-> None]
        /\ \A s \in Requests \ {r} : request'[s] = request[s]
    BY <1>3 DEF ConfirmAttempt, Idle
  <2>2. attempt' = attempt /\ armed' = armed \ {b}
    BY <1>3 DEF ConfirmAttempt, Disarmed
  <2>3. CASE a = b
    BY <2>1, <2>3
  <2>4. CASE a # b
    BY <2>1, <2>2, <2>4
  <2>5. QED
    BY <2>3, <2>4
<1>4. ASSUME NEW r \in Requests, ReadPrevious(r) \/ LinkConnection(r)
      PROVE  a \in armed' \/ CommitsOf(a)' # {}
  BY <1>4 DEF ReadPrevious, LinkConnection
<1>5. ASSUME NEW r \in Requests, CloseConfirmed(r) PROVE a \in armed' \/ CommitsOf(a)' # {}
  BY <1>5 DEF CloseConfirmed
<1>6. ASSUME NEW r \in Requests, CommitFails(r) PROVE a \in armed' \/ CommitsOf(a)' # {}
  BY <1>6 DEF CommitFails, Rearmed
<1>7. CASE ExpireConnection \/ UNCHANGED vars
  BY <1>7 DEF ExpireConnection, memory, vars
<1>8. CASE ProcessDies \/ CloseServer
  BY <1>8 DEF ProcessDies, Forgotten, CloseServer
<1>9. QED
  BY <1>1, <1>2, <1>3, <1>4, <1>5, <1>6, <1>7, <1>8 DEF Next, RequestStep

\* No attempt is left open with neither a timer nor a confirmation to close it,
\* whatever becomes of its commits.
THEOREM NoneLeftOpen == Spec => []OpenIsWatched
<1>1. Init => TypeOK /\ OpenIsWatched
  BY ConnectionsAssumption DEF Init, TypeOK, Statuses, InCommit, Idle, OpenIsWatched
<1>2. TypeOK /\ OpenIsWatched /\ [Next]_vars => TypeOK' /\ OpenIsWatched'
  BY TypeStep, WatchedStep
<1>3. QED
  BY <1>1, <1>2, PTL DEF Spec

-----------------------------------------------------------------------------
(* No profile is lost sight of *)

\* Of two links that overlap, neither profile is relied on.
OverlapsAreShadowed == \A r, s \in Requests :
  InCommit(r) /\ InCommit(s) /\ request[r].attempt # request[s].attempt =>
    {request[r].attempt, request[s].attempt} \subseteq shadowed

\* What a link found is what it replaces, unless it overlaps another link.
LinksSeeTheRow == \A r \in Requests : request[r].pc = "upsert" =>
  row.profile \in {request[r].previous, request[r].attempt} \cup shadowed

\* A written link stands, unless it overlaps another one.
WrittenStands == \A r \in Requests : request[r].pc = "written" =>
  request[r].attempt \in {row.profile} \cup shadowed

AccountInv ==
  OverlapsAreShadowed /\ LinksSeeTheRow /\ WrittenStands /\ EveryProfileIsAccountedFor

\* Whoever lets go of a profile deletes it, hands it on or gives it up.
LEMMA AccountStep == TypeOK /\ AccountInv /\ [Next]_vars => AccountInv'
<1> SUFFICES ASSUME TypeOK, AccountInv, [Next]_vars PROVE AccountInv'
  OBVIOUS
<1> USE ConnectionsAssumption DEF TypeOK, InCommit, AccountInv
<1>1. ASSUME NEW a \in Attempts, MintProfile(a) PROVE AccountInv'
  <2>1. OverlapsAreShadowed'
    BY <1>1 DEF OverlapsAreShadowed, MintProfile, history
  <2>2. LinksSeeTheRow'
    BY <1>1 DEF LinksSeeTheRow, MintProfile, history
  <2>3. WrittenStands'
    BY <1>1 DEF WrittenStands, MintProfile, history
  <2>4. EveryProfileIsAccountedFor'
    BY <1>1 DEF EveryProfileIsAccountedFor, Accounted, MintProfile, history
  <2>5. QED
    BY <2>1, <2>2, <2>3, <2>4
<1>2. ASSUME NEW a \in Attempts, OpenAttempt(a) PROVE AccountInv'
  <2>1. OverlapsAreShadowed'
    BY <1>2 DEF OverlapsAreShadowed, OpenAttempt, history
  <2>2. LinksSeeTheRow'
    BY <1>2 DEF LinksSeeTheRow, OpenAttempt, history
  <2>3. WrittenStands'
    BY <1>2 DEF WrittenStands, OpenAttempt, history
  <2>4. EveryProfileIsAccountedFor'
    BY <1>2 DEF EveryProfileIsAccountedFor, Accounted, OpenAttempt, vendor, history
  <2>5. QED
    BY <2>1, <2>2, <2>3, <2>4
<1>3. ASSUME NEW a \in Attempts, ExpireAttempt(a) PROVE AccountInv'
  <2>1. OverlapsAreShadowed'
    BY <1>3 DEF OverlapsAreShadowed, ExpireAttempt, history
  <2>2. LinksSeeTheRow'
    BY <1>3 DEF LinksSeeTheRow, ExpireAttempt, history
  <2>3. WrittenStands'
    BY <1>3 DEF WrittenStands, ExpireAttempt, history
  <2>4. EveryProfileIsAccountedFor'
    BY <1>3 DEF EveryProfileIsAccountedFor, Accounted, ExpireAttempt, Discard, history
  <2>5. QED
    BY <2>1, <2>2, <2>3, <2>4
<1>4. ASSUME NEW a \in Attempts, CancelAttempt(a) PROVE AccountInv'
  <2>1. OverlapsAreShadowed'
    BY <1>4 DEF OverlapsAreShadowed, CancelAttempt
  <2>2. LinksSeeTheRow'
    BY <1>4 DEF LinksSeeTheRow, CancelAttempt
  <2>3. WrittenStands'
    BY <1>4 DEF WrittenStands, CancelAttempt
  <2>4. EveryProfileIsAccountedFor'
    BY <1>4 DEF EveryProfileIsAccountedFor, Accounted, CancelAttempt, Discard
  <2>5. QED
    BY <2>1, <2>2, <2>3, <2>4
<1>5. ASSUME NEW a \in Attempts, ProfileDeleted(a) PROVE AccountInv'
  <2>1. OverlapsAreShadowed'
    BY <1>5 DEF OverlapsAreShadowed, ProfileDeleted, memory, history
  <2>2. LinksSeeTheRow'
    BY <1>5 DEF LinksSeeTheRow, ProfileDeleted, memory, history
  <2>3. WrittenStands'
    BY <1>5 DEF WrittenStands, ProfileDeleted, memory, history
  <2>4. EveryProfileIsAccountedFor'
    BY <1>5 DEF EveryProfileIsAccountedFor, Accounted, ProfileDeleted, memory, history
  <2>5. QED
    BY <2>1, <2>2, <2>3, <2>4
<1>6. ASSUME NEW a \in Attempts, DeletionRefused(a) PROVE AccountInv'
  <2>1. OverlapsAreShadowed'
    BY <1>6 DEF OverlapsAreShadowed, DeletionRefused, memory
  <2>2. LinksSeeTheRow'
    BY <1>6 DEF LinksSeeTheRow, DeletionRefused, memory
  <2>3. WrittenStands'
    BY <1>6 DEF WrittenStands, DeletionRefused, memory
  <2>4. EveryProfileIsAccountedFor'
    BY <1>6 DEF EveryProfileIsAccountedFor, Accounted, DeletionRefused, memory
  <2>5. QED
    BY <2>1, <2>2, <2>3, <2>4
<1>7. ASSUME NEW r \in Requests, NEW a \in Attempts, ConfirmAttempt(r, a) PROVE AccountInv'
  <2>1. /\ request[r].pc = "idle"
        /\ request'[r] = [pc |-> "read", attempt |-> a, previous |-> None]
        /\ \A s \in Requests \ {r} : request'[s] = request[s]
    BY <1>7 DEF ConfirmAttempt, Idle
  <2>2. shadowed \subseteq shadowed' /\ UNCHANGED <<attempt, row, live, deleting, givenUp>>
    BY <1>7 DEF ConfirmAttempt, vendor
  <2>3. OthersUnderWay(a) # {} => OthersUnderWay(a) \cup {a} \subseteq shadowed'
    BY <1>7 DEF ConfirmAttempt
  <2>4. \A s \in Requests : InCommit(s) /\ request[s].attempt # a =>
          request[s].attempt \in OthersUnderWay(a)
    BY DEF OthersUnderWay
  <2>5. OverlapsAreShadowed'
    BY <2>1, <2>2, <2>3, <2>4 DEF OverlapsAreShadowed
  <2>6. LinksSeeTheRow'
    BY <2>1, <2>2 DEF LinksSeeTheRow
  <2>7. WrittenStands'
    BY <2>1, <2>2 DEF WrittenStands
  <2>8. EveryProfileIsAccountedFor'
    BY <2>1, <2>2 DEF EveryProfileIsAccountedFor, Accounted
  <2>9. QED
    BY <2>5, <2>6, <2>7, <2>8
<1>8. ASSUME NEW r \in Requests, ReadPrevious(r) PROVE AccountInv'
  <2>1. OverlapsAreShadowed'
    BY <1>8 DEF OverlapsAreShadowed, ReadPrevious, history
  <2>2. LinksSeeTheRow'
    BY <1>8 DEF LinksSeeTheRow, ReadPrevious, history
  <2>3. WrittenStands'
    BY <1>8 DEF WrittenStands, ReadPrevious, history
  <2>4. EveryProfileIsAccountedFor'
    BY <1>8 DEF EveryProfileIsAccountedFor, Accounted, ReadPrevious, vendor, history
  <2>5. QED
    BY <2>1, <2>2, <2>3, <2>4
<1>9. ASSUME NEW r \in Requests, LinkConnection(r) PROVE AccountInv'
  <2>1. OverlapsAreShadowed'
    BY <1>9 DEF OverlapsAreShadowed, LinkConnection, history
  <2>2. LinksSeeTheRow'
    BY <1>9 DEF LinksSeeTheRow, OverlapsAreShadowed, LinkConnection, history
  <2>3. WrittenStands'
    BY <1>9 DEF WrittenStands, OverlapsAreShadowed, LinkConnection, history
  <2>4. EveryProfileIsAccountedFor'
    BY <1>9 DEF EveryProfileIsAccountedFor, Accounted, LinksSeeTheRow, LinkConnection, vendor, history
  <2>5. QED
    BY <2>1, <2>2, <2>3, <2>4
<1>10. ASSUME NEW r \in Requests, CloseConfirmed(r) PROVE AccountInv'
  <2>1. OverlapsAreShadowed'
    BY <1>10 DEF OverlapsAreShadowed, CloseConfirmed, Idle, history
  <2>2. LinksSeeTheRow'
    BY <1>10 DEF LinksSeeTheRow, CloseConfirmed, Idle, history
  <2>3. WrittenStands'
    BY <1>10 DEF WrittenStands, CloseConfirmed, Idle, history
  <2>4. EveryProfileIsAccountedFor'
    BY <1>10 DEF EveryProfileIsAccountedFor, Accounted, WrittenStands, CloseConfirmed, Replaced, history
  <2>5. QED
    BY <2>1, <2>2, <2>3, <2>4
<1>11. ASSUME NEW r \in Requests, CommitFails(r) PROVE AccountInv'
  <2>1. OverlapsAreShadowed'
    BY <1>11 DEF OverlapsAreShadowed, CommitFails, Idle
  <2>2. LinksSeeTheRow'
    BY <1>11 DEF LinksSeeTheRow, CommitFails, Idle
  <2>3. WrittenStands'
    BY <1>11 DEF WrittenStands, CommitFails, Idle
  <2>4. EveryProfileIsAccountedFor'
    BY <1>11 DEF EveryProfileIsAccountedFor, Accounted, WrittenStands, CommitFails, Replaced, vendor
  <2>5. QED
    BY <2>1, <2>2, <2>3, <2>4
<1>12. ASSUME ExpireConnection PROVE AccountInv'
  <2>1. OverlapsAreShadowed'
    BY <1>12 DEF OverlapsAreShadowed, ExpireConnection, memory, history
  <2>2. LinksSeeTheRow'
    BY <1>12 DEF LinksSeeTheRow, ExpireConnection, memory, history
  <2>3. WrittenStands'
    BY <1>12 DEF WrittenStands, ExpireConnection, memory, history
  <2>4. EveryProfileIsAccountedFor'
    BY <1>12 DEF EveryProfileIsAccountedFor, Accounted, ExpireConnection, memory, vendor, history
  <2>5. QED
    BY <2>1, <2>2, <2>3, <2>4
<1>13. ASSUME ProcessDies PROVE AccountInv'
  <2>1. OverlapsAreShadowed'
    BY <1>13 DEF OverlapsAreShadowed, ProcessDies
  <2>2. LinksSeeTheRow'
    BY <1>13 DEF LinksSeeTheRow, ProcessDies, Idle
  <2>3. WrittenStands'
    BY <1>13 DEF WrittenStands, ProcessDies, Idle
  <2>4. EveryProfileIsAccountedFor'
    BY <1>13 DEF EveryProfileIsAccountedFor, Accounted, ProcessDies
  <2>5. QED
    BY <2>1, <2>2, <2>3, <2>4
<1>14. ASSUME CloseServer PROVE AccountInv'
  <2>1. OverlapsAreShadowed'
    BY <1>14 DEF OverlapsAreShadowed, CloseServer
  <2>2. LinksSeeTheRow'
    BY <1>14 DEF LinksSeeTheRow, CloseServer, history
  <2>3. WrittenStands'
    BY <1>14 DEF WrittenStands, CloseServer, history
  <2>4. EveryProfileIsAccountedFor'
    BY <1>14 DEF EveryProfileIsAccountedFor, Accounted, CloseServer, history
  <2>5. QED
    BY <2>1, <2>2, <2>3, <2>4
<1>15. ASSUME UNCHANGED vars PROVE AccountInv'
  <2>1. OverlapsAreShadowed'
    BY <1>15 DEF OverlapsAreShadowed, vars
  <2>2. LinksSeeTheRow'
    BY <1>15 DEF LinksSeeTheRow, vars
  <2>3. WrittenStands'
    BY <1>15 DEF WrittenStands, vars
  <2>4. EveryProfileIsAccountedFor'
    BY <1>15 DEF EveryProfileIsAccountedFor, Accounted, vars
  <2>5. QED
    BY <2>1, <2>2, <2>3, <2>4
<1>16. ASSUME NEW a \in Attempts, MintUnanswered(a) PROVE AccountInv'
  <2>1. OverlapsAreShadowed'
    BY <1>16 DEF OverlapsAreShadowed, MintUnanswered
  <2>2. LinksSeeTheRow'
    BY <1>16 DEF LinksSeeTheRow, MintUnanswered
  <2>3. WrittenStands'
    BY <1>16 DEF WrittenStands, MintUnanswered
  <2>4. EveryProfileIsAccountedFor'
    BY <1>16 DEF EveryProfileIsAccountedFor, Accounted, MintUnanswered
  <2>5. QED
    BY <2>1, <2>2, <2>3, <2>4
<1>17. QED
  BY <1>1, <1>2, <1>3, <1>4, <1>5, <1>6, <1>7, <1>8, <1>9, <1>10, <1>11, <1>12, <1>13, <1>14,
     <1>15, <1>16 DEF Next, RequestStep

\* No profile at the vendor is lost sight of: it is held, being deleted, named by the
\* row or about to be replaced, given up with a warning or by a death, minted for a
\* start that failed, or shadowed by a link that overlapped another.
THEOREM NoProfileIsLost == Spec => []EveryProfileIsAccountedFor
<1>1. Init => TypeOK /\ AccountInv
  BY ConnectionsAssumption DEF Init, TypeOK, Statuses, InCommit, Idle, AccountInv,
       OverlapsAreShadowed, LinksSeeTheRow, WrittenStands, EveryProfileIsAccountedFor
<1>2. TypeOK /\ AccountInv /\ [Next]_vars => TypeOK' /\ AccountInv'
  BY TypeStep, AccountStep
<1>3. AccountInv => EveryProfileIsAccountedFor
  BY DEF AccountInv
<1>4. QED
  BY <1>1, <1>2, <1>3, PTL DEF Spec

--------------------------------------------------------------------------------
(* The chat (bot/src/runtime.ts, binding.ts, rate-limit.ts, routing.ts). *)

Redeeming == {"code", "occupant", "owner", "bind"}
Locking == {"occupant", "owner", "bind"}
Handled == {"reply", "done", "failed"}

\* The record of a message that came in.
Written(r) ==
  /\ r = [stage |-> r.stage, chat |-> r.chat, content |-> r.content, heard |-> r.heard,
          reply |-> r.reply, at |-> r.at, routed |-> r.routed, occupant |-> r.occupant,
          user |-> r.user, pending |-> r.pending, task |-> r.task, taken |-> r.taken,
          rivals |-> r.rivals]
  /\ r.stage # "unsent" /\ r.chat \in Chats /\ r.content \in Contents
  /\ r.heard \in BOOLEAN /\ r.taken \in BOOLEAN

\* What a message's own record says of it.
Rightly(r) ==
  /\ Written(r)
  /\ r.routed = FALSE
  /\ r.stage = "failed" \/ r.content.is = "edit" \/ r.heard = TRUE
  /\ r.stage \notin Handled => r.reply = "none" /\ r.taken = FALSE
  /\ r.stage = "reply" => r.reply # "none"
  /\ r.stage \in Redeeming \/ r.reply \in {"bound", "already_bound"} => r.content.is = "start"
  /\ r.stage = "binding" => r.content.is \notin {"start", "bare_start"}
  /\ r.taken = TRUE => r.reply \in {"answer_recorded", "decline_recorded", "unavailable"}
  /\ r.reply \in {"answer_recorded", "decline_recorded"} => r.taken = TRUE

\* The message has left its sender.
Gone(m) == messages[m].stage # "unsent"

MessagesRight ==
  /\ messages = [m \in Messages |-> messages[m]]
  /\ \A m \in Messages : messages[m] = Fresh \/ Rightly(messages[m])

ChatShape ==
  /\ chatOf \in [Users -> Chats \cup {Nobody}]
  /\ codes \in [Codes -> [state : {"unissued", "fresh", "consumed"}, holder : Users \cup {Nobody}, expires : Nat]]
  /\ \A k \in Codes : codes[k].state # "unissued" => codes[k].holder \in Users
  /\ buckets \in [Chats -> [tokens : Int, updatedAt : Int, noticedAt : Int]]
  /\ toldAt \in [Chats -> Int]
  /\ time \in Nat

\* Chat c was told at time t that it is refused.
Told(c, t) ==
  \E n \in Messages : /\ Gone(n) /\ messages[n].chat = c
                      /\ messages[n].reply \in Refusals /\ messages[n].at = t

\* A notice the bot holds against a chat was sent to it.
NoticesTold ==
  /\ \A c \in Chats :
       /\ buckets[c].noticedAt = Never \/ (buckets[c].noticedAt <= time /\ Told(c, buckets[c].noticedAt))
       /\ toldAt[c] = Never \/ (toldAt[c] <= time /\ Told(c, toldAt[c]))
  /\ \A m \in Messages :
       messages[m].stage = "done" /\ messages[m].content.is # "edit" /\ messages[m].reply = "none"
         => ToldBefore(m)

\* The redemption of m holds its code's row.
Locks(m) == messages[m].stage \in Locking

\* 1 a chat has one user; 2 a spent code's holder has a chat; 3, 4 a code's row has one holder, who
\* finds it fresh; 5 an occupant that was read has a chat still; 6, 7 a code is spent once and stays
\* spent; 8, 9 who was bound with no rival under way keeps the chat, for whoever comes to bind the
\* same account later has read it.
BindInv ==
  /\ \A u, v \in Users : chatOf[u] = chatOf[v] => u = v \/ chatOf[u] = Nobody
  /\ \A k \in Codes : codes[k].state = "consumed" => chatOf[codes[k].holder] # Nobody
  /\ \A m, n \in Messages : Locks(m) /\ Locks(n) /\ Code(m) = Code(n) => m = n
  /\ \A m \in Messages : Locks(m) => codes[Code(m)].state = "fresh"
  /\ \A m \in Messages : messages[m].stage \in {"owner", "bind"} /\ messages[m].occupant # Nobody
       => chatOf[Holder(m)] # Nobody
  /\ \A m, n \in Messages : Spent(m) /\ Spent(n) /\ Code(m) = Code(n) => m = n
  /\ \A m \in Messages : Spent(m) => codes[Code(m)].state = "consumed"
  /\ \A m \in Messages : Gone(m) /\ messages[m].reply = "bound"
       => chatOf[Holder(m)] = messages[m].chat \/ messages[m].rivals # {}
  /\ \A m, n \in Messages :
       (/\ Gone(m) /\ messages[m].reply = "bound" /\ messages[m].rivals = {}
        /\ At(n, "bind") /\ Holder(n) = Holder(m))
         => messages[n].chat = messages[m].chat

ChatInv == ChatShape /\ MessagesRight /\ NoticesTold /\ BindInv

Same(q, r) ==
  /\ Written(q) /\ q.chat = r.chat /\ q.content = r.content /\ q.heard = r.heard /\ q.rivals = r.rivals

\* Message m, and no other, is now what messages'[m] says.
Only(m) == messages' = [messages EXCEPT ![m] = messages'[m]]

\* A message that came in has the record of one.
LEMMA SentMessage ==
  ASSUME MessagesRight, NEW m \in Messages, Gone(m)
  PROVE  Rightly(messages[m])
BY DEF MessagesRight, Fresh, Gone

\* What each way of ending a step leaves of the message's record.
LEMMA Handling ==
  ASSUME MessagesRight, NEW m \in Messages, Gone(m)
  PROVE  /\ \A s : Moves(m, s) /\ s # "unsent" =>
                /\ Only(m) /\ Same(messages'[m], messages[m]) /\ messages'[m].stage = s
                /\ messages'[m].reply = messages[m].reply /\ messages'[m].at = messages[m].at
                /\ messages'[m].routed = messages[m].routed /\ messages'[m].taken = messages[m].taken
                /\ messages'[m].occupant = messages[m].occupant
         /\ \A words : Replies(m, words) =>
                /\ Only(m) /\ Same(messages'[m], messages[m]) /\ messages'[m].stage = "reply"
                /\ messages'[m].reply = words /\ (words \in Refusals => messages'[m].at = time)
                /\ messages'[m].routed = messages[m].routed /\ messages'[m].taken = messages[m].taken
         /\ Silent(m) =>
                /\ Only(m) /\ Same(messages'[m], messages[m]) /\ messages'[m].stage = "done"
                /\ messages'[m].reply = messages[m].reply /\ messages'[m].at = time
                /\ messages'[m].routed = messages[m].routed /\ messages'[m].taken = messages[m].taken
         /\ Throws(m) =>
                /\ Only(m) /\ Same(messages'[m], messages[m]) /\ messages'[m].stage = "failed"
                /\ messages'[m].reply = messages[m].reply /\ messages'[m].at = messages[m].at
                /\ messages[m].stage \notin Routed => messages'[m].routed = FALSE
                /\ messages'[m].taken = messages[m].taken
         /\ Becomes(m, Over(m, "done")) =>
                /\ Only(m) /\ Same(messages'[m], messages[m]) /\ messages'[m].stage = "done"
                /\ messages'[m].reply = messages[m].reply /\ messages'[m].at = messages[m].at
                /\ messages'[m].routed = messages[m].routed /\ messages'[m].taken = messages[m].taken
<1> DEFINE r == messages[m]
           q == messages'[m]
<1>0. Written(r) /\ messages = [n \in Messages |-> messages[n]]
  BY SentMessage DEF Rightly, MessagesRight
<1>b. ASSUME NEW new, Becomes(m, new) PROVE Only(m) /\ q = new
  BY <1>0, <1>b DEF Becomes, Only
<1>1. ASSUME NEW s, Moves(m, s), s # "unsent"
      PROVE  /\ Only(m) /\ Same(q, r) /\ q.stage = s
             /\ q.reply = r.reply /\ q.at = r.at
             /\ q.routed = r.routed /\ q.taken = r.taken
             /\ q.occupant = r.occupant
  <2>1. Only(m) /\ q = [r EXCEPT !.stage = s]
    BY <1>1, <1>b DEF Moves
  <2> QED
    BY <1>0, <1>1, <2>1 DEF Same, Written
<1>2. ASSUME NEW words, Replies(m, words)
      PROVE  /\ Only(m) /\ Same(q, r) /\ q.stage = "reply"
             /\ q.reply = words /\ (words \in Refusals => q.at = time)
             /\ q.routed = r.routed /\ q.taken = r.taken
  <2>1. Only(m) /\ q = [r EXCEPT !.stage = "reply", !.reply = words, !.at = IF words \in Refusals THEN time ELSE Never]
    BY <1>2, <1>b DEF Replies
  <2> QED
    BY <1>0, <2>1 DEF Same, Written
<1>3. ASSUME Silent(m)
      PROVE  /\ Only(m) /\ Same(q, r) /\ q.stage = "done"
             /\ q.reply = r.reply /\ q.at = time
             /\ q.routed = r.routed /\ q.taken = r.taken
  <2>1. Only(m) /\ q = [Over(m, "done") EXCEPT !.at = time]
    BY <1>3, <1>b DEF Silent
  <2> QED
    BY <1>0, <2>1 DEF Same, Written, Over
<1>4. ASSUME Throws(m)
      PROVE  /\ Only(m) /\ Same(q, r) /\ q.stage = "failed"
             /\ q.reply = r.reply /\ q.at = r.at
             /\ r.stage \notin Routed => q.routed = FALSE
             /\ q.taken = r.taken
  <2>1. Only(m) /\ q = [Over(m, "failed") EXCEPT !.routed = r.stage \in Routed]
    BY <1>4, <1>b DEF Throws
  <2>2. q.routed = (r.stage \in Routed)
    BY <1>0, <2>1 DEF Written, Over
  <2>3. r.stage \notin Routed => (r.stage \in Routed) = FALSE
    OBVIOUS
  <2>4. r.stage \notin Routed => q.routed = FALSE
    BY <2>2, <2>3, Zenon
  <2> QED
    BY <1>0, <2>1, <2>4 DEF Same, Written, Over
<1>5. ASSUME Becomes(m, Over(m, "done"))
      PROVE  /\ Only(m) /\ Same(q, r) /\ q.stage = "done"
             /\ q.reply = r.reply /\ q.at = r.at
             /\ q.routed = r.routed /\ q.taken = r.taken
  <2>1. Only(m) /\ q = Over(m, "done")
    BY <1>5, <1>b
  <2> QED
    BY <1>0, <2>1 DEF Same, Written, Over
<1> QED
  BY <1>1, <1>2, <1>3, <1>4, <1>5

\* A handler's step on message m: what was said stays said.
Onward(m) ==
  /\ Only(m) /\ Gone(m)
  /\ Rightly(messages[m]) /\ Rightly(messages'[m])
  /\ messages'[m].chat = messages[m].chat /\ messages'[m].content = messages[m].content
  /\ \/ messages[m].reply = "none"
     \/ /\ messages'[m].reply = messages[m].reply /\ messages'[m].at = messages[m].at
        /\ messages'[m].rivals = messages[m].rivals

\* The message is not over without a reply, edits aside.
Heeded(m) == messages'[m].stage = "done" /\ messages'[m].content.is # "edit" => messages'[m].reply # "none"

\* A step of one message is a step of no other.
LEMMA OthersStay ==
  ASSUME MessagesRight, NEW m \in Messages, Only(m)
  PROVE  /\ \A n \in Messages \ {m} : messages'[n] = messages[n]
         /\ messages' = [n \in Messages |-> messages'[n]]
BY DEF MessagesRight, Only

\* A rightful step of one message keeps all records right.
LEMMA OnwardIsRight ==
  ASSUME MessagesRight, NEW m \in Messages, Onward(m)
  PROVE  MessagesRight'
<1>1. \A n \in Messages : messages'[n] = Fresh \/ Rightly(messages'[n])
  BY OthersStay DEF Onward, MessagesRight
<1> QED
  BY <1>1, OthersStay DEF Onward, MessagesRight, Rightly, Written, Fresh

\* What was said to a chat remains said, whatever becomes of the other messages.
LEMMA ToldStays ==
  ASSUME MessagesRight, NEW m \in Messages, Onward(m)
  PROVE  /\ \A c, t : Told(c, t) => Told(c, t)'
         /\ \A n \in Messages : Gone(n) /\ n # m /\ ToldBefore(n) => ToldBefore(n)'
         /\ messages[m].stage \in Handled /\ messages'[m].at = messages[m].at /\ ToldBefore(m) => ToldBefore(m)'
<1>1. \A n \in Messages : Gone(n) => /\ Gone(n)' /\ messages'[n].chat = messages[n].chat
  BY OthersStay DEF Onward, Gone, Rightly, Written
<1>2. \A n \in Messages : messages[n].reply \in Refusals => messages'[n].reply = messages[n].reply /\ messages'[n].at = messages[n].at
  BY OthersStay DEF Onward, Refusals
<1>3. ASSUME NEW c, NEW t, Told(c, t) PROVE Told(c, t)'
  BY <1>1, <1>2, <1>3 DEF Told
<1>4. ASSUME NEW n \in Messages, Gone(n), messages'[n].at = messages[n].at, ToldBefore(n) PROVE ToldBefore(n)'
  BY <1>1, <1>2, <1>4 DEF ToldBefore, Gone
<1>5. \A n \in Messages \ {m} : messages'[n].at = messages[n].at
  BY OthersStay DEF Onward
<1>6. messages[m].stage \in Handled => Gone(m)
  BY DEF Handled, Gone
<1> QED
  BY <1>3, <1>4, <1>5, <1>6

\* A notice is dropped, or sent now; and the message ends with a reply or after a notice.
LEMMA NoticesStep ==
  ASSUME ChatShape, MessagesRight, NoticesTold, NEW m \in Messages, Onward(m), time' = time,
         \A c \in Chats :
           /\ \/ buckets'[c].noticedAt \in {Never, buckets[c].noticedAt}
              \/ buckets'[c].noticedAt = time /\ Told(c, time)'
           /\ \/ toldAt'[c] \in {Never, toldAt[c]}
              \/ toldAt'[c] = time /\ Told(c, time)',
         messages'[m].stage = "done" /\ messages'[m].content.is # "edit" /\ messages'[m].reply = "none"
           => ToldBefore(m)'
  PROVE  NoticesTold'
<1>1. ASSUME NEW n \in Messages, messages'[n].stage = "done", messages'[n].content.is # "edit", messages'[n].reply = "none"
      PROVE  ToldBefore(n)'
  <2>1. CASE n = m
    BY <1>1, <2>1
  <2>2. CASE n # m
    <3>1. messages'[n] = messages[n]
      BY <2>2, OthersStay DEF Onward
    <3> QED
      BY <1>1, <2>2, <3>1, ToldStays DEF NoticesTold, Gone
  <2> QED
    BY <2>1, <2>2
<1>2. ASSUME NEW c \in Chats
      PROVE  /\ buckets'[c].noticedAt = Never \/ (buckets'[c].noticedAt <= time /\ Told(c, buckets[c].noticedAt)')
             /\ toldAt'[c] = Never \/ (toldAt'[c] <= time /\ Told(c, toldAt[c])')
  <2>1. \A t : Told(c, t) => Told(c, t)'
    BY ToldStays
  <2>2. /\ buckets[c].noticedAt = Never \/ (buckets[c].noticedAt <= time /\ Told(c, buckets[c].noticedAt))
        /\ toldAt[c] = Never \/ (toldAt[c] <= time /\ Told(c, toldAt[c]))
    BY <1>2 DEF NoticesTold
  <2>3. time <= time
    BY DEF ChatShape
  <2> QED
    BY <1>2, <2>1, <2>2, <2>3 DEF Told
<1> QED
  BY <1>1, <1>2 DEF NoticesTold, Told

\* A step that leaves the notices alone, and ends a message only with a reply.
LEMMA NoticesKept ==
  ASSUME ChatShape, MessagesRight, NoticesTold, NEW m \in Messages, Onward(m), Heeded(m),
         UNCHANGED <<buckets, toldAt, time>>
  PROVE  NoticesTold'
BY NoticesStep DEF Heeded

\* A step that neither takes a code's row nor says it was spent.
LEMMA BindingKept ==
  ASSUME ChatShape, MessagesRight, BindInv, NEW m \in Messages, Onward(m),
         UNCHANGED <<chatOf, codes>>,
         messages'[m].stage \notin Locking,
         messages'[m].reply \in {"bound", "already_bound"} => messages'[m].reply = messages[m].reply
  PROVE  BindInv'
<1>1. /\ \A n \in Messages \ {m} : messages'[n] = messages[n]
      /\ \A n \in Messages : Gone(n) => messages'[n].content = messages[n].content /\ messages'[n].chat = messages[n].chat
  BY OthersStay DEF Onward
<1>2. \A n \in Messages : Locks(n)' => Locks(n) /\ n # m
  BY <1>1 DEF Locks
<1>3. \A n \in Messages : Gone(n)' => Gone(n)
  BY <1>1 DEF Gone, Onward
<1>4. \A n \in Messages : Spent(n)' => Spent(n) /\ messages'[n].reply = messages[n].reply /\ messages'[n].rivals = messages[n].rivals
  BY <1>1, <1>3 DEF Spent, Gone, Onward
<1>5. \A n \in Messages : Gone(n) => Code(n)' = Code(n) /\ Holder(n)' = Holder(n)
  BY <1>1 DEF Code, Holder
<1>6. \A n \in Messages : Locks(n) => Gone(n)
  BY DEF Locks, Locking, Gone
<1>7. \A n \in Messages : Gone(n)' /\ messages'[n].reply = "bound" => Spent(n)'
  BY DEF Spent, Gone
<1>8. \A n \in Messages : messages'[n].stage \in {"owner", "bind"} => Locks(n)'
  BY DEF Locks, Locking
<1>9. \A n \in Messages : Spent(n) => Gone(n)
  BY DEF Spent, Gone
<1>10. BindInv!1' /\ BindInv!2'
  BY DEF BindInv
<1>11. BindInv!3' /\ BindInv!4' /\ BindInv!5'
  BY <1>1, <1>2, <1>5, <1>6, <1>8 DEF BindInv
<1>12. BindInv!6' /\ BindInv!7'
  BY <1>4, <1>5, <1>9 DEF BindInv
<1>13. BindInv!8'
  BY <1>1, <1>3, <1>4, <1>5, <1>7 DEF BindInv
<1>14. BindInv!9'
  BY <1>1, <1>2, <1>3, <1>4, <1>5, <1>6, <1>7, <1>8 DEF BindInv, At
<1> QED
  BY <1>10, <1>11, <1>12, <1>13, <1>14 DEF BindInv

\* Such a step takes no code's row and says of none that it was spent.
Safe(m) == Onward(m) /\ messages'[m].stage \notin Locking
           /\ (messages'[m].reply \in {"bound", "already_bound"} => messages'[m].reply = messages[m].reply)

\* What a message may say.
LEMMA WhatContentsSay ==
  ASSUME NEW r, Rightly(r)
  PROVE  /\ r.content \in Contents
         /\ r.content.is \in {"start", "bare_start", "words", "no", "photo", "edit"}
         /\ r.content.is = "start" => r.content.code \in Codes
BY ChatsAssumption DEF Rightly, Written

\* An answer that tells of no binding and of no question.
LEMMA PlainReply ==
  ASSUME MessagesRight, NEW m \in Messages, Gone(m), NEW words,
         messages[m].stage \notin Handled,
         words \notin {"none", "bound", "already_bound", "answer_recorded", "decline_recorded"},
         Replies(m, words)
  PROVE  /\ Safe(m) /\ Heeded(m)
         /\ messages'[m].stage = "reply" /\ messages'[m].reply = words
         /\ words \in Refusals => messages'[m].at = time
<1>1. /\ Only(m) /\ Same(messages'[m], messages[m]) /\ messages'[m].stage = "reply"
      /\ messages'[m].reply = words /\ (words \in Refusals => messages'[m].at = time)
      /\ messages'[m].routed = messages[m].routed /\ messages'[m].taken = messages[m].taken
  BY Handling
<1>2. Rightly(messages[m])
  BY SentMessage
<1>3. Rightly(messages'[m])
  BY <1>1, <1>2 DEF Rightly, Same, Handled, Redeeming
<1> QED
  BY <1>1, <1>2, <1>3 DEF Safe, Heeded, Onward, Same, Locking, Rightly

\* A message is handed to the next handler.
LEMMA PlainMove ==
  ASSUME MessagesRight, NEW m \in Messages, Gone(m), NEW s,
         messages[m].stage \notin Handled,
         s \notin Handled \cup {"unsent"},
         s \in Redeeming => messages[m].content.is = "start",
         s = "binding" => messages[m].content.is \notin {"start", "bare_start"},
         Moves(m, s)
  PROVE  /\ Onward(m) /\ Heeded(m)
         /\ messages'[m].stage = s /\ messages'[m].reply = "none"
         /\ messages'[m].occupant = messages[m].occupant
<1>1. /\ Only(m) /\ Same(messages'[m], messages[m]) /\ messages'[m].stage = s
      /\ messages'[m].reply = messages[m].reply
      /\ messages'[m].routed = messages[m].routed /\ messages'[m].taken = messages[m].taken
      /\ messages'[m].occupant = messages[m].occupant
  BY Handling
<1>2. Rightly(messages[m])
  BY SentMessage
<1>3. Rightly(messages'[m])
  BY <1>1, <1>2 DEF Rightly, Same, Handled, Redeeming
<1> QED
  BY <1>1, <1>2, <1>3 DEF Heeded, Onward, Same, Rightly, Handled

\* A handler ends without a word.
LEMMA PlainSilence ==
  ASSUME MessagesRight, NEW m \in Messages, Gone(m),
         messages[m].stage \notin Handled, Silent(m)
  PROVE  Safe(m) /\ messages'[m].stage = "done" /\ messages'[m].reply = "none" /\ messages'[m].at = time
<1>1. /\ Only(m) /\ Same(messages'[m], messages[m]) /\ messages'[m].stage = "done"
      /\ messages'[m].reply = messages[m].reply /\ messages'[m].at = time
      /\ messages'[m].routed = messages[m].routed /\ messages'[m].taken = messages[m].taken
  BY Handling
<1>2. Rightly(messages[m])
  BY SentMessage
<1>3. Rightly(messages'[m])
  BY <1>1, <1>2 DEF Rightly, Same, Handled, Redeeming
<1> QED
  BY <1>1, <1>2, <1>3 DEF Safe, Onward, Same, Rightly, Locking

\* A throw outside the router.
LEMMA PlainThrow ==
  ASSUME MessagesRight, NEW m \in Messages, Gone(m),
         messages[m].stage \notin Routed, Throws(m)
  PROVE  Safe(m) /\ Heeded(m)
<1>1. /\ Only(m) /\ Same(messages'[m], messages[m]) /\ messages'[m].stage = "failed"
      /\ messages'[m].reply = messages[m].reply /\ messages'[m].at = messages[m].at
      /\ messages'[m].routed = FALSE
      /\ messages'[m].taken = messages[m].taken
  BY Handling
<1>2. Rightly(messages[m])
  BY SentMessage
<1>3. Rightly(messages'[m])
  BY <1>1, <1>2 DEF Rightly, Same, Handled, Redeeming
<1> QED
  BY <1>1, <1>2, <1>3 DEF Safe, Heeded, Onward, Same, Rightly, Locking

\* What the chat's handlers share, the tasks aside.
Untouched == UNCHANGED <<chatOf, codes, buckets, toldAt, time>>

\* The handlers that only read the chat's state, and say what they found.
LEMMA ReadersAreSafe ==
  ASSUME MessagesRight, NEW m \in Messages,
         \/ ResolveUser(m) \/ FindPendingQuestion(m) \/ Deliver(m) \/ AssistantResponds(m)
         \/ HandlerFails(m) \/ SendReply(m)
  PROVE  Safe(m) /\ Heeded(m) /\ Untouched
<1>1. CASE ResolveUser(m)
  <2>0. Gone(m) /\ messages[m].stage = "resolve" /\ Rightly(messages[m])
    BY <1>1, SentMessage DEF ResolveUser, At, Gone
  <2>1. CASE Replies(m, "how_to_bind")
    BY <1>1, <2>0, <2>1, PlainReply DEF ResolveUser, Untouched, Handled
  <2>2. CASE ~Replies(m, "how_to_bind")
    <3>1. PICK u : messages' = [messages EXCEPT ![m] = [messages[m] EXCEPT !.stage = "find", !.user = u]]
      BY <1>1, <2>2 DEF ResolveUser, Becomes
    <3>2. messages'[m] = [messages[m] EXCEPT !.stage = "find", !.user = u] /\ Only(m)
      BY <3>1 DEF MessagesRight, Only
    <3>3. /\ Written(messages'[m]) /\ messages'[m].stage = "find" /\ Same(messages'[m], messages[m])
          /\ messages'[m].reply = messages[m].reply /\ messages'[m].routed = messages[m].routed
          /\ messages'[m].taken = messages[m].taken
      BY <2>0, <3>2 DEF Rightly, Written, Same
    <3>4. Rightly(messages'[m])
      BY <2>0, <3>3 DEF Rightly, Same, Handled, Redeeming
    <3> QED
      BY <1>1, <2>0, <3>2, <3>3, <3>4 DEF ResolveUser, Untouched, Safe, Heeded, Onward, Same, Locking, Rightly, Handled
  <2> QED
    BY <2>1, <2>2
<1>2. CASE FindPendingQuestion(m)
  <2>0. Gone(m) /\ messages[m].stage = "find" /\ Rightly(messages[m])
    BY <1>2, SentMessage DEF FindPendingQuestion, At, Gone
  <2>1. CASE Moves(m, "assistant")
    BY <1>2, <2>0, <2>1, PlainMove DEF FindPendingQuestion, Untouched, Handled, Redeeming, Safe, Locking
  <2>2. CASE ~Moves(m, "assistant")
    <3>1. PICK t, p : messages' = [messages EXCEPT ![m] = [messages[m] EXCEPT !.stage = "deliver", !.task = t, !.pending = p]]
      BY <1>2, <2>2 DEF FindPendingQuestion, Becomes
    <3>2. messages'[m] = [messages[m] EXCEPT !.stage = "deliver", !.task = t, !.pending = p] /\ Only(m)
      BY <3>1 DEF MessagesRight, Only
    <3>3. /\ Written(messages'[m]) /\ messages'[m].stage = "deliver" /\ Same(messages'[m], messages[m])
          /\ messages'[m].reply = messages[m].reply /\ messages'[m].routed = messages[m].routed
          /\ messages'[m].taken = messages[m].taken
      BY <2>0, <3>2 DEF Rightly, Written, Same
    <3>4. Rightly(messages'[m])
      BY <2>0, <3>3 DEF Rightly, Same, Handled, Redeeming
    <3> QED
      BY <1>2, <2>0, <3>2, <3>3, <3>4 DEF FindPendingQuestion, Untouched, Safe, Heeded, Onward, Same, Locking, Rightly, Handled
  <2> QED
    BY <2>1, <2>2
<1>3. CASE Deliver(m)
  <2>0. Gone(m) /\ messages[m].stage = "deliver" /\ Rightly(messages[m])
    BY <1>3, SentMessage DEF Deliver, At, Gone
  <2>1. CASE Replies(m, "question_closed")
    BY <1>3, <2>0, <2>1, PlainReply DEF Deliver, Untouched, Handled
  <2>2. CASE ~Replies(m, "question_closed")
    <3>1. PICK words \in {"answer_recorded", "decline_recorded", "unavailable"} :
            messages' = [messages EXCEPT ![m] = [messages[m] EXCEPT !.stage = "reply", !.reply = words, !.taken = TRUE]]
      BY <1>3, <2>2 DEF Deliver, Becomes
    <3>2. messages'[m] = [messages[m] EXCEPT !.stage = "reply", !.reply = words, !.taken = TRUE] /\ Only(m)
      BY <3>1 DEF MessagesRight, Only
    <3>3. /\ Written(messages'[m]) /\ messages'[m].stage = "reply" /\ Same(messages'[m], messages[m])
          /\ messages'[m].reply = words /\ messages'[m].routed = messages[m].routed
          /\ messages'[m].taken = TRUE
      BY <2>0, <3>2 DEF Rightly, Written, Same
    <3>4. Rightly(messages'[m])
      BY <2>0, <3>3 DEF Rightly, Same, Handled, Redeeming
    <3> QED
      BY <1>3, <2>0, <3>2, <3>3, <3>4 DEF Deliver, Untouched, Safe, Heeded, Onward, Same, Locking, Rightly, Handled
  <2> QED
    BY <2>1, <2>2
<1>4. CASE AssistantResponds(m)
  <2>0. Gone(m) /\ messages[m].stage = "assistant"
    BY <1>4 DEF AssistantResponds, At, Gone
  <2> QED
    BY <1>4, <2>0, PlainReply DEF AssistantResponds, Untouched, Handled
<1>5. CASE HandlerFails(m)
  <2>0. Gone(m) /\ messages[m].stage \notin Handled
    BY <1>5 DEF HandlerFails, Gone, Routed, Handled
  <2>1. CASE Replies(m, "unavailable")
    BY <1>5, <2>0, <2>1, PlainReply DEF HandlerFails, Untouched
  <2>2. CASE ~Replies(m, "unavailable")
    <3>1. messages[m].stage \notin Routed /\ Throws(m)
      BY <1>5, <2>2 DEF HandlerFails, Routed
    <3> QED
      BY <1>5, <2>0, <3>1, PlainThrow DEF HandlerFails, Untouched
  <2> QED
    BY <2>1, <2>2
<1>6. CASE SendReply(m)
  <2>0. Gone(m) /\ messages[m].stage = "reply" /\ Rightly(messages[m]) /\ messages[m].stage \notin Routed
    BY <1>6, SentMessage DEF SendReply, At, Gone, Routed
  <2>1. CASE Throws(m)
    BY <1>6, <2>0, <2>1, PlainThrow DEF SendReply, Untouched
  <2>2. CASE Becomes(m, Over(m, "done"))
    <3>1. /\ Only(m) /\ Same(messages'[m], messages[m]) /\ messages'[m].stage = "done"
          /\ messages'[m].reply = messages[m].reply /\ messages'[m].at = messages[m].at
          /\ messages'[m].routed = messages[m].routed /\ messages'[m].taken = messages[m].taken
      BY <2>0, <2>2, Handling
    <3>2. Rightly(messages'[m])
      BY <2>0, <3>1 DEF Rightly, Same, Handled, Redeeming
    <3> QED
      BY <1>6, <2>0, <3>1, <3>2 DEF SendReply, Untouched, Safe, Heeded, Onward, Same, Locking, Rightly
  <2> QED
    BY <1>6, <2>1, <2>2 DEF SendReply
<1> QED
  BY <1>1, <1>2, <1>3, <1>4, <1>5, <1>6

\* A chat that floods is told so, or was told within the window.
LEMMA FloodsAreTold ==
  ASSUME ChatShape, MessagesRight, NoticesTold, NEW m \in Messages, RefuseFloods(m)
  PROVE  /\ Safe(m) /\ NoticesTold' /\ UNCHANGED <<chatOf, codes, toldAt, time>>
         /\ buckets' \in [Chats -> [tokens : Int, updatedAt : Int, noticedAt : Int]]
<1> DEFINE c == messages[m].chat
           b == RefilledBucket(c)
           Bucket == [tokens : Int, updatedAt : Int, noticedAt : Int]
<1>0. /\ Gone(m) /\ messages[m].stage = "limit" /\ Rightly(messages[m]) /\ c \in Chats
      /\ messages[m].reply = "none" /\ UNCHANGED <<chatOf, codes, toldAt, time>>
  <2>1. Gone(m) /\ messages[m].stage = "limit" /\ UNCHANGED <<chatOf, codes, toldAt, time>>
    BY DEF RefuseFloods, At, Gone
  <2> QED
    BY <2>1, SentMessage DEF Rightly, Written, Handled
<1>1. Burst \in Nat /\ NoticeWindow \in Nat /\ Never \in Int /\ time \in Nat /\ NoBucket \in Bucket /\ NoBucket.noticedAt = Never
  BY ChatsAssumption DEF Never, NoBucket, ChatShape
<1>2. /\ Swept \in [Chats -> Bucket]
      /\ \A d \in Chats : Swept[d].noticedAt \in {Never, buckets[d].noticedAt}
  BY <1>1 DEF Swept, ChatShape
<1>3. b \in Bucket /\ b.noticedAt = Swept[c].noticedAt
  <2> DEFINE old == Swept[c]
             tokens == IF old = NoBucket THEN Burst ELSE Least(Burst, old.tokens + time - old.updatedAt)
  <2>1. old \in Bucket
    BY <1>0, <1>2
  <2>2. tokens \in Int
    BY <1>1, <2>1 DEF Least
  <2>3. b = [old EXCEPT !.tokens = tokens, !.updatedAt = time]
    BY DEF RefilledBucket
  <2> HIDE DEF old, tokens, b
  <2>4. b = [tokens |-> tokens, updatedAt |-> time, noticedAt |-> old.noticedAt]
    BY <2>1, <2>3
  <2>5. old.noticedAt \in Int
    BY <2>1
  <2>6. b \in Bucket /\ b.noticedAt = old.noticedAt
    BY <1>1, <2>2, <2>4, <2>5
  <2> QED
    BY <2>6 DEF old
<1> HIDE DEF b
<1>4. CASE b.tokens >= 1 /\ buckets' = [Swept EXCEPT ![c] = [b EXCEPT !.tokens = @ - 1]] /\ RedeemStart(m)
  <2>1. Safe(m) /\ Heeded(m)
    <3>1. CASE messages[m].content.is = "start" /\ Moves(m, "code")
      BY <1>0, <3>1, PlainMove DEF Handled, Redeeming, Safe, Locking
    <3>2. CASE messages[m].content.is = "bare_start" /\ Replies(m, "how_to_bind")
      BY <1>0, <3>2, PlainReply DEF Handled
    <3>3. CASE messages[m].content.is \notin {"start", "bare_start"} /\ Moves(m, "binding")
      BY <1>0, <3>3, PlainMove DEF Handled, Redeeming, Safe, Locking
    <3> QED
      BY <1>4, <3>1, <3>2, <3>3 DEF RedeemStart
  <2>2. [b EXCEPT !.tokens = @ - 1] \in Bucket /\ [b EXCEPT !.tokens = @ - 1].noticedAt = b.noticedAt
    BY <1>3
  <2>3. buckets' \in [Chats -> Bucket] /\ \A d \in Chats : buckets'[d].noticedAt \in {Never, buckets[d].noticedAt}
    BY <1>0, <1>2, <1>3, <1>4, <2>2
  <2> QED
    BY <1>0, <2>1, <2>3, NoticesStep DEF Safe, Heeded
<1>5. CASE buckets' = [Swept EXCEPT ![c] = [b EXCEPT !.noticedAt = time]] /\ Replies(m, "slow_down")
  <2>1. Safe(m) /\ Heeded(m) /\ messages'[m].reply = "slow_down" /\ messages'[m].at = time
    BY <1>0, <1>5, PlainReply DEF Handled, Refusals
  <2>2. [b EXCEPT !.noticedAt = time] \in Bucket /\ [b EXCEPT !.noticedAt = time].noticedAt = time
    BY <1>1, <1>3
  <2>3. buckets' \in [Chats -> Bucket] /\ \A d \in Chats : buckets'[d].noticedAt \in {Never, buckets[d].noticedAt} \/ (d = c /\ buckets'[d].noticedAt = time)
    BY <1>0, <1>2, <1>5, <2>2
  <2>4. Told(c, time)'
    BY <1>0, <2>1 DEF Told, Safe, Onward, Rightly, Written, Gone, Refusals
  <2>5. \A d \in Chats : buckets'[d].noticedAt \in {Never, buckets[d].noticedAt} \/ (buckets'[d].noticedAt = time /\ Told(d, time)')
    BY <1>0, <2>1, <2>3, <2>4 DEF Told, Safe, Onward
  <2> QED
    BY <1>0, <2>1, <2>3, <2>5, NoticesStep DEF Safe, Heeded
<1>6. CASE ~(time - b.noticedAt >= NoticeWindow) /\ buckets' = [Swept EXCEPT ![c] = b] /\ Silent(m)
  <2>1. Safe(m) /\ messages'[m].stage = "done" /\ messages'[m].at = time
    BY <1>0, <1>6, PlainSilence DEF Handled
  <2>2. b.noticedAt # Never
    BY <1>1, <1>3, <1>6 DEF Never
  <2>3. b.noticedAt = buckets[c].noticedAt /\ b.noticedAt <= time /\ Told(c, b.noticedAt)
    BY <1>0, <1>2, <1>3, <2>2 DEF NoticesTold
  <2>4. PICK n \in Messages : Gone(n) /\ messages[n].chat = c /\ messages[n].reply \in Refusals /\ messages[n].at = b.noticedAt
    BY <2>3 DEF Told
  <2>5. n # m /\ messages'[n] = messages[n]
    BY <1>0, <2>1, <2>4, OthersStay DEF Refusals, Safe, Onward
  <2>6. messages'[m].chat = c
    BY <2>1 DEF Safe, Onward
  <2>7. ToldBefore(m)'
    BY <1>1, <1>3, <1>6, <2>1, <2>3, <2>4, <2>5, <2>6 DEF ToldBefore, Gone
  <2>8. buckets' \in [Chats -> Bucket] /\ \A d \in Chats : buckets'[d].noticedAt \in {Never, buckets[d].noticedAt}
    BY <1>0, <1>2, <1>3, <1>6
  <2> QED
    BY <1>0, <2>1, <2>7, <2>8, NoticesStep DEF Safe
<1> QED
  BY <1>4, <1>5, <1>6 DEF RefuseFloods, b

\* A stranger is told how to bind, or was told within the window.
LEMMA StrangersAreTold ==
  ASSUME ChatShape, MessagesRight, NoticesTold, NEW m \in Messages, RequireBinding(m)
  PROVE  Safe(m) /\ NoticesTold' /\ UNCHANGED <<chatOf, codes, buckets, time>> /\ toldAt' \in [Chats -> Int]
<1> DEFINE c == messages[m].chat
<1>0. /\ Gone(m) /\ messages[m].stage = "binding" /\ Rightly(messages[m]) /\ c \in Chats
      /\ messages[m].reply = "none" /\ UNCHANGED <<chatOf, codes, buckets, time>>
      /\ messages[m].content.is \in {"words", "no", "photo", "edit"}
  <2>1. Gone(m) /\ messages[m].stage = "binding" /\ UNCHANGED <<chatOf, codes, buckets, time>>
    BY DEF RequireBinding, At, Gone
  <2>2. Rightly(messages[m])
    BY <2>1, SentMessage
  <2>3. messages[m].content.is \in {"start", "bare_start", "words", "no", "photo", "edit"}
    BY <2>2, WhatContentsSay
  <2> QED
    BY <2>1, <2>2, <2>3 DEF Rightly, Written, Handled
<1>1. NoticeWindow \in Nat /\ Never \in Int /\ time \in Nat
  BY ChatsAssumption DEF Never, ChatShape
<1>2. GateSwept \in [Chats -> Int] /\ \A d \in Chats : GateSwept[d] = Never \/ (GateSwept[d] = toldAt[d] /\ time - toldAt[d] < NoticeWindow)
  BY <1>1 DEF GateSwept, ChatShape
<1>4. CASE RouteText(m) /\ UNCHANGED toldAt
  <2>1. Safe(m) /\ Heeded(m)
    <3>1. CASE Moves(m, "resolve")
      BY <1>0, <3>1, PlainMove DEF Handled, Redeeming, Safe, Locking
    <3>2. CASE Replies(m, "text_only")
      BY <1>0, <3>2, PlainReply DEF Handled
    <3>3. CASE messages[m].content.is = "edit" /\ Silent(m)
      <4>1. Safe(m)
        BY <1>0, <3>3, PlainSilence DEF Handled
      <4> QED
        BY <3>3, <4>1 DEF Safe, Onward, Heeded
    <3> QED
      BY <1>0, <1>4, <3>1, <3>2, <3>3 DEF RouteText
  <2> QED
    BY <1>0, <1>4, <2>1, NoticesKept DEF Safe, ChatShape
<1>5. CASE GateSwept[c] = Never /\ toldAt' = [GateSwept EXCEPT ![c] = time] /\ Replies(m, "how_to_bind")
  <2>1. Safe(m) /\ Heeded(m) /\ messages'[m].reply = "how_to_bind" /\ messages'[m].at = time
    BY <1>0, <1>5, PlainReply DEF Handled, Refusals
  <2>3. toldAt' \in [Chats -> Int] /\ \A d \in Chats : toldAt'[d] \in {Never, toldAt[d]} \/ (d = c /\ toldAt'[d] = time)
    BY <1>0, <1>1, <1>2, <1>5
  <2>4. Told(c, time)'
    BY <1>0, <2>1 DEF Told, Safe, Onward, Rightly, Written, Gone, Refusals
  <2>5. \A d \in Chats : toldAt'[d] \in {Never, toldAt[d]} \/ (toldAt'[d] = time /\ Told(d, time)')
    BY <1>0, <2>1, <2>3, <2>4 DEF Told, Safe, Onward
  <2> QED
    BY <1>0, <2>1, <2>3, <2>5, NoticesStep DEF Safe, Heeded
<1>6. CASE GateSwept[c] # Never /\ toldAt' = GateSwept /\ Silent(m)
  <2>1. Safe(m) /\ messages'[m].stage = "done" /\ messages'[m].at = time
    BY <1>0, <1>6, PlainSilence DEF Handled
  <2>3. toldAt[c] <= time /\ Told(c, toldAt[c]) /\ time - toldAt[c] < NoticeWindow
    BY <1>0, <1>2, <1>6 DEF NoticesTold
  <2>4. PICK n \in Messages : Gone(n) /\ messages[n].chat = c /\ messages[n].reply \in Refusals /\ messages[n].at = toldAt[c]
    BY <2>3 DEF Told
  <2>5. n # m /\ messages'[n] = messages[n]
    BY <1>0, <2>1, <2>4, OthersStay DEF Refusals, Safe, Onward
  <2>6. messages'[m].chat = c
    BY <2>1 DEF Safe, Onward
  <2>7. ToldBefore(m)'
    BY <1>1, <2>1, <2>3, <2>4, <2>5, <2>6 DEF ToldBefore, Gone
  <2>8. toldAt' \in [Chats -> Int] /\ \A d \in Chats : toldAt'[d] \in {Never, toldAt[d]}
    BY <1>2, <1>6
  <2> QED
    BY <1>0, <2>1, <2>7, <2>8, NoticesStep DEF Safe
<1>7. GateSwept[c] # Never => [GateSwept EXCEPT ![c] = GateSwept[c]] = GateSwept
  BY <1>2
<1> QED
  BY <1>0, <1>2, <1>4, <1>5, <1>6, <1>7 DEF RequireBinding

\* A message that comes in is alone with what it says.
LEMMA ComingIn ==
  ASSUME ChatShape, MessagesRight, NoticesTold, BindInv,
         NEW m \in Messages, NEW c \in Chats, NEW content \in Contents, TranscribeInbound(m, c, content)
  PROVE  MessagesRight' /\ NoticesTold' /\ BindInv' /\ Untouched
<1>0. ~Gone(m) /\ Untouched
  BY DEF TranscribeInbound, At, Gone, Untouched
<1>1. PICK heard \in {content.is # "edit", FALSE} :
        messages' = [messages EXCEPT ![m] =
                       [stage |-> IF heard \/ content.is = "edit" THEN "limit" ELSE "failed",
                        chat |-> c, content |-> content, heard |-> heard,
                        reply |-> "none", at |-> Never, routed |-> FALSE, occupant |-> Nobody,
                        user |-> Nobody, pending |-> 0, task |-> Nobody, taken |-> FALSE,
                        rivals |-> {}]]
  BY DEF TranscribeInbound, Becomes
<1>2. /\ \A n \in Messages \ {m} : messages'[n] = messages[n]
      /\ messages' = [n \in Messages |-> messages'[n]]
      /\ messages'[m] = [stage |-> IF heard \/ content.is = "edit" THEN "limit" ELSE "failed",
                         chat |-> c, content |-> content, heard |-> heard,
                         reply |-> "none", at |-> Never, routed |-> FALSE, occupant |-> Nobody,
                         user |-> Nobody, pending |-> 0, task |-> Nobody, taken |-> FALSE,
                         rivals |-> {}]
  BY <1>1 DEF MessagesRight
<1>3. heard \in BOOLEAN
  OBVIOUS
<1>4. /\ Written(messages'[m]) /\ messages'[m].stage \in {"limit", "failed"} /\ messages'[m].reply = "none"
      /\ messages'[m].routed = FALSE /\ messages'[m].taken = FALSE /\ messages'[m].content = content
      /\ messages'[m].stage = "limit" => messages'[m].heard = TRUE \/ content.is = "edit"
  BY <1>2, <1>3 DEF Written
<1>5. Rightly(messages'[m])
  BY <1>4 DEF Rightly, Handled, Redeeming
<1>6. MessagesRight'
  <2>1. \A n \in Messages : messages'[n] = Fresh \/ Rightly(messages'[n])
    BY <1>2, <1>5 DEF MessagesRight
  <2> QED
    BY <1>2, <2>1 DEF MessagesRight, Rightly, Written, Fresh
<1>7. NoticesTold'
  <2>1. \A d, t : Told(d, t) => Told(d, t)'
    BY <1>0, <1>2 DEF Told, Gone
  <2>2. \A n \in Messages : Gone(n) /\ ToldBefore(n) => ToldBefore(n)'
    BY <1>0, <1>2 DEF ToldBefore, Gone
  <2>3. \A n \in Messages : messages'[n].stage = "done" => Gone(n) /\ n # m
    BY <1>2, <1>4 DEF Gone
  <2>4. ASSUME NEW d \in Chats
        PROVE  /\ buckets[d].noticedAt = Never \/ (buckets[d].noticedAt <= time /\ Told(d, buckets[d].noticedAt)')
               /\ toldAt[d] = Never \/ (toldAt[d] <= time /\ Told(d, toldAt[d])')
    <3>1. /\ buckets[d].noticedAt = Never \/ (buckets[d].noticedAt <= time /\ Told(d, buckets[d].noticedAt))
          /\ toldAt[d] = Never \/ (toldAt[d] <= time /\ Told(d, toldAt[d]))
      BY <2>4 DEF NoticesTold
    <3>2. UNCHANGED <<buckets, toldAt>>
      BY <1>0 DEF Untouched
    <3> QED
      BY <2>1, <3>1, <3>2 DEF Told
  <2>5. \A n \in Messages :
          messages'[n].stage = "done" /\ messages'[n].content.is # "edit" /\ messages'[n].reply = "none"
            => ToldBefore(n)'
    BY <1>2, <2>2, <2>3 DEF NoticesTold
  <2> QED
    BY <1>0, <2>4, <2>5 DEF NoticesTold, Told, Untouched
<1>8. BindInv'
  <2>1. \A n \in Messages : Locks(n)' => Locks(n) /\ n # m
    BY <1>2, <1>4 DEF Locks, Locking
  <2>2. \A n \in Messages : messages'[n].reply # "none" => n # m /\ messages'[n] = messages[n]
    BY <1>2, <1>4
  <2>3. \A n \in Messages \ {m} : Code(n)' = Code(n) /\ Holder(n)' = Holder(n) /\ (Spent(n)' <=> Spent(n)) /\ (Gone(n)' <=> Gone(n))
    BY <1>0, <1>2 DEF Code, Holder, Spent, Gone, Untouched
  <2>4. ~Spent(m)'
    BY <1>4 DEF Spent
  <2>5. \A n \in Messages : messages'[n].stage \in {"owner", "bind"} => Locks(n)'
    BY DEF Locks, Locking
  <2>6. BindInv!1' /\ BindInv!2'
    BY <1>0 DEF BindInv, Untouched
  <2>7. BindInv!3' /\ BindInv!4' /\ BindInv!5'
    BY <1>0, <1>2, <2>1, <2>3, <2>5 DEF BindInv, Untouched
  <2>8. BindInv!6' /\ BindInv!7' /\ BindInv!8'
    BY <1>0, <1>2, <2>2, <2>3, <2>4 DEF BindInv, Untouched
  <2>9. BindInv!9'
    BY <1>0, <1>2, <2>1, <2>2, <2>3, <2>5 DEF BindInv, Untouched, At
  <2> QED
    BY <2>6, <2>7, <2>8, <2>9 DEF BindInv
<1> QED
  BY <1>0, <1>6, <1>7, <1>8

\* A code that is issued names nobody's account yet that had a code spent on it.
LEMMA CodesAreNew ==
  ASSUME ChatShape, MessagesRight, BindInv, NEW k \in Codes, NEW u \in Users, IssueCode(k, u)
  PROVE  BindInv'
<1>1. /\ \A j \in Codes \ {k} : codes'[j] = codes[j]
      /\ codes'[k].state = "fresh" /\ codes[k].state = "unissued" /\ messages' = messages /\ chatOf' = chatOf
  BY DEF IssueCode, ChatShape
<1>2. \A m \in Messages : Gone(m) /\ messages[m].content.is = "start" => Code(m) \in Codes /\ Code(m)' = Code(m)
  BY <1>1, SentMessage, WhatContentsSay DEF Code
<1>3. \A m \in Messages : Locks(m) \/ Spent(m) => Gone(m) /\ messages[m].content.is = "start"
  BY SentMessage DEF Locks, Spent, Locking, Rightly, Redeeming, Gone
<1>4. \A m \in Messages : Locks(m) \/ Spent(m) =>
        Code(m) \in Codes \ {k} /\ Code(m)' = Code(m) /\ codes'[Code(m)] = codes[Code(m)] /\ Holder(m)' = Holder(m)
  BY <1>1, <1>2, <1>3 DEF BindInv, Holder
<1>5. \A m \in Messages : (Locks(m)' <=> Locks(m)) /\ (Spent(m)' <=> Spent(m)) /\ (Gone(m)' <=> Gone(m))
  BY <1>1 DEF Locks, Spent, Gone
<1>6. \A m \in Messages : messages[m].stage \in {"owner", "bind"} => Locks(m)
  BY DEF Locks, Locking
<1>7. \A m \in Messages : Gone(m) /\ messages[m].reply = "bound" => Spent(m)
  BY DEF Spent, Gone
<1>8. BindInv!1' /\ BindInv!2'
  BY <1>1 DEF BindInv
<1>9. BindInv!3' /\ BindInv!4' /\ BindInv!5'
  BY <1>1, <1>4, <1>5, <1>6 DEF BindInv
<1>10. BindInv!6' /\ BindInv!7' /\ BindInv!8'
  BY <1>1, <1>4, <1>5, <1>7 DEF BindInv
<1>11. BindInv!9'
  BY <1>1, <1>4, <1>5, <1>6, <1>7 DEF BindInv, At
<1> QED
  BY <1>8, <1>9, <1>10, <1>11 DEF BindInv

\* Whoever finds the code fresh is alone with its row.
LEMMA CodeIsLocked ==
  ASSUME ChatShape, MessagesRight, BindInv, NEW m \in Messages, LockCode(m)
  PROVE  Onward(m) /\ Heeded(m) /\ Untouched /\ BindInv'
<1>0. /\ Gone(m) /\ messages[m].stage = "code" /\ Rightly(messages[m]) /\ Untouched
      /\ messages[m].content.is = "start"
  <2>1. Gone(m) /\ messages[m].stage = "code" /\ Untouched
    BY DEF LockCode, At, Gone, Untouched
  <2> QED
    BY <2>1, SentMessage DEF Rightly, Redeeming
<1>1. CASE \E words \in {"unknown_code", "consumed", "expired"} : Replies(m, words)
  <2>1. Safe(m) /\ Heeded(m)
    BY <1>0, <1>1, PlainReply DEF Handled
  <2> QED
    BY <1>0, <2>1, BindingKept DEF Safe, Untouched
<1>2. CASE codes[Code(m)].state = "fresh" /\ Moves(m, "occupant")
  <2>1. Onward(m) /\ Heeded(m) /\ messages'[m].stage = "occupant" /\ messages'[m].reply = "none"
    BY <1>0, <1>2, PlainMove DEF Handled, Redeeming
  <2>2. /\ \A n \in Messages \ {m} : messages'[n] = messages[n]
        /\ \A n \in Messages : Gone(n) => messages'[n].content = messages[n].content /\ messages'[n].chat = messages[n].chat
    BY <2>1, OthersStay DEF Onward
  <2>3. \A n \in Messages \ {m} : Locks(n) => Code(n) # Code(m)
    BY DEF LockCode, Locks, Locking
  <2>4. \A n \in Messages : Locks(n)' => Gone(n) /\ (Locks(n) \/ n = m)
    BY <1>0, <2>2 DEF Locks, Locking, Gone
  <2>5. \A n \in Messages : Gone(n) => Code(n)' = Code(n) /\ Holder(n)' = Holder(n)
    BY <1>0, <2>2 DEF Code, Holder, Untouched
  <2>6. \A n \in Messages : messages'[n].reply # "none" => messages'[n] = messages[n]
    BY <2>1, <2>2
  <2>7. \A n \in Messages : messages'[n].stage \in {"owner", "bind"} => n # m /\ messages'[n] = messages[n] /\ Gone(n)
    BY <2>1, <2>2 DEF Gone
  <2>8. \A n \in Messages : Spent(n)' => Spent(n) /\ Gone(n) /\ messages'[n] = messages[n]
    BY <2>2, <2>6 DEF Spent, Gone
  <2>9. \A n \in Messages : Gone(n)' /\ messages'[n].reply = "bound" => messages'[n] = messages[n] /\ Gone(n)
    BY <2>2, <2>6 DEF Gone
  <2>10. BindInv!1' /\ BindInv!2'
    BY <1>0 DEF BindInv, Untouched
  <2>11. BindInv!3' /\ BindInv!4' /\ BindInv!5'
    BY <1>0, <1>2, <2>2, <2>3, <2>4, <2>5, <2>7 DEF BindInv, Untouched
  <2>12. BindInv!6' /\ BindInv!7' /\ BindInv!8'
    BY <1>0, <2>5, <2>8, <2>9 DEF BindInv, Untouched
  <2>13. BindInv!9'
    BY <2>2, <2>5, <2>7, <2>9 DEF BindInv, At
  <2> QED
    BY <1>0, <2>1, <2>10, <2>11, <2>12, <2>13 DEF BindInv
<1>3. Code(m) \in Codes
  BY <1>0, WhatContentsSay DEF Code
<1> QED
  BY <1>0, <1>1, <1>2, <1>3 DEF LockCode, ChatShape

\* Who holds a code's row moves on with it, and says nothing yet.
LEMMA LockMovesOn ==
  ASSUME ChatShape, MessagesRight, BindInv, NEW m \in Messages, Locks(m), Onward(m), Untouched,
         messages'[m].reply = "none", messages'[m].stage \in Locking,
         messages'[m].stage \in {"owner", "bind"} /\ messages'[m].occupant # Nobody => chatOf[Holder(m)] # Nobody,
         messages'[m].stage = "bind" => chatOf[Holder(m)] \in {Nobody, messages[m].chat}
  PROVE  BindInv'
<1>1. /\ \A n \in Messages \ {m} : messages'[n] = messages[n]
      /\ \A n \in Messages : Gone(n) => messages'[n].content = messages[n].content /\ messages'[n].chat = messages[n].chat
  BY OthersStay DEF Onward
<1>2. \A n \in Messages : Locks(n)' => Locks(n) /\ Gone(n)
  BY <1>1 DEF Locks, Locking, Gone
<1>3. \A n \in Messages : Gone(n) => Code(n)' = Code(n) /\ Holder(n)' = Holder(n)
  BY <1>1 DEF Code, Holder, Untouched
<1>4. \A n \in Messages : messages'[n].reply # "none" => n # m /\ messages'[n] = messages[n]
  BY <1>1
<1>5. \A n \in Messages : messages'[n].stage \in {"owner", "bind"} => Gone(n) /\ Locks(n)'
  BY <1>1, <1>2 DEF Locks, Locking
<1>6. \A n \in Messages : Spent(n)' => Spent(n) /\ Gone(n) /\ messages'[n] = messages[n]
  BY <1>4 DEF Spent, Gone
<1>7. \A n \in Messages : Gone(n)' /\ messages'[n].reply = "bound" => n # m /\ messages'[n] = messages[n] /\ Gone(n)
  BY <1>4 DEF Gone
<1>8. BindInv!1' /\ BindInv!2'
  BY DEF BindInv, Untouched
<1>9. BindInv!3' /\ BindInv!4'
  BY <1>2, <1>3 DEF BindInv, Untouched
<1>10. BindInv!5'
  <2>1. ASSUME NEW n \in Messages, messages'[n].stage \in {"owner", "bind"}, messages'[n].occupant # Nobody
        PROVE  chatOf'[Holder(n)'] # Nobody
    BY <1>1, <1>3, <1>5, <2>1 DEF BindInv, Untouched
  <2> QED
    BY <2>1 DEF BindInv
<1>11. BindInv!6' /\ BindInv!7' /\ BindInv!8'
  BY <1>3, <1>6, <1>7 DEF BindInv, Untouched
<1>12. BindInv!9'
  <2>1. ASSUME NEW l \in Messages, NEW n \in Messages, Gone(l)', messages'[l].reply = "bound", messages'[l].rivals = {},
               messages'[n].stage = "bind", Holder(n)' = Holder(l)'
        PROVE  messages'[n].chat = messages'[l].chat
    <3>0. /\ l # m /\ messages'[l] = messages[l] /\ Gone(l) /\ Gone(n) /\ Holder(n) = Holder(l)
          /\ messages'[n].chat = messages[n].chat
      BY <1>1, <1>3, <1>5, <1>7, <2>1
    <3>1. CASE n # m
      BY <1>1, <2>1, <3>0, <3>1 DEF BindInv, At
    <3>2. CASE n = m
      <4>1. Spent(l) /\ chatOf[Holder(l)] = messages[l].chat
        BY <2>1, <3>0 DEF BindInv, Spent, Gone
      <4>2. messages[l].chat # Nobody
        BY <3>0, SentMessage, ChatsAssumption DEF Rightly, Written
      <4> QED
        BY <2>1, <3>0, <3>2, <4>1, <4>2
    <3> QED
      BY <3>1, <3>2
  <2> QED
    BY <2>1 DEF BindInv, At
<1> QED
  BY <1>8, <1>9, <1>10, <1>11, <1>12 DEF BindInv

\* The user a chat resolves to is one that has it.
LEMMA TheChatsUser ==
  ASSUME ChatShape, NEW c \in Chats
  PROVE  /\ ResolveUserId(c) \in Users \cup {Nobody}
         /\ ResolveUserId(c) # Nobody => chatOf[ResolveUserId(c)] = c
         /\ ResolveUserId(c) = Nobody => \A u \in Users : chatOf[u] # c
<1>1. CASE \E u \in Users : chatOf[u] = c
  BY <1>1, ChatsAssumption DEF ResolveUserId
<1>2. CASE ~\E u \in Users : chatOf[u] = c
  BY <1>2 DEF ResolveUserId
<1> QED
  BY <1>1, <1>2

\* Whoever holds a code's row holds a fresh code of a user.
LEMMA Redemption ==
  ASSUME ChatShape, MessagesRight, BindInv, NEW m \in Messages, Locks(m)
  PROVE  /\ Gone(m) /\ Rightly(messages[m]) /\ messages[m].content.is = "start"
         /\ Code(m) \in Codes /\ codes[Code(m)].state = "fresh" /\ Holder(m) \in Users /\ messages[m].chat \in Chats
<1>1. Gone(m) /\ Rightly(messages[m]) /\ messages[m].content.is = "start" /\ messages[m].chat \in Chats
  BY SentMessage DEF Locks, Locking, Gone, Rightly, Redeeming, Written
<1>2. Code(m) \in Codes
  BY <1>1, WhatContentsSay DEF Code
<1> QED
  BY <1>1, <1>2 DEF BindInv, ChatShape, Holder

\* The occupant that was read is nobody, or the holder, who then has a chat.
LEMMA OccupantIsRead ==
  ASSUME ChatShape, MessagesRight, BindInv, NEW m \in Messages, ReadOccupant(m)
  PROVE  Onward(m) /\ Heeded(m) /\ Untouched /\ BindInv'
<1> DEFINE occupant == ResolveUserId(messages[m].chat)
<1>0. Locks(m) /\ messages[m].stage = "occupant" /\ Untouched
  BY DEF ReadOccupant, At, Locks, Locking, Untouched
<1>1. /\ Gone(m) /\ Rightly(messages[m]) /\ messages[m].content.is = "start"
      /\ Holder(m) \in Users /\ messages[m].chat \in Chats
  BY <1>0, Redemption
<1>2. CASE Replies(m, "chat_bound_elsewhere")
  <2>1. Safe(m) /\ Heeded(m)
    BY <1>0, <1>1, <1>2, PlainReply DEF Handled
  <2> QED
    BY <1>0, <2>1, BindingKept DEF Safe, Untouched
<1>3. CASE /\ occupant \in {Nobody, Holder(m)}
           /\ Becomes(m, [messages[m] EXCEPT !.stage = "owner", !.occupant = occupant])
  <2>1. Only(m) /\ messages'[m] = [messages[m] EXCEPT !.stage = "owner", !.occupant = occupant]
    BY <1>3 DEF Becomes, Only, MessagesRight
  <2>2. /\ Same(messages'[m], messages[m]) /\ messages'[m].stage = "owner" /\ messages'[m].occupant = occupant
        /\ messages'[m].reply = messages[m].reply /\ messages'[m].at = messages[m].at
        /\ messages'[m].routed = messages[m].routed /\ messages'[m].taken = messages[m].taken
    BY <1>1, <2>1 DEF Rightly, Written, Same
  <2>3. Rightly(messages'[m]) /\ messages'[m].reply = "none"
    BY <1>0, <1>1, <2>2 DEF Rightly, Same, Handled, Redeeming
  <2>4. Onward(m) /\ Heeded(m)
    BY <1>1, <2>1, <2>2, <2>3 DEF Onward, Heeded, Same
  <2>5. occupant # Nobody => chatOf[Holder(m)] # Nobody
    BY <1>1, <1>3, TheChatsUser, ChatsAssumption
  <2> QED
    BY <1>0, <2>2, <2>3, <2>4, <2>5, LockMovesOn DEF Locking
<1> QED
  BY <1>0, <1>2, <1>3 DEF ReadOccupant

\* Whoever goes on to bind found the holder with no chat, or with this one.
LEMMA OwnerIsRead ==
  ASSUME ChatShape, MessagesRight, BindInv, NEW m \in Messages, ReadOwner(m)
  PROVE  Onward(m) /\ Heeded(m) /\ Untouched /\ BindInv'
<1>0. Locks(m) /\ messages[m].stage = "owner" /\ Untouched
  BY DEF ReadOwner, At, Locks, Locking, Untouched
<1>1. /\ Gone(m) /\ Rightly(messages[m]) /\ messages[m].content.is = "start"
      /\ Holder(m) \in Users /\ messages[m].chat \in Chats
  BY <1>0, Redemption
<1>2. CASE Replies(m, "user_bound_elsewhere")
  <2>1. Safe(m) /\ Heeded(m)
    BY <1>0, <1>1, <1>2, PlainReply DEF Handled
  <2> QED
    BY <1>0, <2>1, BindingKept DEF Safe, Untouched
<1>3. CASE chatOf[Holder(m)] \in {Nobody, messages[m].chat} /\ Moves(m, "bind")
  <2>1. /\ Onward(m) /\ Heeded(m) /\ messages'[m].stage = "bind" /\ messages'[m].reply = "none"
        /\ messages'[m].occupant = messages[m].occupant
    BY <1>0, <1>1, <1>3, PlainMove DEF Handled
  <2>2. messages[m].occupant # Nobody => chatOf[Holder(m)] # Nobody
    BY <1>0 DEF BindInv
  <2> QED
    BY <1>0, <1>3, <2>1, <2>2, LockMovesOn DEF Locking
<1> QED
  BY <1>0, <1>2, <1>3 DEF ReadOwner

\* The commit: the chat is free or the holder's, and the code is spent on it.
LEMMA ChatIsBound ==
  ASSUME ChatShape, MessagesRight, BindInv, NEW m \in Messages, BindChat(m)
  PROVE  Onward(m) /\ Heeded(m) /\ UNCHANGED <<buckets, toldAt, time>> /\ ChatShape' /\ BindInv'
<1>0. Locks(m) /\ messages[m].stage = "bind" /\ UNCHANGED <<buckets, toldAt, time>>
  BY DEF BindChat, At, Locks, Locking
<1>1. /\ Gone(m) /\ Rightly(messages[m]) /\ messages[m].content.is = "start" /\ messages[m].reply = "none"
      /\ Code(m) \in Codes /\ codes[Code(m)].state = "fresh" /\ Holder(m) \in Users
      /\ messages[m].chat \in Chats /\ messages[m].chat # Nobody
  <2>1. Locks(m) /\ messages[m].stage \notin Handled
    BY <1>0 DEF Handled
  <2> QED
    BY <2>1, Redemption, ChatsAssumption DEF Rightly
<1> DEFINE Row == [state : {"unissued", "fresh", "consumed"}, holder : Users \cup {Nobody}, expires : Nat]
           spent == [codes[Code(m)] EXCEPT !.state = "consumed"]
<1>c. codes' \in [Codes -> Row] /\ \A k \in Codes : codes'[k] = IF k = Code(m) THEN spent ELSE codes[k]
  <2>1. codes' = [codes EXCEPT ![Code(m)] = spent]
    BY DEF BindChat
  <2>2. codes \in [Codes -> Row]
    BY DEF ChatShape
  <2>3. spent \in Row
    BY <1>1, <2>2
  <2> HIDE DEF spent, Row
  <2> QED
    BY <1>1, <2>1, <2>2, <2>3
<1>2. /\ \A k \in Codes : codes'[k].holder = codes[k].holder
      /\ \A k \in Codes : k # Code(m) => codes'[k].state = codes[k].state
      /\ codes'[Code(m)].state = "consumed"
  <2>1. spent.holder = codes[Code(m)].holder /\ spent.state = "consumed"
    BY <1>1 DEF ChatShape
  <2> HIDE DEF spent, Row
  <2> QED
    BY <1>1, <1>c, <2>1
\* The two ways a redemption ends well.
<1>3. /\ Onward(m) /\ Heeded(m) /\ messages'[m].stage = "reply" /\ messages'[m].reply \in {"bound", "already_bound"}
      /\ \/ /\ messages'[m].reply = "already_bound" /\ messages[m].occupant # Nobody /\ chatOf' = chatOf
         \/ /\ messages'[m].reply = "bound" /\ messages'[m].rivals = Rivals(m)
            /\ ResolveUserId(messages[m].chat) \in {Nobody, Holder(m)}
            /\ chatOf' = [chatOf EXCEPT ![Holder(m)] = messages[m].chat]
  <2>1. CASE messages[m].occupant # Nobody /\ Replies(m, "already_bound") /\ chatOf' = chatOf
    <3>1. /\ Only(m) /\ Same(messages'[m], messages[m]) /\ messages'[m].stage = "reply"
          /\ messages'[m].reply = "already_bound"
          /\ messages'[m].routed = messages[m].routed /\ messages'[m].taken = messages[m].taken
      BY <1>1, <2>1, Handling
    <3>2. Rightly(messages'[m])
      BY <1>0, <1>1, <3>1 DEF Rightly, Same, Handled, Redeeming
    <3> QED
      BY <1>1, <2>1, <3>1, <3>2 DEF Onward, Heeded, Same
  <2>2. CASE /\ ResolveUserId(messages[m].chat) \in {Nobody, Holder(m)}
             /\ chatOf' = [chatOf EXCEPT ![Holder(m)] = messages[m].chat]
             /\ Becomes(m, [messages[m] EXCEPT !.stage = "reply", !.reply = "bound", !.rivals = Rivals(m)])
    <3>1. Only(m) /\ messages'[m] = [messages[m] EXCEPT !.stage = "reply", !.reply = "bound", !.rivals = Rivals(m)]
      BY <2>2 DEF Becomes, Only, MessagesRight
    <3>2. /\ Written(messages'[m]) /\ messages'[m].stage = "reply" /\ messages'[m].reply = "bound"
          /\ messages'[m].rivals = Rivals(m)
          /\ messages'[m].chat = messages[m].chat /\ messages'[m].content = messages[m].content
          /\ messages'[m].heard = messages[m].heard
          /\ messages'[m].routed = messages[m].routed /\ messages'[m].taken = messages[m].taken
      BY <1>1, <3>1 DEF Rightly, Written
    <3>3. Rightly(messages'[m])
      BY <1>0, <1>1, <3>2 DEF Rightly, Handled, Redeeming
    <3> QED
      BY <1>1, <2>2, <3>1, <3>2, <3>3 DEF Onward, Heeded
  <2> QED
    BY <2>1, <2>2 DEF BindChat
<1>4. /\ chatOf' \in [Users -> Chats \cup {Nobody}]
      /\ \A u \in Users : chatOf[u] # Nobody => chatOf'[u] # Nobody
      /\ \A u \in Users \ {Holder(m)} : chatOf'[u] = chatOf[u]
  BY <1>1, <1>3 DEF ChatShape
<1>5. chatOf'[Holder(m)] # Nobody
  BY <1>0, <1>1, <1>3 DEF BindInv, ChatShape
<1>6. ChatShape'
  <2>1. \A k \in Codes : codes'[k].state # "unissued" => codes'[k].holder \in Users
    BY <1>1, <1>2 DEF ChatShape, Holder
  <2> QED
    BY <1>0, <1>c, <1>4, <2>1 DEF ChatShape
<1>7. /\ \A n \in Messages \ {m} : messages'[n] = messages[n]
      /\ \A n \in Messages : Gone(n) => messages'[n].content = messages[n].content /\ messages'[n].chat = messages[n].chat
  BY <1>3, OthersStay DEF Onward
<1>8. \A n \in Messages : Locks(n)' => n # m /\ Locks(n) /\ messages'[n] = messages[n] /\ Code(n) # Code(m)
  BY <1>0, <1>3, <1>7 DEF Locks, Locking, BindInv
<1>9. \A n \in Messages : Locks(n) \/ Spent(n) =>
        /\ Gone(n) /\ Code(n) \in Codes /\ Code(n)' = Code(n) /\ Holder(n)' = Holder(n) /\ Holder(n) \in Users
  <2>1. ASSUME NEW n \in Messages, Locks(n) \/ Spent(n)
        PROVE  Gone(n) /\ messages[n].content.is = "start" /\ Rightly(messages[n])
    BY <2>1, SentMessage DEF Locks, Spent, Locking, Rightly, Redeeming, Gone
  <2>2. ASSUME NEW n \in Messages, Locks(n) \/ Spent(n)
        PROVE  Code(n) \in Codes /\ codes[Code(n)].state \in {"fresh", "consumed"}
    BY <2>1, <2>2, WhatContentsSay DEF Code, BindInv
  <2>3. \A n \in Messages : Gone(n) => Code(n)' = Code(n)
    BY <1>7 DEF Code
  <2>4. \A n \in Messages : Holder(n)' = codes'[Code(n)'].holder /\ Holder(n) = codes[Code(n)].holder
    BY DEF Holder
  <2>5. \A k \in Codes : codes[k].state # "unissued" => codes[k].holder \in Users
    BY DEF ChatShape
  <2>6. \A k \in Codes : codes'[k].holder = codes[k].holder
    BY <1>2
  <2> QED
    BY <2>1, <2>2, <2>3, <2>4, <2>5, <2>6
<1>10. \A n \in Messages : Spent(n)' => n = m \/ (Spent(n) /\ messages'[n] = messages[n] /\ Code(n) # Code(m))
  BY <1>1, <1>7 DEF Spent, BindInv
<1>11. \A n \in Messages : messages'[n].stage \in {"owner", "bind"} => Locks(n)'
  BY DEF Locks, Locking
<1>12. \A n \in Messages : Gone(n)' /\ messages'[n].reply = "bound" => Spent(n)'
  BY DEF Spent, Gone
<1>13. BindInv!1'
  <2>1. CASE chatOf' = chatOf
    BY <2>1 DEF BindInv
  <2>2. CASE /\ ResolveUserId(messages[m].chat) \in {Nobody, Holder(m)}
             /\ chatOf' = [chatOf EXCEPT ![Holder(m)] = messages[m].chat]
    <3>1. \A u \in Users \ {Holder(m)} : chatOf[u] # messages[m].chat
      BY <1>1, <2>2, TheChatsUser, ChatsAssumption DEF BindInv
    <3> QED
      BY <1>1, <1>4, <2>2, <3>1 DEF BindInv, ChatShape
  <2> QED
    BY <1>3, <2>1, <2>2
<1>14. BindInv!2'
  <2>1. ASSUME NEW k \in Codes, codes'[k].state = "consumed" PROVE chatOf'[codes'[k].holder] # Nobody
    <3>1. codes'[k].holder = codes[k].holder /\ (k = Code(m) \/ codes[k].state = "consumed")
      BY <1>2, <2>1
    <3>2. CASE k = Code(m)
      BY <1>5, <3>1, <3>2 DEF Holder
    <3>3. CASE codes[k].state = "consumed"
      <4>1. codes[k].holder \in Users /\ chatOf[codes[k].holder] # Nobody
        BY <2>1, <3>3 DEF BindInv, ChatShape
      <4> QED
        BY <1>4, <3>1, <4>1
    <3> QED
      BY <3>1, <3>2, <3>3
  <2> QED
    BY <2>1 DEF BindInv
<1>15. BindInv!3'
  BY <1>8, <1>9 DEF BindInv
<1>15a. BindInv!4'
  <2>1. ASSUME NEW n \in Messages, Locks(n)' PROVE codes'[Code(n)'].state = "fresh"
    <3>1. Locks(n) /\ Code(n) # Code(m) /\ Code(n)' = Code(n) /\ Code(n) \in Codes
      BY <1>8, <1>9, <2>1
    <3>2. codes[Code(n)].state = "fresh"
      BY <2>1, <3>1 DEF BindInv
    <3> QED
      BY <1>2, <3>1, <3>2
  <2> QED
    BY <2>1 DEF BindInv
<1>16. BindInv!5'
  BY <1>4, <1>8, <1>9, <1>11 DEF BindInv
<1>17. Code(m)' = Code(m) /\ Holder(m)' = Holder(m)
  BY <1>0, <1>9
<1>18. BindInv!6'
  BY <1>9, <1>10, <1>17 DEF BindInv
<1>18a. BindInv!7'
  <2>1. ASSUME NEW n \in Messages, Spent(n)' PROVE codes'[Code(n)'].state = "consumed"
    <3>1. CASE n = m
      BY <1>2, <1>17, <3>1
    <3>2. CASE n # m
      <4>1. Spent(n) /\ Code(n) # Code(m) /\ Code(n)' = Code(n) /\ Code(n) \in Codes
        BY <1>9, <1>10, <2>1, <3>2
      <4>2. codes[Code(n)].state = "consumed"
        BY <2>1, <4>1 DEF BindInv
      <4> QED
        BY <1>2, <4>1, <4>2
    <3> QED
      BY <3>1, <3>2
  <2> QED
    BY <2>1 DEF BindInv
\* Who was told "bound" with no rival under way: whoever binds the same account now is in the same chat.
<1>19. BindInv!8'
  <2>1. ASSUME NEW n \in Messages, Gone(n)', messages'[n].reply = "bound"
        PROVE  chatOf'[Holder(n)'] = messages'[n].chat \/ messages'[n].rivals # {}
    <3>1. CASE n = m
      BY <1>1, <1>3, <1>7, <1>17, <2>1, <3>1 DEF ChatShape
    <3>2. CASE n # m
      <4>1. Spent(n) /\ messages'[n] = messages[n] /\ Gone(n) /\ Holder(n)' = Holder(n) /\ Holder(n) \in Users
        BY <1>9, <1>10, <1>12, <2>1, <3>2
      <4>2. CASE Holder(n) # Holder(m)
        BY <1>4, <2>1, <4>1, <4>2 DEF BindInv
      <4>3. CASE Holder(n) = Holder(m) /\ messages[n].rivals = {}
        <5>1. messages[n].chat = messages[m].chat /\ chatOf[Holder(n)] = messages[n].chat
          BY <1>0, <2>1, <4>1, <4>3 DEF BindInv, At
        <5> QED
          BY <1>1, <1>3, <4>1, <4>3, <5>1 DEF ChatShape
      <4> QED
        BY <4>1, <4>2, <4>3
    <3> QED
      BY <3>1, <3>2
  <2> QED
    BY <2>1 DEF BindInv
<1>20. BindInv!9'
  <2>1. ASSUME NEW l \in Messages, NEW n \in Messages, Gone(l)', messages'[l].reply = "bound", messages'[l].rivals = {},
               messages'[n].stage = "bind", Holder(n)' = Holder(l)'
        PROVE  messages'[n].chat = messages'[l].chat
    <3>1. n # m /\ Locks(n) /\ messages'[n] = messages[n] /\ Holder(n)' = Holder(n)
      BY <1>8, <1>9, <1>11, <2>1
    <3>2. CASE l = m
      <4>1. n \in Rivals(m)
        BY <1>17, <2>1, <3>1, <3>2 DEF Rivals, At
      <4> QED
        BY <1>3, <2>1, <3>2, <4>1
    <3>3. CASE l # m
      <4>1. Spent(l) /\ messages'[l] = messages[l] /\ Gone(l) /\ Holder(l)' = Holder(l)
        BY <1>9, <1>10, <1>12, <2>1, <3>3
      <4>2. At(n, "bind") /\ Holder(n) = Holder(l) /\ messages[l].reply = "bound" /\ messages[l].rivals = {}
        BY <2>1, <3>1, <4>1 DEF At
      <4>3. messages[n].chat = messages[l].chat
        BY <2>1, <4>1, <4>2 DEF BindInv
      <4> QED
        BY <3>1, <4>1, <4>3
    <3> QED
      BY <3>2, <3>3
  <2> QED
    BY <2>1 DEF BindInv, At
<1> QED
  BY <1>0, <1>3, <1>6, <1>13, <1>14, <1>15, <1>15a, <1>16, <1>18, <1>18a, <1>19, <1>20 DEF BindInv

\* Nobody has said a word, and no code is issued.
LEMMA ChatStarts == ChatInit => ChatInv
<1> SUFFICES ASSUME ChatInit PROVE ChatInv
  OBVIOUS
<1>1. \A m \in Messages : messages[m].stage = "unsent"
  BY DEF ChatInit, Fresh
<1>2. MessagesRight
  BY DEF ChatInit, MessagesRight
<1>3. ChatShape
  BY ChatsAssumption DEF ChatInit, ChatShape, NoBucket, Never
<1>4. NoticesTold
  BY <1>1 DEF ChatInit, NoticesTold, NoBucket
<1>5. BindInv
  BY <1>1 DEF ChatInit, BindInv, Locks, Locking, Spent, Gone, At
<1> QED
  BY <1>2, <1>3, <1>4, <1>5 DEF ChatInv

\* Codes, tasks, the clock, and messages that are handled side by side.
LEMMA ChatStep == ChatInv /\ [ChatNext]_chatVars => ChatInv'
<1> SUFFICES ASSUME ChatInv, [ChatNext]_chatVars PROVE ChatInv'
  OBVIOUS
<1>0. ChatShape /\ MessagesRight /\ NoticesTold /\ BindInv
  BY DEF ChatInv
\* A step that takes nothing from the chat's own state but time.
<1>t. ASSUME UNCHANGED <<chatOf, codes, buckets, toldAt, messages>>, time' \in Nat, time <= time' PROVE ChatInv'
  <2>1. ChatShape' /\ MessagesRight'
    BY <1>0, <1>t DEF ChatShape, MessagesRight, Rightly, Written, Fresh
  <2>2. NoticesTold'
    <3>1. \A x \in Int : x <= time => x <= time'
      BY <1>0, <1>t DEF ChatShape
    <3>2. ASSUME NEW c \in Chats
          PROVE  /\ buckets[c].noticedAt = Never \/ (buckets[c].noticedAt <= time' /\ Told(c, buckets[c].noticedAt))
                 /\ toldAt[c] = Never \/ (toldAt[c] <= time' /\ Told(c, toldAt[c]))
      <4>1. buckets[c].noticedAt \in Int /\ toldAt[c] \in Int
        BY <1>0, <3>2 DEF ChatShape
      <4> QED
        BY <1>0, <3>1, <3>2, <4>1 DEF NoticesTold
    <3> QED
      BY <1>0, <1>t, <3>2 DEF NoticesTold, Told, ToldBefore, Gone
  <2>3. BindInv'
    BY <1>0, <1>t DEF BindInv, Locks, Spent, Gone, At, Code, Holder
  <2> QED
    BY <2>1, <2>2, <2>3 DEF ChatInv
<1>h. ASSUME NEW m \in Messages, Onward(m), Heeded(m), Untouched, BindInv' PROVE ChatInv'
  <2>1. MessagesRight'
    BY <1>0, <1>h, OnwardIsRight
  <2>2. NoticesTold'
    BY <1>0, <1>h, NoticesKept DEF Untouched
  <2>3. ChatShape'
    BY <1>0, <1>h DEF ChatShape, Untouched
  <2> QED
    BY <1>h, <2>1, <2>2, <2>3 DEF ChatInv
<1>1. ASSUME NEW k \in Codes, NEW u \in Users, IssueCode(k, u) PROVE ChatInv'
  <2>1. /\ codes' = [codes EXCEPT ![k] = [state |-> "fresh", holder |-> u, expires |-> time + CodeLife]]
        /\ UNCHANGED <<chatOf, buckets, toldAt, time, messages>>
    BY <1>1 DEF IssueCode
  <2>2. ChatShape'
    <3>1. [state |-> "fresh", holder |-> u, expires |-> time + CodeLife]
            \in [state : {"unissued", "fresh", "consumed"}, holder : Users \cup {Nobody}, expires : Nat]
      BY <1>0, <1>1, ChatsAssumption DEF ChatShape
    <3> QED
      BY <1>0, <1>1, <2>1, <3>1 DEF ChatShape
  <2>3. MessagesRight' /\ NoticesTold'
    BY <1>0, <2>1 DEF MessagesRight, NoticesTold, Told, ToldBefore, Gone, Rightly, Written, Fresh
  <2>4. BindInv'
    BY <1>0, <1>1, CodesAreNew
  <2> QED
    BY <2>2, <2>3, <2>4 DEF ChatInv
<1>2. ASSUME NEW t \in ChatTasks, TaskAsks(t) \/ TaskGoesOn(t) PROVE ChatInv'
  BY <1>0, <1>2, <1>t DEF TaskAsks, TaskGoesOn, ChatShape
<1>3. CASE TimePasses
  BY <1>0, <1>3, <1>t DEF TimePasses, ChatShape
<1>4. ASSUME NEW m \in Messages, NEW c \in Chats, NEW content \in Contents, TranscribeInbound(m, c, content) PROVE ChatInv'
  <2>1. MessagesRight' /\ NoticesTold' /\ BindInv' /\ Untouched
    BY <1>0, <1>4, ComingIn
  <2> QED
    BY <1>0, <2>1 DEF ChatInv, ChatShape, Untouched
<1>5. ASSUME NEW m \in Messages, RefuseFloods(m) PROVE ChatInv'
  <2>1. /\ Safe(m) /\ NoticesTold' /\ UNCHANGED <<chatOf, codes, toldAt, time>>
        /\ buckets' \in [Chats -> [tokens : Int, updatedAt : Int, noticedAt : Int]]
    BY <1>0, <1>5, FloodsAreTold
  <2>2. MessagesRight' /\ BindInv'
    BY <1>0, <1>5, <2>1, OnwardIsRight, BindingKept DEF Safe
  <2> QED
    BY <1>0, <2>1, <2>2 DEF ChatInv, ChatShape
<1>6. ASSUME NEW m \in Messages, RequireBinding(m) PROVE ChatInv'
  <2>1. Safe(m) /\ NoticesTold' /\ UNCHANGED <<chatOf, codes, buckets, time>> /\ toldAt' \in [Chats -> Int]
    BY <1>0, <1>6, StrangersAreTold
  <2>2. MessagesRight' /\ BindInv'
    BY <1>0, <1>6, <2>1, OnwardIsRight, BindingKept DEF Safe
  <2> QED
    BY <1>0, <2>1, <2>2 DEF ChatInv, ChatShape
<1>7. ASSUME NEW m \in Messages, LockCode(m) \/ ReadOccupant(m) \/ ReadOwner(m) PROVE ChatInv'
  <2>1. Onward(m) /\ Heeded(m) /\ Untouched /\ BindInv'
    BY <1>0, <1>7, CodeIsLocked, OccupantIsRead, OwnerIsRead
  <2> QED
    BY <1>7, <1>h, <2>1
<1>8. ASSUME NEW m \in Messages, BindChat(m) PROVE ChatInv'
  <2>1. Onward(m) /\ Heeded(m) /\ UNCHANGED <<buckets, toldAt, time>> /\ ChatShape' /\ BindInv'
    BY <1>0, <1>8, ChatIsBound
  <2>2. MessagesRight' /\ NoticesTold'
    BY <1>0, <1>8, <2>1, OnwardIsRight, NoticesKept
  <2> QED
    BY <2>1, <2>2 DEF ChatInv
<1>9. ASSUME NEW m \in Messages,
             \/ ResolveUser(m) \/ FindPendingQuestion(m) \/ Deliver(m) \/ AssistantResponds(m)
             \/ HandlerFails(m) \/ SendReply(m)
      PROVE  ChatInv'
  <2>1. Safe(m) /\ Heeded(m) /\ Untouched
    BY <1>0, <1>9, ReadersAreSafe
  <2>2. Onward(m) /\ BindInv'
    BY <1>0, <1>9, <2>1, BindingKept DEF Safe, Untouched
  <2> QED
    BY <1>9, <1>h, <2>1, <2>2
<1>10. CASE UNCHANGED chatVars
  BY <1>0, <1>10, <1>t DEF chatVars, ChatShape
<1> QED
  BY <1>1, <1>2, <1>3, <1>4, <1>5, <1>6, <1>7, <1>8, <1>9, <1>10 DEF ChatNext

\* The invariant holds of every behaviour of the chat.
LEMMA ChatInvariant == ChatSpec => []ChatInv
<1>1. ChatInit => ChatInv
  BY ChatStarts
<1>2. ChatInv /\ [ChatNext]_chatVars => ChatInv'
  BY ChatStep
<1> QED
  BY <1>1, <1>2, PTL DEF ChatSpec

\* A chat speaks for one user, a code is spent once and only on a user who has a chat, and
\* whoever was told "bound" keeps that chat unless another redemption for the same user
\* was under way (bot/src/binding.ts).
THEOREM CodesBindOnce == ChatSpec => []BindingHolds
<1>1. ChatInv => BindingHolds
  <2> SUFFICES ASSUME ChatInv PROVE BindingHolds
    OBVIOUS
  <2>1. BindInv
    BY DEF ChatInv
  <2> QED
    BY <2>1 DEF BindInv, BindingHolds, Gone
<1> QED
  BY <1>1, ChatInvariant, PTL

\* Every message that is handled to its end is written down, and answered unless its chat
\* was told within the window why not; what the router has it never drops in silence
\* (bot/src/runtime.ts, rate-limit.ts, routing.ts).
THEOREM EveryoneIsAnswered == ChatSpec => []NobodyIsIgnored
<1>1. ChatInv => NobodyIsIgnored
  <2> SUFFICES ASSUME ChatInv, NEW m \in Messages
      PROVE  /\ messages[m].stage = "done" /\ messages[m].content.is # "edit"
                  => messages[m].heard /\ (messages[m].reply # "none" \/ ToldBefore(m))
             /\ messages[m].stage = "failed" => ~messages[m].routed
             /\ messages[m].stage \in {"reply", "done"}
                  => /\ messages[m].taken => messages[m].reply \in {"answer_recorded", "decline_recorded", "unavailable"}
                     /\ messages[m].reply \in {"answer_recorded", "decline_recorded"} => messages[m].taken
    BY DEF NobodyIsIgnored
  <2>1. MessagesRight /\ NoticesTold
    BY DEF ChatInv
  <2>2. messages[m].stage \in {"reply", "done", "failed"} => Rightly(messages[m])
    BY <2>1 DEF MessagesRight, Fresh
  <2> QED
    BY <2>1, <2>2 DEF Rightly, NoticesTold, Written
<1> QED
  BY <1>1, ChatInvariant, PTL
================================================================================
