---------------------------- MODULE Connections ----------------------------
(***************************************************************************)
(* Connecting one site for one person: connect attempts, each around a     *)
(* profile minted at the vendor (packages/api/src/connect-attempts.ts),    *)
(* the row that names the profile in use (packages/db/src/site-            *)
(* connections.ts) and the requests and the timer that race over them.     *)
(*                                                                         *)
(* A profile is named by the attempt it was minted for.  Attempts live in  *)
(* the memory of the process; profiles and the row outlive it.  Left out:  *)
(* whose attempt it is, how long a closed one can be read, and the mints   *)
(* the vendor refuses without making a profile, which change nothing.      *)
(***************************************************************************)
EXTENDS Naturals

CONSTANTS
  Attempts,   \* connect attempts, and the profiles minted for them
  Requests,   \* confirmations that can be under way at once
  MaxFaults   \* bound: failed commits, refused deletions, lost mints, and processes that die

None == "none"

ASSUME ConnectionsAssumption == None \notin Attempts /\ MaxFaults \in Nat

VARIABLES
  attempt,   \* the status of each attempt, as far as a process remembers it
  armed,     \* the attempts on the clock
  request,   \* where each confirmation is, its attempt, and the profile its link found in the row
  row,       \* the connection's row: the profile it names and whether it is good
  live,      \* the profiles the vendor keeps, and counts
  deleting,  \* the profiles whose deletion is under way
  meddled,   \* history: attempts touched while a commit of theirs was out, or left in doubt by it
  shadowed,  \* history: profiles a link that overlapped another, or was in doubt, lost sight of
  givenUp,   \* history: profiles whose minting failed here, deletion was refused, or process died
  faults     \* faults so far

memory == <<attempt, armed, request>>
vendor == <<live, deleting>>
history == <<meddled, shadowed, givenUp>>
vars == <<attempt, armed, request, row, live, deleting, meddled, shadowed, givenUp, faults>>

Idle == [pc |-> "idle", attempt |-> None, previous |-> None]

\* A confirmation is inside its commit until the statement's answer is back.
InCommit(r) == request[r].pc \in {"read", "upsert", "written"}
CommitsOf(a) == {r \in Requests : InCommit(r) /\ request[r].attempt = a}
OthersUnderWay(a) == {request[r].attempt : r \in {s \in Requests : InCommit(s)}} \ {a}

-----------------------------------------------------------------------------
(* Attempts *)

\* Variant: the timer keeps running while the row is written.
StillArmed(a) == armed

Disarmed(a) == armed \ {a}

\* The status is written first; the deletion is asked for after it.
Discard(a, status) ==
  /\ attempt' = [attempt EXCEPT ![a] = status]
  /\ deleting' = deleting \cup {a}

\* The vendor has minted the profile; the ledger does not hold it yet.
MintProfile(a) ==
  /\ attempt[a] = "none"
  /\ attempt' = [attempt EXCEPT ![a] = "minted"]
  /\ live' = live \cup {a}
  /\ UNCHANGED <<armed, request, row, deleting, history, faults>>

\* The vendor has minted it and the answer was lost: start fails, and the profile
\* is there with nobody who has heard of it.
MintUnanswered(a) ==
  /\ faults < MaxFaults
  /\ attempt[a] = "none"
  /\ attempt' = [attempt EXCEPT ![a] = "forgotten"]
  /\ live' = live \cup {a}
  /\ givenUp' = givenUp \cup {a}
  /\ faults' = faults + 1
  /\ UNCHANGED <<armed, request, row, deleting, meddled, shadowed>>

OpenAttempt(a) ==
  /\ attempt[a] = "minted"
  /\ attempt' = [attempt EXCEPT ![a] = "started"]
  /\ armed' = armed \cup {a}
  /\ UNCHANGED <<request, row, vendor, history, faults>>

\* The timer does not ask whether the attempt is still open.
ExpireAttempt(a) ==
  /\ a \in armed
  /\ armed' = armed \ {a}
  /\ Discard(a, "expired")
  /\ UNCHANGED <<request, row, live, history, faults>>

\* Only an open attempt; one whose commit is out still counts as open.
CancelAttempt(a) ==
  /\ attempt[a] = "started"
  /\ armed' = Disarmed(a)
  /\ Discard(a, "cancelled")
  /\ meddled' = IF CommitsOf(a) = {} THEN meddled ELSE meddled \cup {a}
  /\ UNCHANGED <<request, row, live, shadowed, givenUp, faults>>

-----------------------------------------------------------------------------
(* Confirmation: off the clock, the row, and then the status *)

ConfirmAttempt(r, a) ==
  /\ request[r] = Idle
  /\ attempt[a] = "started"
  /\ armed' = Disarmed(a)
  /\ request' = [request EXCEPT ![r] = [pc |-> "read", attempt |-> a, previous |-> None]]
  /\ meddled' = IF CommitsOf(a) = {} THEN meddled ELSE meddled \cup {a}
  /\ shadowed' = IF OthersUnderWay(a) = {} THEN shadowed
                                           ELSE shadowed \cup {a} \cup OthersUnderWay(a)
  /\ UNCHANGED <<attempt, row, vendor, givenUp, faults>>

\* The link is two statements: the row before it, and the upsert.
ReadPrevious(r) ==
  /\ request[r].pc = "read"
  /\ request' = [request EXCEPT ![r] =
                   [pc |-> "upsert", attempt |-> request[r].attempt, previous |-> row.profile]]
  /\ UNCHANGED <<attempt, armed, row, vendor, history, faults>>

LinkConnection(r) ==
  /\ request[r].pc = "upsert"
  /\ row' = [profile |-> request[r].attempt, status |-> "connected"]
  /\ request' = [request EXCEPT ![r].pc = "written"]
  /\ UNCHANGED <<attempt, armed, vendor, history, faults>>

\* Variant: the row is read again, after the link.
ReplacedByReread(r) == {row.profile} \ {None, request[r].attempt}

\* The profile the row named before the link, unless it is the one linked.
Replaced(r) == {request[r].previous} \ {None, request[r].attempt}

\* Whatever the status is by now, it becomes confirmed.
CloseConfirmed(r) ==
  /\ request[r].pc = "written"
  /\ attempt' = [attempt EXCEPT ![request[r].attempt] = "confirmed"]
  /\ deleting' = deleting \cup Replaced(r)
  /\ request' = [request EXCEPT ![r] = Idle]
  /\ UNCHANGED <<armed, row, live, history, faults>>

\* Variant: the attempt stays open, but off the clock.
NotRearmed(r) == armed

\* Back on the clock, whatever became of the attempt.
Rearmed(r) == armed \cup {request[r].attempt}

\* A commit that throws.  It may have been written, and only its answer lost.
CommitFails(r) ==
  /\ faults < MaxFaults
  /\ InCommit(r)
  /\ armed' = Rearmed(r)
  /\ request' = [request EXCEPT ![r] = Idle]
  /\ IF request[r].pc = "written"
     THEN /\ meddled' = meddled \cup {request[r].attempt}
          /\ shadowed' = shadowed \cup Replaced(r)
     ELSE UNCHANGED <<meddled, shadowed>>
  /\ faults' = faults + 1
  /\ UNCHANGED <<attempt, row, vendor, givenUp>>

-----------------------------------------------------------------------------
(* The vendor, the runs, and the process *)

\* A profile that is already gone counts as deleted.
ProfileDeleted(a) ==
  /\ a \in deleting
  /\ deleting' = deleting \ {a}
  /\ live' = live \ {a}
  /\ UNCHANGED <<memory, row, history, faults>>

\* The editor has it open, or the vendor is away: reported, and not tried again.
DeletionRefused(a) ==
  /\ faults < MaxFaults
  /\ a \in deleting \cap live
  /\ deleting' = deleting \ {a}
  /\ givenUp' = givenUp \cup {a}
  /\ faults' = faults + 1
  /\ UNCHANGED <<memory, row, live, meddled, shadowed>>

RowExists == row.profile # None

\* A run that finds itself signed out, or the API: by the row's id, whatever it names by now.
ExpireConnection ==
  /\ RowExists
  /\ row' = [row EXCEPT !.status = "expired"]
  /\ UNCHANGED <<memory, vendor, history, faults>>

\* Nothing in memory survives; deletions under way may or may not have landed.
Forgotten == [a \in Attempts |-> IF attempt[a] = "none" THEN "none" ELSE "forgotten"]

ProcessDies ==
  /\ faults < MaxFaults
  /\ attempt' = Forgotten
  /\ armed' = {}
  /\ request' = [r \in Requests |-> Idle]
  /\ deleting' = {}
  /\ givenUp' = givenUp \cup (live \ {row.profile})
  /\ faults' = faults + 1
  /\ UNCHANGED <<row, live, meddled, shadowed>>

\* The server has finished its requests, and discards what is still open.
CloseServer ==
  /\ \A r \in Requests : request[r] = Idle
  /\ \A a \in Attempts : attempt[a] # "minted"
  /\ \E a \in Attempts : attempt[a] = "started"
  /\ LET waiting == {a \in Attempts : attempt[a] = "started"} IN
       /\ attempt' = [a \in Attempts |-> IF a \in waiting THEN "cancelled" ELSE attempt[a]]
       /\ armed' = armed \ waiting
       /\ deleting' = deleting \cup waiting
  /\ UNCHANGED <<request, row, live, history, faults>>

-----------------------------------------------------------------------------
Init ==
  /\ attempt = [a \in Attempts |-> "none"]
  /\ armed = {}
  /\ request = [r \in Requests |-> Idle]
  /\ row = [profile |-> None, status |-> "none"]
  /\ live = {}
  /\ deleting = {}
  /\ meddled = {}
  /\ shadowed = {}
  /\ givenUp = {}
  /\ faults = 0

\* What a request does once it is under way, failures apart.
RequestStep(r) == ReadPrevious(r) \/ LinkConnection(r) \/ CloseConfirmed(r)

Next ==
  \/ \E a \in Attempts :
       \/ MintProfile(a) \/ MintUnanswered(a) \/ OpenAttempt(a)
       \/ ExpireAttempt(a) \/ CancelAttempt(a)
       \/ ProfileDeleted(a) \/ DeletionRefused(a)
  \/ \E r \in Requests :
       \/ \E a \in Attempts : ConfirmAttempt(r, a)
       \/ RequestStep(r) \/ CommitFails(r)
  \/ ExpireConnection \/ ProcessDies \/ CloseServer

Spec == Init /\ [][Next]_vars

-----------------------------------------------------------------------------
(* What is checked *)

Statuses == {"none", "minted", "started", "confirmed", "cancelled", "expired", "forgotten"}

\* Types; a confirmation has an attempt exactly while it is under way, and the
\* row names a profile exactly when there is a row.
TypeOK ==
  /\ attempt \in [Attempts -> Statuses]
  /\ request \in [Requests -> [pc : {"idle", "read", "upsert", "written"},
                               attempt : Attempts \cup {None},
                               previous : Attempts \cup {None}]]
  /\ \A r \in Requests : InCommit(r) <=> request[r].attempt # None
  /\ row \in [profile : Attempts \cup {None}, status : {"none", "connected", "expired"}]
  /\ row.status = "none" <=> row.profile = None
  /\ \A S \in {armed, live, deleting, meddled, shadowed, givenUp} : S \subseteq Attempts
  /\ faults \in 0 .. MaxFaults

\* The connection never names a profile that was deleted, over any number of
\* links, replacements, failed commits and deaths: "a slow commit cannot race
\* the timeout into deleting a profile the row is about to name".  Excepted is
\* an attempt that was cancelled or confirmed again while a commit of it was
\* out, or whose commit was written and answered with an error: the code closes
\* or re-arms these without a look at the row.
RowNamesALiveProfile == row.profile # None => row.profile \in live \cup meddled

\* A profile somebody will still delete, or that is in use.
Accounted(a) ==
  \/ attempt[a] \in {"minted", "started"}
  \/ a \in deleting
  \/ a = row.profile
  \/ \E r \in Requests : request[r].pc = "written" /\ a = request[r].previous

\* No profile counts against the plan's cap with nobody to delete it: the ledger
\* holds it, its deletion is under way, the row names it, or a link is about to
\* replace it.  Excepted are those of which the code says so (a refused deletion
\* is not retried; a process that dies cannot clean up), one whose mint went
\* through at the vendor and failed here, and a link that overlapped another one
\* and so never saw whom it replaced.
EveryProfileIsAccountedFor ==
  \A a \in live : Accounted(a) \/ a \in givenUp \cup shadowed

\* An open attempt is on the clock, or a confirmation is about to close it or to
\* put it back: none stays open for ever, whatever becomes of its commits.
OpenIsWatched ==
  \A a \in Attempts : attempt[a] = "started" => a \in armed \/ CommitsOf(a) # {}

=============================================================================
