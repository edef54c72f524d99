-------------------------------- MODULE Voice --------------------------------
(***************************************************************************)
(* Voice intake of one user: recordings are uploaded under an idempotency  *)
(* key, queued, claimed by workers under a lease and transcribed; the user *)
(* reviews the transcript and commits it as a customer, job and            *)
(* waiting-list entry, discards it, or has a failed recording transcribed  *)
(* once more.  Drafts and recordings expire and are cleaned up.            *)
(*                                                                         *)
(* A draft and its recording share an identity.  The transcriber is        *)
(* external: it returns a text or fails, and its call may outlast the      *)
(* lease.  A text is represented by the number of the claim it came from.  *)
(***************************************************************************)
EXTENDS Integers, FiniteSets

CONSTANTS
  Drafts,         \* identities of drafts and their recordings
  Keys,           \* idempotency keys of uploads
  Uploads,        \* concurrent upload requests of the user
  Pages,          \* pages on which the user looks at a draft
  Workers,
  None,           \* neither a key, a worker nor a draft
  MaxAttempts,    \* voice_recordings.max_attempts
  MaxRetries,     \* manual_retry_count < 1: one retry by hand
  Rate,           \* RateLimitPerMinute
  Concurrent,     \* ConcurrentPerUser
  MaxFaults       \* bound: crashes, overrun leases and lost transactions

ASSUME IdentityAssumption == None \notin Keys \cup Workers \cup Drafts
ASSUME UploadAssumption == IsFiniteSet(Uploads)
ASSUME LimitAssumption ==
  /\ MaxAttempts \in Nat \ {0} /\ MaxRetries \in Nat
  /\ Rate \in Nat \ {0} /\ Concurrent \in Nat \ {0} /\ MaxFaults \in Nat

VARIABLES
  drafts,      \* table voice_drafts; overdue: expires_at has passed
  recordings,  \* table voice_recordings; leased: lease_until, ready: available_at has come
  limiter,     \* userLimiter: requests of this minute and requests in progress
  uploads,     \* the key of each upload whose audio is being prepared
  pages,       \* the draft and version each page shows
  workers,     \* the recording each worker transcribes, and the number of its claim
  history,     \* history: claims of a draft and intakes created from it
  faults       \* history: number of faults

vars == <<drafts, recordings, limiter, uploads, pages, workers, history, faults>>
tables == <<drafts, recordings>>

NoDraft == [status |-> "none", version |-> 0, text |-> 0, overdue |-> FALSE]
NoRecording ==
  [key |-> None, holder |-> None, leased |-> FALSE, ready |-> FALSE, attempts |-> 0,
   manual |-> 0, overdue |-> FALSE]
Idle == [draft |-> None, claim |-> 0]

Stored(d) == recordings[d] # NoRecording
Pending == {"recorded", "transcribing"}

\* The draft changes its status and loses what is personal in it.
Cleared(draft, status) ==
  [draft EXCEPT !.status = status, !.text = 0, !.version = @ + 1]

Fault == faults < MaxFaults /\ faults' = faults + 1

-----------------------------------------------------------------------------
(* Uploads *)

\* FindRecordingByUploadKey, before anything is prepared
KeyUnknown(k) == \A d \in Drafts : recordings[d].key # k

\* The same look-up under the lock on the key, and the unique index.
KeyFree(k) == \A d \in Drafts : recordings[d].key # k

Admit == [limiter EXCEPT !.count = @ + 1, !.active = @ + 1]

\* Seeded fault: nothing is released when the preparation fails.
Kept == limiter
Released == [limiter EXCEPT !.active = @ - 1]

BeginUpload(u, k) ==
  /\ uploads[u] = None
  /\ KeyUnknown(k)
  /\ limiter.count < Rate /\ limiter.active < Concurrent
  /\ limiter' = Admit
  /\ uploads' = [uploads EXCEPT ![u] = k]
  /\ UNCHANGED <<tables, pages, workers, history, faults>>

\* The audio is refused, or the request is lost.
FailUpload(u) ==
  /\ uploads[u] # None
  /\ limiter' = Released
  /\ uploads' = [uploads EXCEPT ![u] = None]
  /\ UNCHANGED <<tables, pages, workers, history, faults>>

\* CreateRecording; for a key that was stored meanwhile the existing draft is returned.
StoreUpload(u) ==
  /\ uploads[u] # None
  /\ \/ /\ KeyFree(uploads[u])
        /\ \E d \in Drafts :
             /\ drafts[d] = NoDraft
             /\ drafts' = [drafts EXCEPT ![d].status = "recorded", ![d].version = 1]
             /\ recordings' =
                  [recordings EXCEPT ![d].key = uploads[u], ![d].ready = TRUE]
     \/ ~KeyFree(uploads[u]) /\ UNCHANGED tables
  /\ limiter' = Released
  /\ uploads' = [uploads EXCEPT ![u] = None]
  /\ UNCHANGED <<pages, workers, history, faults>>

\* A minute has passed since the first request of the window.
NewWindow ==
  /\ limiter.count > 0
  /\ limiter' = [limiter EXCEPT !.count = 0]
  /\ UNCHANGED <<tables, uploads, pages, workers, history, faults>>

-----------------------------------------------------------------------------
(* The worker *)

Claimable(d) ==
  /\ Stored(d) /\ ~recordings[d].overdue /\ ~drafts[d].overdue
  /\ recordings[d].attempts < MaxAttempts
  /\ \/ /\ drafts[d].status = "recorded"
        /\ recordings[d].ready /\ recordings[d].holder = None
     \/ /\ drafts[d].status = "transcribing"
        /\ recordings[d].holder # None /\ ~recordings[d].leased

Claim(w, d) ==
  /\ workers[w] = Idle
  /\ Claimable(d)
  /\ recordings' = [recordings EXCEPT ![d].holder = w, ![d].leased = TRUE, ![d].attempts = @ + 1]
  /\ drafts' = [drafts EXCEPT ![d].status = "transcribing",
       ![d].version = @ + IF drafts[d].status = "recorded" THEN 1 ELSE 0]
  /\ workers' = [workers EXCEPT ![w] = [draft |-> d, claim |-> history[d].claims + 1]]
  /\ history' = [history EXCEPT ![d].claims = @ + 1]
  /\ UNCHANGED <<limiter, uploads, pages, faults>>

Finish(w) == workers' = [workers EXCEPT ![w] = Idle]

\* Seeded fault: any lease will do, whoever holds it.
LeasedToAnyone(w, d) == Stored(d) /\ recordings[d].leased

HoldsLease(w, d) == Stored(d) /\ recordings[d].holder = w /\ recordings[d].leased

\* Seeded fault: the lease outlives the claim.
FreeHolder(d) == [recordings[d] EXCEPT !.holder = None]

Free(d) == [recordings[d] EXCEPT !.holder = None, !.leased = FALSE]

\* The draft still waits for its transcript.
Transcribing(d) == drafts[d].status = "transcribing"

\* CompleteClaimedVoiceRecording: the claim is released even if the draft does
\* not take the transcript any more; without the lease nothing happens.
Complete(w) ==
  LET d == workers[w].draft IN
  /\ d # None
  /\ \/ /\ HoldsLease(w, d)
        /\ recordings' = [recordings EXCEPT ![d] = Free(d)]
        /\ drafts' = IF Transcribing(d) /\ ~drafts[d].overdue
                     THEN [drafts EXCEPT ![d].status = "needs_review",
                             ![d].text = workers[w].claim, ![d].version = @ + 1]
                     ELSE drafts
     \/ ~HoldsLease(w, d) /\ UNCHANGED tables
  /\ Finish(w)
  /\ UNCHANGED <<limiter, uploads, pages, history, faults>>

\* FailClaimedVoiceRecording: the transcriber failed, which is tried again while
\* attempts are left, or its text is unusable, which is not.
Fail(w, retry) ==
  LET d == workers[w].draft
      attempts == IF retry THEN recordings[d].attempts ELSE MaxAttempts
  IN /\ d # None
     /\ \/ /\ HoldsLease(w, d)
           /\ recordings' = [recordings EXCEPT ![d] =
                [Free(d) EXCEPT !.attempts = attempts, !.ready = @ /\ ~retry]]
           /\ drafts' = IF Transcribing(d)
                        THEN [drafts EXCEPT ![d].version = @ + 1, ![d].status =
                                IF attempts < MaxAttempts THEN "recorded" ELSE "failed"]
                        ELSE drafts
        \/ ~HoldsLease(w, d) /\ UNCHANGED tables
     /\ Finish(w)
     /\ UNCHANGED <<limiter, uploads, pages, history, faults>>

\* The process ends, or the result cannot be written.
Lose(w) ==
  /\ workers[w] # Idle
  /\ Fault
  /\ Finish(w)
  /\ UNCHANGED <<tables, limiter, uploads, pages, history>>

-----------------------------------------------------------------------------
(* The user *)

Look(p, d) ==
  /\ drafts[d].status \in {"needs_review", "failed"}
  /\ pages[p] # [draft |-> d, version |-> drafts[d].version]
  /\ pages' = [pages EXCEPT ![p] = [draft |-> d, version |-> drafts[d].version]]
  /\ UNCHANGED <<tables, limiter, uploads, workers, history, faults>>

Shows(p, status) ==
  LET d == pages[p].draft IN
  /\ d # None
  /\ drafts[d].status = status /\ drafts[d].version = pages[p].version
  /\ ~drafts[d].overdue

\* Seeded fault: the retries by hand are not counted.
MayAlwaysRetry(d) == TRUE
MayRetry(d) == recordings[d].manual < MaxRetries

\* RetryFailedVoiceRecording
Retry(p) ==
  LET d == pages[p].draft IN
  /\ Shows(p, "failed")
  /\ Stored(d) /\ ~recordings[d].overdue
  /\ MayRetry(d)
  /\ recordings' = [recordings EXCEPT ![d] =
       [Free(d) EXCEPT !.attempts = 0, !.manual = @ + 1, !.ready = TRUE]]
  /\ drafts' = [drafts EXCEPT ![d].status = "recorded", ![d].version = @ + 1]
  /\ UNCHANGED <<limiter, uploads, pages, workers, history, faults>>

\* Seeded fault: the review looks at the expiry alone.
NotOverdue(p) == pages[p].draft # None /\ ~drafts[pages[p].draft].overdue
Reviewable(p) == Shows(p, "needs_review")

\* Customer, job, waiting-list entry and the status of the draft in one
\* transaction.  A draft that was committed before answers with what it created.
Commit(p) ==
  LET d == pages[p].draft IN
  /\ Reviewable(p)
  /\ drafts' = [drafts EXCEPT ![d] = Cleared(@, "committed")]
  /\ history' = [history EXCEPT ![d].intakes = @ + 1]
  /\ UNCHANGED <<recordings, limiter, uploads, pages, workers, faults>>

\* Seeded fault: a draft that was being transcribed is not looked for.
Waiting == {"needs_review", "failed", "recorded"}
Unfinished == {"needs_review", "failed", "transcribing", "recorded"}

Discard(d) ==
  /\ drafts[d].status \in {"needs_review", "failed", "transcribing", "recorded"}
  /\ drafts' = [drafts EXCEPT ![d] = Cleared(@, "expired")]
  /\ UNCHANGED <<recordings, limiter, uploads, pages, workers, history, faults>>

-----------------------------------------------------------------------------
(* Time and the clean-up of every minute *)

\* The retention of drafts ends ...
Overdue(d) ==
  /\ drafts[d].status \notin {"none", "committed", "expired"} /\ ~drafts[d].overdue
  /\ drafts' = [drafts EXCEPT ![d].overdue = TRUE]
  /\ UNCHANGED <<recordings, limiter, uploads, pages, workers, history, faults>>

\* ... and, configured separately, that of recordings.
RecordingOverdue(d) ==
  /\ Stored(d) /\ ~recordings[d].overdue
  /\ recordings' = [recordings EXCEPT ![d].overdue = TRUE]
  /\ UNCHANGED <<drafts, limiter, uploads, pages, workers, history, faults>>

\* CleanupExpiredVoiceDrafts
CleanupDraft(d) ==
  /\ drafts[d].overdue /\ drafts[d].status \in Unfinished
  /\ drafts' = [drafts EXCEPT ![d] = Cleared(@, "expired")]
  /\ UNCHANGED <<recordings, limiter, uploads, pages, workers, history, faults>>

\* CleanupExpiredVoiceRecordings
CleanupRecording(d) ==
  /\ recordings[d].overdue
  /\ recordings' = [recordings EXCEPT ![d] = NoRecording]
  /\ UNCHANGED <<drafts, limiter, uploads, pages, workers, history, faults>>

Expire(d) == recordings' = [recordings EXCEPT ![d].leased = FALSE]

LeaseExpires(d) ==
  /\ recordings[d].leased
  /\ workers[recordings[d].holder].draft # d
  /\ Expire(d)
  /\ UNCHANGED <<drafts, limiter, uploads, pages, workers, history, faults>>

LeaseOverrun(d) ==
  /\ recordings[d].leased
  /\ workers[recordings[d].holder].draft = d
  /\ Fault
  /\ Expire(d)
  /\ UNCHANGED <<drafts, limiter, uploads, pages, workers, history>>

BackoffEnds(d) ==
  /\ Stored(d) /\ ~recordings[d].ready
  /\ recordings' = [recordings EXCEPT ![d].ready = TRUE]
  /\ UNCHANGED <<drafts, limiter, uploads, pages, workers, history, faults>>

-----------------------------------------------------------------------------
(* The specification *)

Init ==
  /\ drafts = [d \in Drafts |-> NoDraft]
  /\ recordings = [d \in Drafts |-> NoRecording]
  /\ limiter = [count |-> 0, active |-> 0]
  /\ uploads = [u \in Uploads |-> None]
  /\ pages = [p \in Pages |-> [draft |-> None, version |-> 0]]
  /\ workers = [w \in Workers |-> Idle]
  /\ history = [d \in Drafts |-> [claims |-> 0, intakes |-> 0]]
  /\ faults = 0

Work(w) == Complete(w) \/ \E retry \in BOOLEAN : Fail(w, retry)

Next ==
  \/ \E u \in Uploads : (\E k \in Keys : BeginUpload(u, k)) \/ FailUpload(u) \/ StoreUpload(u)
  \/ NewWindow
  \/ \E w \in Workers : (\E d \in Drafts : Claim(w, d)) \/ Work(w) \/ Lose(w)
  \/ \E p \in Pages : (\E d \in Drafts : Look(p, d)) \/ Retry(p) \/ Commit(p)
  \/ \E d \in Drafts :
       \/ Discard(d) \/ Overdue(d) \/ RecordingOverdue(d)
       \/ CleanupDraft(d) \/ CleanupRecording(d)
       \/ LeaseExpires(d) \/ LeaseOverrun(d) \/ BackoffEnds(d)

\* Time passes, and some worker cleans up every minute.
Fairness == \A d \in Drafts : WF_vars(Overdue(d)) /\ WF_vars(CleanupDraft(d))

Spec == Init /\ [][Next]_vars /\ Fairness

-----------------------------------------------------------------------------
(* Properties *)

Draft ==
  [status : {"none", "recorded", "transcribing", "needs_review", "failed", "committed", "expired"},
   version : Nat, text : Nat, overdue : BOOLEAN]
Recording ==
  [key : Keys \cup {None}, holder : Workers \cup {None}, leased : BOOLEAN, ready : BOOLEAN,
   attempts : 0 .. MaxAttempts, manual : 0 .. MaxRetries, overdue : BOOLEAN]

\* Every variable has its type; a lease has a holder, as the table demands.
TypeOK ==
  /\ drafts \in [Drafts -> Draft]
  /\ recordings \in [Drafts -> Recording]
  /\ \A d \in Drafts : recordings[d].leased => recordings[d].holder # None
  /\ limiter \in [count : Nat, active : Nat]
  /\ uploads \in [Uploads -> Keys \cup {None}]
  /\ pages \in [Pages -> [draft : Drafts \cup {None}, version : Nat]]
  /\ workers \in [Workers -> [draft : Drafts \cup {None}, claim : Nat]]
  /\ history \in [Drafts -> [claims : Nat, intakes : Nat]]
  /\ faults \in Nat

\* A draft holds a text exactly while it is under review, and the text is that of
\* the latest claim: no worker that lost its lease writes over the result of
\* another, and no late result brings back what was discarded or has expired.
TextIsOfLatestClaim ==
  \A d \in Drafts :
    /\ drafts[d].status = "needs_review" <=> drafts[d].text # 0
    /\ drafts[d].text # 0 => drafts[d].text = history[d].claims

\* A recording becomes at most one customer, job and waiting-list entry, exactly
\* when its draft says so, however many pages commit it, and whatever expires or
\* is discarded meanwhile.
OneIntakePerDraft ==
  \A d \in Drafts : history[d].intakes = IF drafts[d].status = "committed" THEN 1 ELSE 0

\* The transcriber is not called without end: the attempts of the queue and one
\* more round by hand, crashes and overrun leases included.
TranscriptionsBounded ==
  \A d \in Drafts : history[d].claims <= MaxAttempts * (1 + MaxRetries)

\* The limiter counts exactly the uploads in progress: none is forgotten, which
\* would lock the user out, and none is given back twice.
LimiterExact ==
  /\ limiter.active = Cardinality({u \in Uploads : uploads[u] # None})
  /\ limiter.active <= Concurrent

\* No recording stays in the queue: though a recording whose last worker crashed
\* is neither claimed again nor marked as failed, its draft expires.
EventuallyDecided ==
  \A d \in Drafts : drafts[d].status \in Pending ~> drafts[d].status \notin Pending
=============================================================================
