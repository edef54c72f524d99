----------------------------- MODULE VoiceProofs -----------------------------
(***************************************************************************)
(* Theorems about Voice for any number of drafts, keys, uploads, pages and *)
(* workers, any limits and any number of faults.                           *)
(*                                                                         *)
(* What is promised about a draft is promised about each draft alone, so   *)
(* that the invariant speaks of one (DraftSound), and a step disturbs at   *)
(* most the one it is about.                                               *)
(***************************************************************************)
EXTENDS Voice, FiniteSetTheorems, TLAPS

DraftsTyped == drafts \in [Drafts -> Draft]
RecordingsTyped ==
  /\ recordings \in [Drafts -> Recording]
  /\ \A d \in Drafts : recordings[d].leased => recordings[d].holder # None
LimiterTyped == limiter \in [count : Nat, active : Nat]
UploadsTyped == uploads \in [Uploads -> Keys \cup {None}]
PagesTyped == pages \in [Pages -> [draft : Drafts \cup {None}, version : Nat]]
WorkersTyped == workers \in [Workers -> [draft : Drafts \cup {None}, claim : Nat]]
HistoryTyped == history \in [Drafts -> [claims : Nat, intakes : Nat]]

\* TypeOK, split into the parts that single steps change.
LEMMA TypeParts ==
  TypeOK <=> /\ DraftsTyped /\ RecordingsTyped /\ LimiterTyped /\ UploadsTyped
             /\ PagesTyped /\ WorkersTyped /\ HistoryTyped /\ faults \in Nat
BY DEF TypeOK, DraftsTyped, RecordingsTyped, LimiterTyped, UploadsTyped, PagesTyped,
       WorkersTyped, HistoryTyped

LEMMA TypePartsNext ==
  TypeOK' <=> /\ DraftsTyped' /\ RecordingsTyped' /\ LimiterTyped' /\ UploadsTyped'
              /\ PagesTyped' /\ WorkersTyped' /\ HistoryTyped' /\ faults' \in Nat
BY DEF TypeOK, DraftsTyped, RecordingsTyped, LimiterTyped, UploadsTyped, PagesTyped,
       WorkersTyped, HistoryTyped

Statuses ==
  {"none", "recorded", "transcribing", "needs_review", "failed", "committed", "expired"}

\* The ways in which a row changes keep it a row.
LEMMA DraftChanged ==
  ASSUME NEW draft \in Draft, NEW status \in Statuses, NEW version \in Nat, NEW text \in Nat
  PROVE  /\ [draft EXCEPT !.status = status, !.version = version] \in Draft
         /\ [draft EXCEPT !.status = status, !.text = text, !.version = version] \in Draft
         /\ [draft EXCEPT !.overdue = TRUE] \in Draft
BY DEF Draft, Statuses

LEMMA DraftFields ==
  ASSUME NEW draft \in Draft
  PROVE  /\ draft.status \in Statuses /\ draft.overdue \in BOOLEAN
         /\ draft.version \in Nat /\ draft.version + 1 \in Nat /\ draft.text \in Nat
         /\ DOMAIN draft = {"status", "version", "text", "overdue"}
BY DEF Draft, Statuses

LEMMA RecordingChanged ==
  ASSUME NEW r \in Recording, NEW k \in Keys \cup {None}, NEW h \in Workers \cup {None},
         NEW a \in 0 .. MaxAttempts, NEW m \in 0 .. MaxRetries, NEW b \in BOOLEAN
  PROVE  /\ [r EXCEPT !.holder = h, !.leased = b] \in Recording
         /\ [r EXCEPT !.holder = h, !.leased = TRUE, !.attempts = a] \in Recording
         /\ [r EXCEPT !.leased = FALSE] \in Recording
         /\ [r EXCEPT !.ready = TRUE] \in Recording
         /\ [r EXCEPT !.overdue = TRUE] \in Recording
         /\ [r EXCEPT !.key = k, !.ready = TRUE] \in Recording
         /\ [r EXCEPT !.attempts = a, !.ready = b] \in Recording
         /\ [r EXCEPT !.attempts = a, !.manual = m, !.ready = TRUE] \in Recording
BY DEF Recording

LEMMA RecordingFields ==
  ASSUME NEW r \in Recording
  PROVE  /\ r.key \in Keys \cup {None} /\ r.holder \in Workers \cup {None}
         /\ r.leased \in BOOLEAN /\ r.ready \in BOOLEAN /\ r.overdue \in BOOLEAN
         /\ r.attempts \in 0 .. MaxAttempts /\ r.manual \in 0 .. MaxRetries
         /\ DOMAIN r = {"key", "holder", "leased", "ready", "attempts", "manual", "overdue"}
BY DEF Recording

\* A recording that is given back has neither holder nor lease.
LEMMA FreeTyped ==
  ASSUME TypeOK, NEW d \in Drafts
  PROVE  Free(d) \in Recording /\ ~Free(d).leased /\ Free(d).manual = recordings[d].manual
<1>1. recordings[d] \in Recording
  BY DEF TypeOK
<1>2. Free(d) \in Recording
  BY <1>1, RecordingChanged, RecordingFields, LimitAssumption DEF Free
<1>3. QED
  BY <1>1, <1>2, RecordingFields DEF Free

-----------------------------------------------------------------------------
(* The limiter *)

InProgress == {u \in Uploads : uploads[u] # None}

\* Uploads in progress are finitely many.
LEMMA InProgressFinite == IsFiniteSet(InProgress) /\ Cardinality(InProgress) \in Nat
<1>1. IsFiniteSet(InProgress)
  BY UploadAssumption, FS_Subset DEF InProgress
<1>2. QED
  BY <1>1, FS_CardinalityType

\* The limiter stays exact: every step counts the uploads it begins and ends.
LEMMA LimiterStep ==
  ASSUME TypeOK, LimiterExact, [Next]_vars
  PROVE  LimiterExact' /\ LimiterTyped' /\ UploadsTyped'
<1>1. /\ limiter \in [count : Nat, active : Nat] /\ uploads \in [Uploads -> Keys \cup {None}]
      /\ limiter.active = Cardinality(InProgress) /\ limiter.active <= Concurrent
  BY DEF TypeOK, LimiterExact, InProgress
<1>2. Concurrent \in Nat
  BY LimitAssumption
<1>3. SUFFICES /\ limiter'.active = Cardinality(InProgress') /\ limiter'.active <= Concurrent
               /\ LimiterTyped' /\ UploadsTyped'
  BY DEF LimiterExact, InProgress
<1>4. ASSUME UNCHANGED uploads, limiter'.active = limiter.active, LimiterTyped'
      PROVE  /\ limiter'.active = Cardinality(InProgress') /\ limiter'.active <= Concurrent
             /\ LimiterTyped' /\ UploadsTyped'
  BY <1>1, <1>4 DEF InProgress, UploadsTyped
<1>5. ASSUME NEW u \in Uploads, NEW k \in Keys, BeginUpload(u, k)
      PROVE  /\ limiter'.active = Cardinality(InProgress') /\ limiter'.active <= Concurrent
             /\ LimiterTyped' /\ UploadsTyped'
  <2>1. InProgress' = InProgress \cup {u} /\ u \notin InProgress
    BY <1>1, <1>5, IdentityAssumption DEF BeginUpload, InProgress
  <2>2. Cardinality(InProgress') = Cardinality(InProgress) + 1
    BY <2>1, InProgressFinite, FS_AddElement
  <2>3. limiter'.active = limiter.active + 1 /\ limiter'.count = limiter.count + 1
        /\ LimiterTyped' /\ limiter.active < Concurrent
    <3>1. limiter' = [limiter EXCEPT !.count = limiter.count + 1, !.active = limiter.active + 1]
          /\ limiter.active < Concurrent
      BY <1>5 DEF BeginUpload, Admit
    <3>2. limiter.count + 1 \in Nat /\ limiter.active + 1 \in Nat
      BY <1>1
    <3>3. QED
      BY <1>1, <3>1, <3>2 DEF LimiterTyped
  <2>4. UploadsTyped'
    BY <1>1, <1>5 DEF BeginUpload, UploadsTyped
  <2>5. QED
    BY <1>1, <1>2, <2>2, <2>3, <2>4, InProgressFinite
<1>6. ASSUME NEW u \in Uploads, uploads[u] # None, limiter' = Released,
             uploads' = [uploads EXCEPT ![u] = None]
      PROVE  /\ limiter'.active = Cardinality(InProgress') /\ limiter'.active <= Concurrent
             /\ LimiterTyped' /\ UploadsTyped'
  <2>1. InProgress' = InProgress \ {u} /\ u \in InProgress
    BY <1>1, <1>6 DEF InProgress
  <2>2. Cardinality(InProgress') = Cardinality(InProgress) - 1
    BY <2>1, InProgressFinite, FS_RemoveElement
  <2>3. Cardinality(InProgress) # 0
    BY <2>1, InProgressFinite, FS_EmptySet
  <2>4. limiter'.active = limiter.active - 1 /\ limiter.active - 1 \in Nat
    BY <1>1, <1>6, <2>3, InProgressFinite DEF Released
  <2>5. LimiterTyped'
    BY <1>1, <1>6, <2>4 DEF Released, LimiterTyped
  <2>6. UploadsTyped'
    BY <1>1, <1>6 DEF UploadsTyped
  <2>7. QED
    BY <1>1, <1>2, <2>2, <2>4, <2>5, <2>6, InProgressFinite
<1>7. ASSUME NewWindow
      PROVE  /\ limiter'.active = Cardinality(InProgress') /\ limiter'.active <= Concurrent
             /\ LimiterTyped' /\ UploadsTyped'
  <2>1. UNCHANGED uploads /\ limiter'.active = limiter.active /\ LimiterTyped'
    BY <1>1, <1>7 DEF NewWindow, LimiterTyped
  <2>2. QED
    BY <1>4, <2>1
<1>8. ASSUME UNCHANGED <<uploads, limiter>>
      PROVE  /\ limiter'.active = Cardinality(InProgress') /\ limiter'.active <= Concurrent
             /\ LimiterTyped' /\ UploadsTyped'
  BY <1>1, <1>4, <1>8 DEF LimiterTyped
<1>9. QED
  BY <1>5, <1>6, <1>7, <1>8
  DEF Next, FailUpload, StoreUpload, Claim, Work, Complete, Fail, Lose, Look, Retry, Commit,
      Discard, Overdue, RecordingOverdue, CleanupDraft, CleanupRecording, LeaseExpires,
      LeaseOverrun, BackoffEnds, tables, vars

-----------------------------------------------------------------------------
(* Types *)

\* A row that replaces another keeps the table typed.
LEMMA RowTyped ==
  ASSUME TypeOK, NEW d \in Drafts
  PROVE  /\ \A draft \in Draft : drafts' = [drafts EXCEPT ![d] = draft] => DraftsTyped'
         /\ \A recording \in Recording :
              /\ recording.leased => recording.holder # None
              /\ recordings' = [recordings EXCEPT ![d] = recording]
              => RecordingsTyped'
BY DEF TypeOK, DraftsTyped, RecordingsTyped

\* Claims, transcripts and failures.
LEMMA WorkTyped ==
  ASSUME TypeOK, NEW w \in Workers,
         (\E d \in Drafts : Claim(w, d)) \/ Work(w) \/ Lose(w)
  PROVE  DraftsTyped' /\ RecordingsTyped' /\ WorkersTyped' /\ HistoryTyped' /\ faults' \in Nat
<1>0. /\ drafts \in [Drafts -> Draft] /\ recordings \in [Drafts -> Recording]
      /\ workers \in [Workers -> [draft : Drafts \cup {None}, claim : Nat]]
      /\ history \in [Drafts -> [claims : Nat, intakes : Nat]] /\ faults \in Nat
  BY DEF TypeOK
<1>1. UNCHANGED tables => DraftsTyped' /\ RecordingsTyped'
  BY TypeParts DEF tables, DraftsTyped, RecordingsTyped
<1>2. Finish(w) => WorkersTyped'
  BY <1>0 DEF Finish, Idle, WorkersTyped
<1>3. UNCHANGED history => HistoryTyped'
  BY <1>0 DEF HistoryTyped
<1>4. ASSUME NEW d \in Drafts, Claim(w, d)
      PROVE  DraftsTyped' /\ RecordingsTyped' /\ WorkersTyped' /\ HistoryTyped' /\ faults' \in Nat
  <2> DEFINE recording == [recordings[d] EXCEPT !.holder = w, !.leased = TRUE,
                                                !.attempts = recordings[d].attempts + 1]
             draft == [drafts[d] EXCEPT !.status = "transcribing", !.version =
                         drafts[d].version + IF drafts[d].status = "recorded" THEN 1 ELSE 0]
  <2>0. /\ recordings[d] \in Recording /\ drafts[d] \in Draft
        /\ recordings[d].attempts < MaxAttempts
    BY <1>0, <1>4 DEF Claim, Claimable
  <2>1. /\ recordings[d].attempts + 1 \in 0 .. MaxAttempts /\ recordings[d].manual \in 0 .. MaxRetries
        /\ DOMAIN recordings[d]
             = {"key", "holder", "leased", "ready", "attempts", "manual", "overdue"}
    BY <2>0, RecordingFields, LimitAssumption
  <2>2. recording \in Recording /\ recording.holder # None
    <3>1. recording \in Recording
      BY <2>0, <2>1, RecordingChanged
    <3>2. recording.holder = w
      BY <2>1
    <3>3. QED
      BY <3>1, <3>2, IdentityAssumption
  <2>3. draft \in Draft
    <3>1. drafts[d].version + (IF drafts[d].status = "recorded" THEN 1 ELSE 0) \in Nat
      BY <2>0, DraftFields
    <3>2. "transcribing" \in Statuses /\ 0 \in Nat
      BY DEF Statuses
    <3>3. QED
      BY <2>0, <3>1, <3>2, DraftChanged
  <2>4. recordings' = [recordings EXCEPT ![d] = recording] /\ drafts' = [drafts EXCEPT ![d] = draft]
    BY <1>4 DEF Claim
  <2>5. WorkersTyped' /\ HistoryTyped' /\ faults' \in Nat
    <3>1. history[d].claims + 1 \in Nat
      BY <1>0
    <3>2. workers' = [workers EXCEPT ![w] = [draft |-> d, claim |-> history[d].claims + 1]]
          /\ history' = [history EXCEPT ![d].claims = history[d].claims + 1] /\ UNCHANGED faults
      BY <1>4 DEF Claim
    <3>3. QED
      BY <1>0, <3>1, <3>2 DEF WorkersTyped, HistoryTyped
  <2> HIDE DEF recording, draft
  <2>6. QED
    BY <2>2, <2>3, <2>4, <2>5, RowTyped
<1>5. ASSUME Complete(w)
      PROVE  DraftsTyped' /\ RecordingsTyped' /\ WorkersTyped' /\ HistoryTyped' /\ faults' \in Nat
  <2>1. WorkersTyped' /\ HistoryTyped' /\ faults' \in Nat
    BY <1>0, <1>2, <1>3, <1>5 DEF Complete
  <2>2. CASE UNCHANGED tables
    BY <1>1, <2>1, <2>2
  <2>3. CASE ~UNCHANGED tables
    <3> DEFINE d == workers[w].draft
               draft == [drafts[d] EXCEPT !.status = "needs_review", !.text = workers[w].claim,
                                          !.version = drafts[d].version + 1]
    <3>1. d \in Drafts
      BY <1>0, <1>5 DEF Complete
    <3>2. recordings' = [recordings EXCEPT ![d] = Free(d)]
      BY <1>5, <2>3 DEF Complete
    <3>3. Free(d) \in Recording /\ ~Free(d).leased
      BY <3>1, FreeTyped
    <3>4. draft \in Draft
      <4>1. drafts[d] \in Draft /\ workers[w].claim \in Nat /\ "needs_review" \in Statuses
        BY <1>0, <3>1 DEF Statuses
      <4>2. drafts[d].version + 1 \in Nat
        BY <4>1, DraftFields
      <4>3. QED
        BY <4>1, <4>2, DraftChanged
    <3>5. drafts' = drafts \/ drafts' = [drafts EXCEPT ![d] = draft]
      BY <1>5, <2>3 DEF Complete
    <3> HIDE DEF d, draft
    <3>6. RecordingsTyped'
      BY <3>1, <3>2, <3>3, RowTyped
    <3>7. DraftsTyped'
      BY <1>0, <3>1, <3>4, <3>5, RowTyped DEF DraftsTyped
    <3>8. QED
      BY <2>1, <3>6, <3>7
  <2>4. QED
    BY <2>2, <2>3
<1>6. ASSUME NEW retry \in BOOLEAN, Fail(w, retry)
      PROVE  DraftsTyped' /\ RecordingsTyped' /\ WorkersTyped' /\ HistoryTyped' /\ faults' \in Nat
  <2>1. WorkersTyped' /\ HistoryTyped' /\ faults' \in Nat
    BY <1>0, <1>2, <1>3, <1>6 DEF Fail
  <2>2. CASE UNCHANGED tables
    BY <1>1, <2>1, <2>2
  <2>3. CASE ~UNCHANGED tables
    <3> DEFINE d == workers[w].draft
               attempts == IF retry THEN recordings[d].attempts ELSE MaxAttempts
               recording == [Free(d) EXCEPT !.attempts = attempts, !.ready = Free(d).ready /\ ~retry]
               draft == [drafts[d] EXCEPT !.version = drafts[d].version + 1, !.status =
                           IF attempts < MaxAttempts THEN "recorded" ELSE "failed"]
    <3>1. d \in Drafts
      BY <1>0, <1>6 DEF Fail
    <3>2. recordings' = [recordings EXCEPT ![d] = recording]
      BY <1>6, <2>3 DEF Fail
    <3>3. /\ recordings[d] \in Recording /\ drafts[d] \in Draft
          /\ Free(d) \in Recording /\ ~Free(d).leased
      BY <1>0, <3>1, FreeTyped
    <3>a. attempts \in 0 .. MaxAttempts
      BY <3>3, RecordingFields, LimitAssumption
    <3>4. recording \in Recording /\ ~recording.leased
      <4>1. (Free(d).ready /\ ~retry) \in BOOLEAN /\ 0 \in 0 .. MaxRetries
        BY LimitAssumption
      <4>2. recording \in Recording
        <5> HIDE DEF attempts
        <5>1. QED
          BY <3>3, <3>a, <4>1, RecordingChanged
      <4>3. recording.leased = Free(d).leased
        BY <3>3, RecordingFields
      <4>4. QED
        BY <3>3, <4>2, <4>3
    <3>5. draft \in Draft
      <4>1. (IF attempts < MaxAttempts THEN "recorded" ELSE "failed") \in Statuses
        BY DEF Statuses
      <4>2. drafts[d].version + 1 \in Nat
        BY <3>3, DraftFields
      <4>3. [drafts[d] EXCEPT !.status = IF attempts < MaxAttempts THEN "recorded" ELSE "failed",
                              !.version = drafts[d].version + 1] \in Draft
        <5> HIDE DEF attempts
        <5>1. QED
          BY <3>3, <4>1, <4>2, DraftChanged
      <4>4. draft = [drafts[d] EXCEPT !.status = IF attempts < MaxAttempts THEN "recorded" ELSE "failed",
                                      !.version = drafts[d].version + 1]
        BY <3>3 DEF Draft
      <4>5. QED
        BY <4>3, <4>4
    <3>6. drafts' = drafts \/ drafts' = [drafts EXCEPT ![d] = draft]
      BY <1>6, <2>3 DEF Fail
    <3> HIDE DEF d, draft, recording
    <3>7. RecordingsTyped'
      BY <3>1, <3>2, <3>4, RowTyped
    <3>8. DraftsTyped'
      BY <1>0, <3>1, <3>5, <3>6, RowTyped DEF DraftsTyped
    <3>9. QED
      BY <2>1, <3>7, <3>8
  <2>4. QED
    BY <2>2, <2>3
<1>7. ASSUME Lose(w)
      PROVE  DraftsTyped' /\ RecordingsTyped' /\ WorkersTyped' /\ HistoryTyped' /\ faults' \in Nat
  BY <1>0, <1>1, <1>2, <1>3, <1>7 DEF Lose, Fault
<1>8. QED
  BY <1>4, <1>5, <1>6, <1>7 DEF Work

\* The user: looking, retrying, committing and discarding.
LEMMA UserTyped ==
  ASSUME TypeOK,
         \/ \E p \in Pages : (\E d \in Drafts : Look(p, d)) \/ Retry(p) \/ Commit(p)
         \/ \E d \in Drafts : Discard(d) \/ CleanupDraft(d)
  PROVE  DraftsTyped' /\ RecordingsTyped' /\ PagesTyped' /\ HistoryTyped'
<1>0. /\ drafts \in [Drafts -> Draft] /\ recordings \in [Drafts -> Recording]
      /\ pages \in [Pages -> [draft : Drafts \cup {None}, version : Nat]]
      /\ history \in [Drafts -> [claims : Nat, intakes : Nat]]
  BY DEF TypeOK
<1>1. /\ UNCHANGED drafts => DraftsTyped'
      /\ UNCHANGED recordings => RecordingsTyped'
      /\ UNCHANGED pages => PagesTyped'
      /\ UNCHANGED history => HistoryTyped'
  BY TypeParts DEF DraftsTyped, RecordingsTyped, PagesTyped, HistoryTyped
<1>2. ASSUME NEW d \in Drafts, NEW status \in {"committed", "expired"}
      PROVE  Cleared(drafts[d], status) \in Draft
  <2>1. drafts[d] \in Draft /\ status \in Statuses /\ 0 \in Nat
    BY <1>0, <1>2 DEF Statuses
  <2>2. drafts[d].version + 1 \in Nat
    BY <2>1, DraftFields
  <2>3. QED
    BY <2>1, <2>2, DraftChanged DEF Cleared
<1>3. ASSUME NEW p \in Pages, NEW d \in Drafts, Look(p, d)
      PROVE  DraftsTyped' /\ RecordingsTyped' /\ PagesTyped' /\ HistoryTyped'
  <2>1. drafts[d].version \in Nat
    BY <1>0 DEF Draft
  <2>2. PagesTyped'
    BY <1>0, <1>3, <2>1 DEF Look, PagesTyped
  <2>3. QED
    BY <1>1, <1>3, <2>2 DEF Look, tables
<1>4. ASSUME NEW p \in Pages, Retry(p)
      PROVE  DraftsTyped' /\ RecordingsTyped' /\ PagesTyped' /\ HistoryTyped'
  <2> DEFINE d == pages[p].draft
             recording == [Free(d) EXCEPT !.attempts = 0, !.manual = Free(d).manual + 1,
                                          !.ready = TRUE]
             draft == [drafts[d] EXCEPT !.status = "recorded", !.version = drafts[d].version + 1]
  <2>1. d \in Drafts /\ recordings[d].manual < MaxRetries
    BY <1>0, <1>4 DEF Retry, Shows, MayRetry
  <2>2. Free(d) \in Recording /\ ~Free(d).leased /\ Free(d).manual = recordings[d].manual
    BY <2>1, FreeTyped
  <2>3. Free(d).manual + 1 \in 0 .. MaxRetries /\ 0 \in 0 .. MaxAttempts
    BY <2>1, <2>2, RecordingFields, LimitAssumption
  <2>4. recording \in Recording /\ ~recording.leased
    <3>1. recording \in Recording
      BY <2>2, <2>3, RecordingChanged
    <3>2. recording.leased = Free(d).leased
      BY <2>2, RecordingFields
    <3>3. QED
      BY <2>2, <3>1, <3>2
  <2>5. draft \in Draft
    <3>1. drafts[d] \in Draft /\ "recorded" \in Statuses /\ 0 \in Nat
      BY <1>0, <2>1 DEF Statuses
    <3>2. drafts[d].version + 1 \in Nat
      BY <3>1, DraftFields
    <3>3. QED
      BY <3>1, <3>2, DraftChanged
  <2>6. /\ recordings' = [recordings EXCEPT ![d] = recording]
        /\ drafts' = [drafts EXCEPT ![d] = draft]
        /\ UNCHANGED <<pages, history>>
    BY <1>4 DEF Retry
  <2> HIDE DEF d, recording, draft
  <2>7. QED
    BY <1>1, <2>1, <2>4, <2>5, <2>6, RowTyped
<1>5. ASSUME NEW p \in Pages, Commit(p)
      PROVE  DraftsTyped' /\ RecordingsTyped' /\ PagesTyped' /\ HistoryTyped'
  <2>1. pages[p].draft \in Drafts
    BY <1>0, <1>5 DEF Commit, Reviewable, Shows
  <2>2. HistoryTyped'
    BY <1>0, <1>5, <2>1 DEF Commit, HistoryTyped
  <2>3. drafts' = [drafts EXCEPT ![pages[p].draft] = Cleared(drafts[pages[p].draft], "committed")]
    BY <1>5 DEF Commit
  <2>4. QED
    BY <1>1, <1>2, <1>5, <2>1, <2>2, <2>3, RowTyped DEF Commit
<1>6. ASSUME NEW d \in Drafts, Discard(d) \/ CleanupDraft(d)
      PROVE  DraftsTyped' /\ RecordingsTyped' /\ PagesTyped' /\ HistoryTyped'
  <2>1. drafts' = [drafts EXCEPT ![d] = Cleared(drafts[d], "expired")]
    BY <1>6 DEF Discard, CleanupDraft
  <2>2. QED
    BY <1>1, <1>2, <1>6, <2>1, RowTyped DEF Discard, CleanupDraft
<1>7. QED
  BY <1>3, <1>4, <1>5, <1>6

\* Uploads that are stored, and time.
LEMMA TimeTyped ==
  ASSUME TypeOK,
         \/ \E u \in Uploads : StoreUpload(u)
         \/ \E d \in Drafts : \/ Overdue(d) \/ RecordingOverdue(d) \/ CleanupRecording(d)
                              \/ LeaseExpires(d) \/ LeaseOverrun(d) \/ BackoffEnds(d)
  PROVE  DraftsTyped' /\ RecordingsTyped' /\ faults' \in Nat
<1>0. /\ drafts \in [Drafts -> Draft] /\ recordings \in [Drafts -> Recording] /\ faults \in Nat
      /\ uploads \in [Uploads -> Keys \cup {None}]
      /\ \A d \in Drafts : recordings[d].leased => recordings[d].holder # None
  BY DEF TypeOK
<1>1. /\ UNCHANGED drafts => DraftsTyped'
      /\ UNCHANGED recordings => RecordingsTyped'
  BY TypeParts DEF DraftsTyped, RecordingsTyped
<1>2. ASSUME NEW u \in Uploads, StoreUpload(u)
      PROVE  DraftsTyped' /\ RecordingsTyped' /\ faults' \in Nat
  <2>1. CASE UNCHANGED tables
    BY <1>0, <1>1, <1>2, <2>1 DEF tables, StoreUpload
  <2>2. ASSUME NEW d \in Drafts,
               drafts' = [drafts EXCEPT ![d].status = "recorded", ![d].version = 1],
               recordings' = [recordings EXCEPT ![d].key = uploads[u], ![d].ready = TRUE]
        PROVE  DraftsTyped' /\ RecordingsTyped'
    <3> DEFINE draft == [drafts[d] EXCEPT !.status = "recorded", !.version = 1]
               recording == [recordings[d] EXCEPT !.key = uploads[u], !.ready = TRUE]
    <3>1. draft \in Draft
      <4>1. drafts[d] \in Draft /\ "recorded" \in Statuses /\ 1 \in Nat
        BY <1>0 DEF Statuses
      <4>2. QED
        BY <4>1, DraftChanged
    <3>2. recording \in Recording /\ (recording.leased => recording.holder # None)
      <4>1. /\ recordings[d] \in Recording /\ uploads[u] \in Keys \cup {None}
            /\ 0 \in 0 .. MaxAttempts /\ 0 \in 0 .. MaxRetries
        BY <1>0, LimitAssumption
      <4>2. recording \in Recording
        BY <4>1, RecordingChanged
      <4>3. recording.leased = recordings[d].leased /\ recording.holder = recordings[d].holder
        BY <4>1, RecordingFields
      <4>4. QED
        BY <1>0, <4>2, <4>3
    <3>3. /\ drafts' = [drafts EXCEPT ![d] = draft]
          /\ recordings' = [recordings EXCEPT ![d] = recording]
      BY <2>2
    <3> HIDE DEF draft, recording
    <3>4. QED
      BY <3>1, <3>2, <3>3, RowTyped
  <2>3. QED
    BY <1>0, <1>2, <2>1, <2>2 DEF StoreUpload
<1>3. ASSUME NEW d \in Drafts, Overdue(d)
      PROVE  DraftsTyped' /\ RecordingsTyped' /\ faults' \in Nat
  <2> DEFINE draft == [drafts[d] EXCEPT !.overdue = TRUE]
  <2>1. draft \in Draft
    <3>1. drafts[d] \in Draft /\ "none" \in Statuses /\ 0 \in Nat
      BY <1>0 DEF Statuses
    <3>2. QED
      BY <3>1, DraftChanged
  <2>2. drafts' = [drafts EXCEPT ![d] = draft] /\ UNCHANGED <<recordings, faults>>
    BY <1>3 DEF Overdue
  <2> HIDE DEF draft
  <2>3. QED
    BY <1>0, <1>1, <2>1, <2>2, RowTyped
<1>4. ASSUME NEW d \in Drafts, UNCHANGED drafts, faults' \in Nat,
             \/ recordings' = [recordings EXCEPT ![d].overdue = TRUE]
             \/ recordings' = [recordings EXCEPT ![d].ready = TRUE]
             \/ recordings' = [recordings EXCEPT ![d].leased = FALSE]
      PROVE  DraftsTyped' /\ RecordingsTyped' /\ faults' \in Nat
  <2>1. /\ recordings[d] \in Recording /\ TRUE \in BOOLEAN
        /\ 0 \in 0 .. MaxAttempts /\ 0 \in 0 .. MaxRetries
    BY <1>0, LimitAssumption
  <2>2. PICK recording :
          /\ recordings' = [recordings EXCEPT ![d] = recording]
          /\ \/ recording = [recordings[d] EXCEPT !.overdue = TRUE]
             \/ recording = [recordings[d] EXCEPT !.ready = TRUE]
             \/ recording = [recordings[d] EXCEPT !.leased = FALSE]
    BY <1>4
  <2>3. recording \in Recording
    BY <2>1, <2>2, RecordingChanged
  <2>4. /\ recording.leased => recordings[d].leased
        /\ recording.holder = recordings[d].holder
    BY <2>1, <2>2, RecordingFields
  <2>5. QED
    BY <1>0, <1>1, <1>4, <2>2, <2>3, <2>4, RowTyped
<1>5. ASSUME NEW d \in Drafts,
             RecordingOverdue(d) \/ BackoffEnds(d) \/ LeaseExpires(d) \/ LeaseOverrun(d)
      PROVE  DraftsTyped' /\ RecordingsTyped' /\ faults' \in Nat
  BY <1>0, <1>4, <1>5
  DEF RecordingOverdue, BackoffEnds, LeaseExpires, LeaseOverrun, Expire, Fault
<1>6. ASSUME NEW d \in Drafts, CleanupRecording(d)
      PROVE  DraftsTyped' /\ RecordingsTyped' /\ faults' \in Nat
  <2>1. NoRecording \in Recording /\ ~NoRecording.leased
    <3>1. 0 \in 0 .. MaxAttempts /\ 0 \in 0 .. MaxRetries
      BY LimitAssumption
    <3>2. QED
      BY <3>1 DEF NoRecording, Recording
  <2>2. QED
    BY <1>0, <1>1, <1>6, <2>1, RowTyped DEF CleanupRecording
<1>7. QED
  BY <1>2, <1>3, <1>4, <1>5, <1>6

\* Every step keeps the types.
LEMMA TypeStep == TypeOK /\ LimiterExact /\ [Next]_vars => TypeOK'
<1> SUFFICES ASSUME TypeOK, LimiterExact, [Next]_vars PROVE TypeOK'
  OBVIOUS
<1>1. LimiterTyped' /\ UploadsTyped'
  BY LimiterStep
<1>2. /\ UNCHANGED drafts => DraftsTyped'
      /\ UNCHANGED recordings => RecordingsTyped'
      /\ UNCHANGED pages => PagesTyped'
      /\ UNCHANGED workers => WorkersTyped'
      /\ UNCHANGED history => HistoryTyped'
      /\ UNCHANGED faults => faults' \in Nat
  BY TypeParts DEF DraftsTyped, RecordingsTyped, PagesTyped, WorkersTyped, HistoryTyped
<1>3. ASSUME NEW w \in Workers, (\E d \in Drafts : Claim(w, d)) \/ Work(w) \/ Lose(w)
      PROVE  TypeOK'
  <2>1. UNCHANGED pages
    BY <1>3 DEF Claim, Work, Complete, Fail, Lose
  <2>2. QED
    BY <1>1, <1>2, <1>3, <2>1, WorkTyped, TypePartsNext
<1>4. ASSUME \/ \E p \in Pages : (\E d \in Drafts : Look(p, d)) \/ Retry(p) \/ Commit(p)
             \/ \E d \in Drafts : Discard(d) \/ CleanupDraft(d)
      PROVE  TypeOK'
  <2>1. UNCHANGED <<workers, faults>>
    BY <1>4 DEF Look, Retry, Commit, Discard, CleanupDraft
  <2>2. QED
    BY <1>1, <1>2, <1>4, <2>1, UserTyped, TypePartsNext
<1>5. ASSUME \/ \E u \in Uploads : StoreUpload(u)
             \/ \E d \in Drafts : \/ Overdue(d) \/ RecordingOverdue(d) \/ CleanupRecording(d)
                                  \/ LeaseExpires(d) \/ LeaseOverrun(d) \/ BackoffEnds(d)
      PROVE  TypeOK'
  <2>1. UNCHANGED <<pages, workers, history>>
    BY <1>5 DEF StoreUpload, Overdue, RecordingOverdue, CleanupRecording, LeaseExpires,
                LeaseOverrun, BackoffEnds
  <2>2. QED
    BY <1>1, <1>2, <1>5, <2>1, TimeTyped, TypePartsNext
<1>6. ASSUME UNCHANGED <<drafts, recordings, pages, workers, history, faults>> PROVE TypeOK'
  BY <1>1, <1>2, <1>6, TypePartsNext
<1>7. QED
  BY <1>3, <1>4, <1>5, <1>6 DEF Next, BeginUpload, FailUpload, NewWindow, tables, vars

-----------------------------------------------------------------------------
(* One draft *)

\* The draft knows whether it became a customer, job and waiting-list entry.
IntakesSound(d) == history[d].intakes = IF drafts[d].status = "committed" THEN 1 ELSE 0

\* The text of a draft under review, and none otherwise.
TextSound(d) ==
  /\ drafts[d].status = "needs_review" <=> drafts[d].text # 0
  /\ drafts[d].text # 0 => drafts[d].text = history[d].claims

\* Claims are paid for by attempts, and by earlier rounds of attempts.
ClaimsSound(d) ==
  /\ Stored(d) =>
       history[d].claims <= MaxAttempts * recordings[d].manual + recordings[d].attempts
  /\ history[d].claims <= MaxAttempts * (1 + MaxRetries)
  /\ drafts[d].status = "none" => history[d].claims = 0

\* A worker with a lease has made the latest claim.
LeaseSound(d) ==
  \A w \in Workers :
    workers[w].draft = d /\ HoldsLease(w, d) =>
      workers[w].claim = history[d].claims /\ workers[w].claim # 0

DraftSound(d) == IntakesSound(d) /\ TextSound(d) /\ ClaimsSound(d) /\ LeaseSound(d)

\* The rows of a draft have their types.
LEMMA RowsTyped ==
  ASSUME TypeOK, NEW d \in Drafts
  PROVE  /\ drafts \in [Drafts -> Draft] /\ drafts[d] \in Draft
         /\ recordings \in [Drafts -> Recording] /\ recordings[d] \in Recording
         /\ history \in [Drafts -> [claims : Nat, intakes : Nat]]
         /\ history[d] \in [claims : Nat, intakes : Nat]
         /\ workers \in [Workers -> [draft : Drafts \cup {None}, claim : Nat]]
BY DEF TypeOK

\* A draft that a step is not about stays sound.
LEMMA Untouched ==
  ASSUME NEW d \in Drafts, DraftSound(d),
         drafts'[d] = drafts[d], recordings'[d] = recordings[d], history'[d] = history[d],
         \A w \in Workers : workers'[w].draft = d => workers'[w] = workers[w]
  PROVE  DraftSound(d)'
BY DEF DraftSound, IntakesSound, TextSound, ClaimsSound, LeaseSound, Stored, HoldsLease

\* A round of attempts pays for one more round.
LEMMA Rounds ==
  ASSUME NEW m \in 0 .. MaxRetries, NEW a \in 0 .. MaxAttempts
  PROVE  /\ MaxAttempts * m \in Nat
         /\ MaxAttempts * (m + 1) = MaxAttempts * m + MaxAttempts
         /\ MaxAttempts * m + a <= MaxAttempts * (1 + MaxRetries)
<1>1. MaxAttempts \in Nat /\ MaxRetries \in Nat /\ m \in Nat /\ a \in Nat /\ m <= MaxRetries
      /\ a <= MaxAttempts
  BY LimitAssumption
<1>2. MaxAttempts * m \in Nat /\ MaxAttempts * (m + 1) = MaxAttempts * m + MaxAttempts
  BY <1>1
<1>3. MaxAttempts * (1 + MaxRetries) = MaxAttempts * m + MaxAttempts * (1 + MaxRetries - m)
  BY <1>1
<1>4. PICK k \in Nat : MaxRetries - m = k
  BY <1>1
<1>5. /\ MaxAttempts * (1 + k) = MaxAttempts + MaxAttempts * k /\ MaxAttempts * k \in Nat
      /\ 1 + MaxRetries - m = 1 + k
  BY <1>1, <1>4
<1>6. MaxAttempts * (1 + MaxRetries) = MaxAttempts * m + MaxAttempts + MaxAttempts * k
  BY <1>1, <1>2, <1>3, <1>5
<1>7. QED
  BY <1>1, <1>2, <1>5, <1>6

\* A claim is paid for by the attempt it counts.
LEMMA ClaimSound ==
  ASSUME TypeOK, NEW d \in Drafts, DraftSound(d), NEW w \in Workers, Claim(w, d)
  PROVE  DraftSound(d)'
<1> DEFINE claims == history[d].claims
           attempts == recordings[d].attempts
           manual == recordings[d].manual
<1>1. /\ drafts'[d].status = "transcribing" /\ drafts'[d].text = drafts[d].text
      /\ recordings'[d].attempts = attempts + 1 /\ recordings'[d].manual = manual
      /\ recordings'[d].holder = w
      /\ history'[d].claims = claims + 1 /\ history'[d].intakes = history[d].intakes
      /\ workers' = [workers EXCEPT ![w] = [draft |-> d, claim |-> claims + 1]]
  BY RowsTyped, DraftFields, RecordingFields DEF Claim
<1>2. /\ drafts[d].status \in {"recorded", "transcribing"}
      /\ Stored(d) /\ attempts < MaxAttempts
  BY DEF Claim, Claimable
<1>3. claims \in Nat /\ attempts \in 0 .. MaxAttempts /\ manual \in 0 .. MaxRetries
  BY RowsTyped, RecordingFields
<1>4. IntakesSound(d)' /\ TextSound(d)'
  BY <1>1, <1>2 DEF DraftSound, IntakesSound, TextSound
<1>5. ClaimsSound(d)'
  <2>1. attempts + 1 \in 0 .. MaxAttempts
    BY <1>2, <1>3, LimitAssumption
  <2>2. claims <= MaxAttempts * manual + attempts /\ MaxAttempts * manual \in Nat
    BY <1>2, <1>3, Rounds DEF DraftSound, ClaimsSound
  <2>3. claims + 1 <= MaxAttempts * manual + (attempts + 1)
    BY <1>3, <2>1, <2>2
  <2>4. MaxAttempts * manual + (attempts + 1) <= MaxAttempts * (1 + MaxRetries)
    BY <1>3, <2>1, Rounds
  <2>5. MaxAttempts * (1 + MaxRetries) \in Nat
    BY LimitAssumption
  <2>6. claims + 1 <= MaxAttempts * (1 + MaxRetries)
    BY <1>3, <2>1, <2>2, <2>3, <2>4, <2>5
  <2>7. QED
    BY <1>1, <2>3, <2>6 DEF ClaimsSound
<1>6. LeaseSound(d)'
  <2> SUFFICES ASSUME NEW v \in Workers, workers'[v].draft = d, HoldsLease(v, d)'
               PROVE  workers'[v].claim = history'[d].claims /\ workers'[v].claim # 0
    BY DEF LeaseSound
  <2>1. v = w
    BY <1>1 DEF HoldsLease
  <2>2. workers'[v] = [draft |-> d, claim |-> claims + 1]
    BY <1>1, <2>1, RowsTyped
  <2>3. QED
    BY <1>1, <1>3, <2>2
<1>7. QED
  BY <1>4, <1>5, <1>6 DEF DraftSound

\* What a worker brings back reaches the draft only with the lease of the latest claim.
LEMMA CompleteSound ==
  ASSUME TypeOK, NEW d \in Drafts, DraftSound(d), NEW w \in Workers, Complete(w),
         workers[w].draft = d
  PROVE  DraftSound(d)'
<1>1. UNCHANGED history /\ workers' = [workers EXCEPT ![w] = Idle]
  BY DEF Complete, Finish
<1>2. \A v \in Workers : workers'[v].draft = d => workers'[v] = workers[v]
  BY <1>1, RowsTyped, IdentityAssumption DEF Idle
<1>3. CASE UNCHANGED tables
  BY <1>1, <1>2, <1>3, Untouched DEF tables
<1>4. CASE ~UNCHANGED tables
  <2>1. HoldsLease(w, d) /\ recordings' = [recordings EXCEPT ![d] = Free(d)]
    BY <1>4 DEF Complete
  <2>2. /\ recordings'[d].holder = None /\ recordings'[d].attempts = recordings[d].attempts
        /\ recordings'[d].manual = recordings[d].manual /\ Stored(d)
    BY <2>1, RowsTyped, RecordingFields DEF Free, HoldsLease
  <2>3. workers[w].claim = history[d].claims /\ workers[w].claim # 0
    BY <2>1 DEF DraftSound, LeaseSound
  <2>4. \/ drafts'[d] = drafts[d]
        \/ /\ drafts[d].status = "transcribing"
           /\ drafts'[d].status = "needs_review" /\ drafts'[d].text = workers[w].claim
    BY <1>4, <2>1, RowsTyped, DraftFields DEF Complete, Transcribing
  <2>5. IntakesSound(d)' /\ TextSound(d)'
    BY <1>1, <2>3, <2>4 DEF DraftSound, IntakesSound, TextSound
  <2>6. ClaimsSound(d)'
    BY <1>1, <2>2, <2>4 DEF DraftSound, ClaimsSound
  <2>7. LeaseSound(d)'
    BY <2>2, IdentityAssumption DEF LeaseSound, HoldsLease
  <2>8. QED
    BY <2>5, <2>6, <2>7 DEF DraftSound
<1>5. QED
  BY <1>3, <1>4

LEMMA FailSound ==
  ASSUME TypeOK, NEW d \in Drafts, DraftSound(d), NEW w \in Workers, NEW retry \in BOOLEAN,
         Fail(w, retry), workers[w].draft = d
  PROVE  DraftSound(d)'
<1> DEFINE attempts == IF retry THEN recordings[d].attempts ELSE MaxAttempts
<1>1. UNCHANGED history /\ workers' = [workers EXCEPT ![w] = Idle]
  BY DEF Fail, Finish
<1>2. \A v \in Workers : workers'[v].draft = d => workers'[v] = workers[v]
  BY <1>1, RowsTyped, IdentityAssumption DEF Idle
<1>3. CASE UNCHANGED tables
  BY <1>1, <1>2, <1>3, Untouched DEF tables
<1>4. CASE ~UNCHANGED tables
  <2>1. /\ HoldsLease(w, d) /\ Stored(d)
        /\ recordings' = [recordings EXCEPT ![d] =
                            [Free(d) EXCEPT !.attempts = attempts, !.ready = @ /\ ~retry]]
    BY <1>4 DEF Fail, HoldsLease
  <2>2. /\ recordings'[d].holder = None /\ recordings'[d].attempts = attempts
        /\ recordings'[d].manual = recordings[d].manual
    <3>1. DOMAIN Free(d)
           = {"key", "holder", "leased", "ready", "attempts", "manual", "overdue"}
      BY FreeTyped, RecordingFields
    <3>2. Free(d).holder = None /\ Free(d).manual = recordings[d].manual
      BY RowsTyped, RecordingFields DEF Free
    <3> HIDE DEF attempts
    <3>3. QED
      BY <2>1, <3>1, <3>2, RowsTyped
  <2>3. recordings[d].attempts <= attempts
    BY RowsTyped, RecordingFields, LimitAssumption
  <2>4. \/ drafts'[d] = drafts[d]
        \/ /\ drafts[d].status = "transcribing"
           /\ drafts'[d].status \in {"recorded", "failed"} /\ drafts'[d].text = drafts[d].text
    BY <1>4, <2>1, RowsTyped, DraftFields DEF Fail, Transcribing
  <2>5. IntakesSound(d)' /\ TextSound(d)'
    BY <1>1, <2>4 DEF DraftSound, IntakesSound, TextSound
  <2>6. ClaimsSound(d)'
    <3>1. /\ history[d].claims \in Nat /\ recordings[d].manual \in 0 .. MaxRetries
          /\ recordings[d].attempts \in 0 .. MaxAttempts
      BY RowsTyped, RecordingFields
    <3>2. /\ attempts \in 0 .. MaxAttempts /\ MaxAttempts * recordings[d].manual \in Nat
      BY <3>1, Rounds, LimitAssumption
    <3>3. history[d].claims <= MaxAttempts * recordings[d].manual + recordings[d].attempts
      BY <2>1 DEF DraftSound, ClaimsSound
    <3> HIDE DEF attempts
    <3>4. history[d].claims <= MaxAttempts * recordings[d].manual + attempts
      BY <2>3, <3>1, <3>2, <3>3
    <3>5. QED
      BY <1>1, <2>2, <2>4, <3>4 DEF DraftSound, ClaimsSound
  <2>7. LeaseSound(d)'
    BY <2>2, IdentityAssumption DEF LeaseSound, HoldsLease
  <2>8. QED
    BY <2>5, <2>6, <2>7 DEF DraftSound
<1>5. QED
  BY <1>3, <1>4

\* A retry by hand begins another round.
LEMMA RetrySound ==
  ASSUME TypeOK, NEW d \in Drafts, DraftSound(d), NEW p \in Pages, Retry(p), pages[p].draft = d
  PROVE  DraftSound(d)'
<1>1. /\ drafts[d].status = "failed" /\ Stored(d) /\ UNCHANGED <<workers, history>>
      /\ recordings' = [recordings EXCEPT ![d] =
                          [Free(d) EXCEPT !.attempts = 0, !.manual = @ + 1, !.ready = TRUE]]
      /\ drafts' = [drafts EXCEPT ![d].status = "recorded", ![d].version = @ + 1]
  BY DEF Retry, Shows
<1>2. drafts'[d].status = "recorded" /\ drafts'[d].text = drafts[d].text
  BY <1>1, RowsTyped, DraftFields
<1>3. /\ recordings'[d].holder = None /\ recordings'[d].attempts = 0
      /\ recordings'[d].manual = recordings[d].manual + 1
  <2>1. DOMAIN Free(d)
         = {"key", "holder", "leased", "ready", "attempts", "manual", "overdue"}
    BY FreeTyped, RecordingFields
  <2>2. Free(d).holder = None /\ Free(d).manual = recordings[d].manual
    BY RowsTyped, RecordingFields DEF Free
  <2>3. QED
    BY <1>1, <2>1, <2>2, RowsTyped
<1>4. IntakesSound(d)' /\ TextSound(d)'
  BY <1>1, <1>2 DEF DraftSound, IntakesSound, TextSound
<1>5. ClaimsSound(d)'
  <2>1. /\ history[d].claims \in Nat /\ recordings[d].manual \in 0 .. MaxRetries
        /\ recordings[d].attempts \in 0 .. MaxAttempts
    BY RowsTyped, RecordingFields
  <2>2. /\ MaxAttempts * recordings[d].manual \in Nat /\ MaxAttempts \in Nat
        /\ MaxAttempts * (recordings[d].manual + 1)
             = MaxAttempts * recordings[d].manual + MaxAttempts
    BY <2>1, Rounds, LimitAssumption
  <2>3. history[d].claims <= MaxAttempts * recordings[d].manual + recordings[d].attempts
    BY <1>1 DEF DraftSound, ClaimsSound
  <2>4. history[d].claims <= MaxAttempts * (recordings[d].manual + 1) + 0
    BY <2>1, <2>2, <2>3
  <2>5. QED
    BY <1>1, <1>2, <1>3, <2>4 DEF DraftSound, ClaimsSound
<1>6. LeaseSound(d)'
  BY <1>3, IdentityAssumption DEF LeaseSound, HoldsLease
<1>7. QED
  BY <1>4, <1>5, <1>6 DEF DraftSound

\* A draft that changes its status and loses its text; only what is reviewed is committed.
LEMMA ClearedSound ==
  ASSUME TypeOK, NEW d \in Drafts, DraftSound(d), NEW status \in {"committed", "expired"},
         drafts[d].status \notin {"none", "committed", "expired"},
         drafts' = [drafts EXCEPT ![d] = Cleared(@, status)],
         UNCHANGED <<recordings, workers>>,
         history' = IF status = "committed" THEN [history EXCEPT ![d].intakes = @ + 1]
                    ELSE history
  PROVE  DraftSound(d)'
<1>1. drafts'[d].status = status /\ drafts'[d].text = 0
  BY RowsTyped, DraftFields DEF Cleared
<1>2. /\ history'[d].claims = history[d].claims
      /\ history'[d].intakes = IF status = "committed" THEN history[d].intakes + 1
                               ELSE history[d].intakes
  BY RowsTyped
<1>3. QED
  BY <1>1, <1>2
  DEF DraftSound, IntakesSound, TextSound, ClaimsSound, LeaseSound, Stored, HoldsLease

\* Steps of time change nothing that is counted, and give no lease.
LEMMA TimeSound ==
  ASSUME TypeOK, NEW d \in Drafts, DraftSound(d), UNCHANGED <<workers, history>>,
         drafts'[d].status = drafts[d].status, drafts'[d].text = drafts[d].text,
         \/ recordings'[d] = NoRecording
         \/ /\ Stored(d) \/ recordings'[d] = recordings[d]
            /\ recordings'[d].attempts = recordings[d].attempts
            /\ recordings'[d].manual = recordings[d].manual
            /\ recordings'[d].holder = recordings[d].holder
            /\ recordings'[d].leased => recordings[d].leased
  PROVE  DraftSound(d)'
<1>1. IntakesSound(d)' /\ TextSound(d)'
  BY DEF DraftSound, IntakesSound, TextSound
<1>2. ClaimsSound(d)'
  BY DEF DraftSound, ClaimsSound, Stored
<1>3. LeaseSound(d)'
  BY DEF DraftSound, LeaseSound, HoldsLease, Stored
<1>4. QED
  BY <1>1, <1>2, <1>3 DEF DraftSound

-----------------------------------------------------------------------------
(* Every step *)

\* A step about one draft leaves the others alone.
LEMMA Others ==
  ASSUME TypeOK, NEW d \in Drafts, DraftSound(d), NEW e \in Drafts, e # d, UNCHANGED workers,
         \/ UNCHANGED drafts
         \/ \E draft : drafts' = [drafts EXCEPT ![e] = draft],
         \/ UNCHANGED recordings
         \/ \E recording : recordings' = [recordings EXCEPT ![e] = recording],
         \/ UNCHANGED history
         \/ \E record : history' = [history EXCEPT ![e] = record]
  PROVE  DraftSound(d)'
<1>1. drafts'[d] = drafts[d] /\ recordings'[d] = recordings[d] /\ history'[d] = history[d]
  BY RowsTyped
<1>2. QED
  BY <1>1, Untouched

LEMMA WorkSound ==
  ASSUME TypeOK, NEW d \in Drafts, DraftSound(d), NEW w \in Workers,
         (\E e \in Drafts : Claim(w, e)) \/ Work(w) \/ Lose(w)
  PROVE  DraftSound(d)'
<1>1. ASSUME NEW e \in Drafts, Claim(w, e) PROVE DraftSound(d)'
  <2>1. CASE e = d
    BY <1>1, <2>1, ClaimSound
  <2>2. CASE e # d
    <3>1. drafts'[d] = drafts[d] /\ recordings'[d] = recordings[d] /\ history'[d] = history[d]
      BY <1>1, <2>2, RowsTyped DEF Claim
    <3>2. workers' = [workers EXCEPT ![w] = [draft |-> e, claim |-> history[e].claims + 1]]
      BY <1>1 DEF Claim
    <3>3. \A v \in Workers : workers'[v].draft = d => workers'[v] = workers[v]
      BY <2>2, <3>2, RowsTyped
    <3>4. QED
      BY <3>1, <3>3, Untouched
  <2>3. QED
    BY <2>1, <2>2
<1>2. ASSUME Finish(w), drafts'[d] = drafts[d], recordings'[d] = recordings[d],
             history'[d] = history[d]
      PROVE  DraftSound(d)'
  <2>1. \A v \in Workers : workers'[v].draft = d => workers'[v] = workers[v]
    BY <1>2, RowsTyped, IdentityAssumption DEF Finish, Idle
  <2>2. QED
    BY <1>2, <2>1, Untouched
<1>3. ASSUME Complete(w) PROVE DraftSound(d)'
  <2>1. CASE workers[w].draft = d
    BY <1>3, <2>1, CompleteSound
  <2>2. CASE workers[w].draft # d
    <3>1. drafts'[d] = drafts[d] /\ recordings'[d] = recordings[d] /\ history'[d] = history[d]
      BY <1>3, <2>2, RowsTyped DEF Complete, tables
    <3>2. QED
      BY <1>2, <1>3, <3>1 DEF Complete
  <2>3. QED
    BY <2>1, <2>2
<1>4. ASSUME NEW retry \in BOOLEAN, Fail(w, retry) PROVE DraftSound(d)'
  <2>1. CASE workers[w].draft = d
    BY <1>4, <2>1, FailSound
  <2>2. CASE workers[w].draft # d
    <3>1. drafts'[d] = drafts[d] /\ recordings'[d] = recordings[d] /\ history'[d] = history[d]
      BY <1>4, <2>2, RowsTyped DEF Fail, tables
    <3>2. QED
      BY <1>2, <1>4, <3>1 DEF Fail
  <2>3. QED
    BY <2>1, <2>2
<1>5. ASSUME Lose(w) PROVE DraftSound(d)'
  BY <1>2, <1>5 DEF Lose, tables
<1>6. QED
  BY <1>1, <1>3, <1>4, <1>5 DEF Work

LEMMA UserSound ==
  ASSUME TypeOK, NEW d \in Drafts, DraftSound(d),
         \/ \E p \in Pages : (\E e \in Drafts : Look(p, e)) \/ Retry(p) \/ Commit(p)
         \/ \E e \in Drafts : Discard(e) \/ CleanupDraft(e)
  PROVE  DraftSound(d)'
<1>1. ASSUME NEW p \in Pages, NEW e \in Drafts, Look(p, e) PROVE DraftSound(d)'
  BY <1>1, Untouched DEF Look, tables
<1>2. ASSUME NEW p \in Pages, Retry(p) PROVE DraftSound(d)'
  <2>1. pages[p].draft \in Drafts
    BY <1>2 DEF Retry, Shows, TypeOK
  <2>2. CASE pages[p].draft = d
    BY <1>2, <2>2, RetrySound
  <2>3. CASE pages[p].draft # d
    <3>1. drafts'[d] = drafts[d] /\ recordings'[d] = recordings[d] /\ UNCHANGED <<workers, history>>
      BY <1>2, <2>3, RowsTyped DEF Retry
    <3>2. QED
      BY <3>1, Untouched
  <2>4. QED
    BY <2>2, <2>3
<1>3. ASSUME NEW p \in Pages, Commit(p) PROVE DraftSound(d)'
  <2>1. /\ drafts[pages[p].draft].status = "needs_review" /\ UNCHANGED <<recordings, workers>>
        /\ drafts' = [drafts EXCEPT ![pages[p].draft] = Cleared(@, "committed")]
        /\ history' = [history EXCEPT ![pages[p].draft].intakes = @ + 1]
    BY <1>3 DEF Commit, Reviewable, Shows
  <2>2. CASE pages[p].draft = d
    BY <2>1, <2>2, ClearedSound
  <2>3. CASE pages[p].draft # d
    <3>1. drafts'[d] = drafts[d] /\ history'[d] = history[d]
      BY <2>1, <2>3, RowsTyped
    <3>2. QED
      BY <2>1, <3>1, Untouched
  <2>4. QED
    BY <2>2, <2>3
<1>4. ASSUME NEW e \in Drafts, Discard(e) \/ CleanupDraft(e) PROVE DraftSound(d)'
  <2>1. /\ drafts[e].status \notin {"none", "committed", "expired"}
        /\ UNCHANGED <<recordings, workers, history>>
        /\ drafts' = [drafts EXCEPT ![e] = Cleared(@, "expired")]
    BY <1>4 DEF Discard, CleanupDraft, Unfinished
  <2>2. CASE e = d
    BY <2>1, <2>2, ClearedSound
  <2>3. CASE e # d
    BY <2>1, <2>3, Others
  <2>4. QED
    BY <2>2, <2>3
<1>5. QED
  BY <1>1, <1>2, <1>3, <1>4

\* What is stored for an upload is a draft no one claimed or committed.
LEMMA StoredSound ==
  ASSUME TypeOK, NEW d \in Drafts, DraftSound(d), NEW u \in Uploads, StoreUpload(u)
  PROVE  DraftSound(d)'
<1>1. CASE UNCHANGED tables
  BY <1>1, Untouched DEF StoreUpload, tables
<1>2. ASSUME NEW e \in Drafts, drafts[e] = NoDraft,
             drafts' = [drafts EXCEPT ![e].status = "recorded", ![e].version = 1],
             recordings' = [recordings EXCEPT ![e].key = uploads[u], ![e].ready = TRUE]
      PROVE  DraftSound(d)'
  <2>1. UNCHANGED <<workers, history>>
    BY DEF StoreUpload
  <2>2. CASE e # d
    <3>1. drafts'[d] = drafts[d] /\ recordings'[d] = recordings[d]
      BY <1>2, <2>2, RowsTyped
    <3>2. QED
      BY <2>1, <3>1, Untouched
  <2>3. CASE e = d
    <3>1. /\ drafts[d].status = "none" /\ drafts[d].text = 0
          /\ drafts'[d].status = "recorded" /\ drafts'[d].text = 0
      BY <1>2, <2>3, RowsTyped, DraftFields DEF NoDraft
    <3>2. /\ recordings'[d].attempts = recordings[d].attempts
          /\ recordings'[d].manual = recordings[d].manual
          /\ recordings'[d].holder = recordings[d].holder
          /\ recordings'[d].leased = recordings[d].leased
      BY <1>2, <2>3, RowsTyped, RecordingFields
    <3>3. IntakesSound(d)' /\ TextSound(d)'
      BY <2>1, <3>1 DEF DraftSound, IntakesSound, TextSound
    <3>4. ClaimsSound(d)'
      <4>1. history[d].claims = 0
        BY <3>1 DEF DraftSound, ClaimsSound
      <4>2. /\ MaxAttempts * recordings[d].manual \in Nat /\ recordings[d].attempts \in Nat
        BY RowsTyped, RecordingFields, Rounds, LimitAssumption
      <4>3. 0 <= MaxAttempts * recordings[d].manual + recordings[d].attempts
        BY <4>2
      <4>4. QED
        BY <2>1, <3>1, <3>2, <4>1, <4>3 DEF DraftSound, ClaimsSound
    <3>5. LeaseSound(d)'
      <4> SUFFICES ASSUME NEW w \in Workers, workers[w].draft = d, HoldsLease(w, d)'
                   PROVE  workers[w].claim = history[d].claims /\ workers[w].claim # 0
        BY <2>1 DEF LeaseSound
      <4>1. HoldsLease(w, d)
        BY <3>2 DEF HoldsLease, Stored, NoRecording
      <4>2. QED
        BY <4>1 DEF DraftSound, LeaseSound
    <3>6. QED
      BY <3>3, <3>4, <3>5 DEF DraftSound
  <2>4. QED
    BY <2>2, <2>3
<1>3. QED
  BY <1>1, <1>2 DEF StoreUpload

LEMMA ClockSound ==
  ASSUME TypeOK, NEW d \in Drafts, DraftSound(d), NEW e \in Drafts,
         \/ Overdue(e) \/ RecordingOverdue(e) \/ CleanupRecording(e)
         \/ LeaseExpires(e) \/ LeaseOverrun(e) \/ BackoffEnds(e)
  PROVE  DraftSound(d)'
<1>1. UNCHANGED <<workers, history>>
  BY DEF Overdue, RecordingOverdue, CleanupRecording, LeaseExpires, LeaseOverrun, BackoffEnds
<1>2. drafts'[d].status = drafts[d].status /\ drafts'[d].text = drafts[d].text
  BY RowsTyped, DraftFields
  DEF Overdue, RecordingOverdue, CleanupRecording, LeaseExpires, LeaseOverrun, BackoffEnds
<1>3. recordings[e].leased => Stored(e)
  BY DEF Stored, NoRecording
<1>4. \/ UNCHANGED recordings
      \/ recordings' = [recordings EXCEPT ![e] = NoRecording]
      \/ /\ Stored(e)
         /\ \/ recordings' = [recordings EXCEPT ![e].overdue = TRUE]
            \/ recordings' = [recordings EXCEPT ![e].ready = TRUE]
            \/ recordings' = [recordings EXCEPT ![e].leased = FALSE]
  BY <1>3
  DEF Overdue, RecordingOverdue, CleanupRecording, LeaseExpires, LeaseOverrun, BackoffEnds, Expire
<1>5. \/ recordings'[d] = NoRecording
      \/ /\ Stored(d) \/ recordings'[d] = recordings[d]
         /\ recordings'[d].attempts = recordings[d].attempts
         /\ recordings'[d].manual = recordings[d].manual
         /\ recordings'[d].holder = recordings[d].holder
         /\ recordings'[d].leased => recordings[d].leased
  <2>1. CASE e # d
    <3>1. recordings'[d] = recordings[d]
      BY <1>4, <2>1, RowsTyped
    <3>2. QED
      BY <3>1
  <2>2. CASE UNCHANGED recordings \/ recordings' = [recordings EXCEPT ![d] = NoRecording]
    BY <2>2, RowsTyped
  <2>3. ASSUME Stored(d), \/ recordings' = [recordings EXCEPT ![d].overdue = TRUE]
                          \/ recordings' = [recordings EXCEPT ![d].ready = TRUE]
                          \/ recordings' = [recordings EXCEPT ![d].leased = FALSE]
        PROVE  /\ recordings'[d].attempts = recordings[d].attempts
               /\ recordings'[d].manual = recordings[d].manual
               /\ recordings'[d].holder = recordings[d].holder
               /\ recordings'[d].leased => recordings[d].leased
    <3>1. /\ recordings'[d].attempts = recordings[d].attempts
          /\ recordings'[d].manual = recordings[d].manual
          /\ recordings'[d].holder = recordings[d].holder
      BY <2>3, RowsTyped, RecordingFields
    <3>2. CASE recordings' = [recordings EXCEPT ![d].leased = FALSE]
      <4>1. recordings'[d].leased = FALSE
        BY <3>2, RowsTyped, RecordingFields
      <4>2. QED
        BY <3>1, <4>1
    <3>3. CASE \/ recordings' = [recordings EXCEPT ![d].overdue = TRUE]
               \/ recordings' = [recordings EXCEPT ![d].ready = TRUE]
      <4>1. recordings'[d].leased = recordings[d].leased
        BY <3>3, RowsTyped, RecordingFields
      <4>2. QED
        BY <3>1, <4>1
    <3>4. QED
      BY <2>3, <3>2, <3>3
  <2>4. QED
    BY <1>4, <2>1, <2>2, <2>3
<1>6. QED
  BY <1>1, <1>2, <1>5, TimeSound

-----------------------------------------------------------------------------
(* The invariant and what follows from it *)

VoiceInv == TypeOK /\ LimiterExact /\ \A d \in Drafts : DraftSound(d)

LEMMA InitSound == Init => VoiceInv
<1> SUFFICES ASSUME Init PROVE VoiceInv
  OBVIOUS
<1>1. 0 \in 0 .. MaxAttempts /\ 0 \in 0 .. MaxRetries /\ Concurrent \in Nat /\ MaxAttempts \in Nat
      /\ MaxRetries \in Nat
  BY LimitAssumption
<1>2. NoRecording \in Recording /\ NoDraft \in Draft
  BY <1>1 DEF NoRecording, Recording, NoDraft, Draft
<1>3. TypeOK
  BY <1>2 DEF Init, TypeOK, NoRecording, Idle
<1>4. LimiterExact
  <2>1. {u \in Uploads : uploads[u] # None} = {}
    BY DEF Init
  <2>2. limiter.active = 0
    BY DEF Init
  <2>3. QED
    BY <1>1, <2>1, <2>2, FS_EmptySet DEF LimiterExact
<1>5. ASSUME NEW d \in Drafts PROVE DraftSound(d)
  <2>1. /\ drafts[d] = NoDraft /\ recordings[d] = NoRecording
        /\ history[d] = [claims |-> 0, intakes |-> 0]
        /\ \A w \in Workers : workers[w].draft = None
    BY <1>5 DEF Init, Idle
  <2>2. MaxAttempts * (1 + MaxRetries) \in Nat
    BY <1>1
  <2>3. ClaimsSound(d)
    BY <2>1, <2>2 DEF ClaimsSound, Stored
  <2>4. IntakesSound(d) /\ TextSound(d) /\ LeaseSound(d)
    BY <2>1, IdentityAssumption DEF IntakesSound, TextSound, LeaseSound, NoDraft
  <2>5. QED
    BY <2>3, <2>4 DEF DraftSound
<1>6. QED
  BY <1>3, <1>4, <1>5 DEF VoiceInv

LEMMA StepSound == VoiceInv /\ [Next]_vars => VoiceInv'
<1> SUFFICES ASSUME VoiceInv, [Next]_vars PROVE VoiceInv'
  OBVIOUS
<1>1. TypeOK /\ LimiterExact /\ \A d \in Drafts : DraftSound(d)
  BY DEF VoiceInv
<1>2. TypeOK' /\ LimiterExact'
  BY <1>1, TypeStep, LimiterStep
<1>3. ASSUME NEW d \in Drafts PROVE DraftSound(d)'
  <2>1. ASSUME UNCHANGED <<drafts, recordings, workers, history>> PROVE DraftSound(d)'
    BY <1>1, <2>1, Untouched
  <2>2. ASSUME \E u \in Uploads : StoreUpload(u) PROVE DraftSound(d)'
    BY <1>1, <2>2, StoredSound
  <2>3. ASSUME \E w \in Workers : (\E e \in Drafts : Claim(w, e)) \/ Work(w) \/ Lose(w)
        PROVE  DraftSound(d)'
    BY <1>1, <2>3, WorkSound
  <2>4. ASSUME \/ \E p \in Pages : (\E e \in Drafts : Look(p, e)) \/ Retry(p) \/ Commit(p)
               \/ \E e \in Drafts : Discard(e) \/ CleanupDraft(e)
        PROVE  DraftSound(d)'
    BY <1>1, <2>4, UserSound
  <2>5. ASSUME NEW e \in Drafts, \/ Overdue(e) \/ RecordingOverdue(e) \/ CleanupRecording(e)
                                 \/ LeaseExpires(e) \/ LeaseOverrun(e) \/ BackoffEnds(e)
        PROVE  DraftSound(d)'
    BY <1>1, <2>5, ClockSound
  <2>6. QED
    BY <2>1, <2>2, <2>3, <2>4, <2>5 DEF Next, BeginUpload, FailUpload, NewWindow, tables, vars
<1>4. QED
  BY <1>2, <1>3 DEF VoiceInv

LEMMA VoiceInvariant == Spec => []VoiceInv
  BY InitSound, StepSound, PTL DEF Spec

\* Every variable keeps its type, and a lease always has a holder.
THEOREM VoiceTypeCorrect == Spec => []TypeOK
<1>1. VoiceInv => TypeOK
  BY DEF VoiceInv
<1>2. QED
  BY <1>1, VoiceInvariant, PTL

\* However uploads are begun, refused, lost and stored, the limiter counts those in
\* progress, and there are never more than a user may have.
THEOREM LimiterAlwaysExact == Spec => []LimiterExact
<1>1. VoiceInv => LimiterExact
  BY DEF VoiceInv
<1>2. QED
  BY <1>1, VoiceInvariant, PTL

\* What is under review is the text of the latest claim, however many workers
\* overran their leases or lost their results.
THEOREM TextAlwaysOfLatestClaim == Spec => []TextIsOfLatestClaim
<1>1. VoiceInv => TextIsOfLatestClaim
  BY DEF VoiceInv, DraftSound, TextSound, TextIsOfLatestClaim
<1>2. QED
  BY <1>1, VoiceInvariant, PTL

\* A recording becomes at most one customer, job and waiting-list entry, from
\* however many pages it is committed.
THEOREM OneIntakeAlways == Spec => []OneIntakePerDraft
<1>1. VoiceInv => OneIntakePerDraft
  BY DEF VoiceInv, DraftSound, IntakesSound, OneIntakePerDraft
<1>2. QED
  BY <1>1, VoiceInvariant, PTL

\* The transcriber is called at most as often as attempts and retries by hand
\* allow, crashes and overrun leases included.
THEOREM TranscriptionsAlwaysBounded == Spec => []TranscriptionsBounded
<1>1. VoiceInv => TranscriptionsBounded
  BY DEF VoiceInv, DraftSound, ClaimsSound, TranscriptionsBounded
<1>2. QED
  BY <1>1, VoiceInvariant, PTL
=============================================================================
