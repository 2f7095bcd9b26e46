--------------------------- MODULE WebTab_proofs ---------------------------
(***************************************************************************)
(* A tab of the web application, for any number of submissions, requests,  *)
(* storage faults, changes, sessions and outlets: forms that send a        *)
(* request again, and the rows in the query cache.                         *)
(***************************************************************************)
EXTENDS RetryClient, WebCache, TLAPS

(* Keys whose request may still have, or has had, an effect.               *)
Open == row \cup late \cup ({waiting} \ {NoKey})

(* Late requests count as rows: of two keys of one intention one was given *)
(* up, also after the intention has ended.                                 *)
OneOpenPerIntention ==
    \A j, k \in Open :
        j # k /\ intentOf[j] = intentOf[k] => j \in forsaken \/ k \in forsaken

(* The submission that is being sent is the saved one, only an error of    *)
(* the storage separates the page from it, and what is saved of an earlier *)
(* intention was carried out.                                              *)
SavedInv ==
    /\ waiting # NoKey => saved = waiting
    /\ pending = NoKey /\ saved # NoKey => storageError
    /\ saved # NoKey /\ saved \notin row => intentOf[saved] = intention

(* When a refusal is shown, nothing of the intention is on its way either. *)
RefusalInv ==
    page = "workspace" /\ notice = "failed" =>
        \A k \in row \cup late : intentOf[k] = intention => k \in forsaken

RetryInv ==
    /\ RetryTypeOK /\ UnsettledIsSaved /\ OneOpenPerIntention
    /\ SavedInv /\ RefusalInv
-----------------------------------------------------------------------------
(* The counters start within their bounds and a fault stays within its     *)
(* own.                                                                    *)
LEMMA Counters ==
    /\ 0 \in 0..MaxSends /\ 0 \in 0..MaxStorageFaults
    /\ \A n \in 0..MaxSends : n < MaxSends => n + 1 \in 0..MaxSends
    /\ \A n \in 0..MaxStorageFaults :
         n < MaxStorageFaults => n + 1 \in 0..MaxStorageFaults
  <1>1. MaxSends \in Nat /\ MaxStorageFaults \in Nat
    BY RetryConstants
  <1> QED BY <1>1

(* Nothing has been sent.                                                  *)
LEMMA RetryInvInit == RetryInit => RetryInv
  <1> SUFFICES ASSUME RetryInit PROVE RetryInv
    OBVIOUS
  <1>1. RetryTypeOK
    <2>1. intentOf \in [SubmissionKeys -> 0..intention] /\ intention \in Nat
      BY DEF RetryInit
    <2>2. bodyOf \in [SubmissionKeys -> Bodies \cup {NoBody}]
      BY DEF RetryInit
    <2> QED BY <2>1, <2>2, Counters DEF RetryInit, RetryTypeOK
  <1>2. UnsettledIsSaved /\ OneOpenPerIntention /\ SavedInv /\ RefusalInv
    BY DEF RetryInit, UnsettledIsSaved, OneOpenPerIntention, Open, SavedInv,
           RefusalInv
  <1> QED BY <1>1, <1>2 DEF RetryInv

(* What both ways to send a submission have in common.                     *)
LEMMA SentAgain ==
    ASSUME RetryInv, NEW k, k = pending, pending # NoKey, sendAgain(k),
           waiting = NoKey, UNCHANGED <<page, form, storedVars, intention>>
    PROVE  RetryInv'
  <1> USE DEF RetryInv
  <1>1. k = saved /\ k \in Used
    BY DEF RetryTypeOK
  <1>2. RetryTypeOK'
    BY <1>1, Counters
    DEF RetryTypeOK, sendAgain, send, storedVars, Used
  <1>3. UnsettledIsSaved' /\ OneOpenPerIntention'
    <2>1. Open' \subseteq Open \cup {k}
      BY DEF Open, sendAgain, send, storedVars
    <2>2. \A j \in Open : j # k /\ intentOf[j] = intention => j \in forsaken
      BY <1>1 DEF UnsettledIsSaved, Open
    <2>3. k \notin Open => intentOf[k] = intention
      <3>1. k # NoKey
        OBVIOUS
      <3> QED BY <1>1, <3>1 DEF SavedInv, Open
    <2>4. UnsettledIsSaved'
      BY <1>1, <2>1, <2>2
      DEF UnsettledIsSaved, Open, sendAgain, send, storedVars
    <2>5. OneOpenPerIntention'
      BY <2>1, <2>2, <2>3 DEF OneOpenPerIntention, sendAgain
    <2> QED BY <2>4, <2>5
  <1>4. SavedInv' /\ RefusalInv'
    BY <1>1 DEF SavedInv, RefusalInv, sendAgain, send, RetryTypeOK,
                storedVars
  <1> QED BY <1>2, <1>3, <1>4

(* A fresh key is alone: what else of the intention is open is given up.   *)
LEMMA SentFresh ==
    ASSUME RetryInv, sendFresh, Submittable,
           UNCHANGED <<page, form, storedVars, intention>>
    PROVE  RetryInv'
  <1> USE DEF RetryInv
  <1>1. PICK k \in SubmissionKeys :
          /\ bodyOf[k] = NoBody
          /\ bodyOf' = [bodyOf EXCEPT ![k] = form]
          /\ intentOf' = [intentOf EXCEPT ![k] = intention]
          /\ forsaken' = forsaken \cup ({pending} \cap (row \cup late))
          /\ send(k)
    BY DEF sendFresh
  <1>2. k \notin Used /\ k # NoKey /\ form \in Bodies /\ waiting = NoKey
    BY <1>1, RetryConstants DEF Used, Submittable, RetryTypeOK
  <1>3. RetryTypeOK'
    <2>1. Used' = Used \cup {k}
      BY <1>1, <1>2, RetryConstants DEF Used, RetryTypeOK
    <2>2. bodyOf' \in [SubmissionKeys -> Bodies \cup {NoBody}]
      BY <1>1, <1>2 DEF RetryTypeOK
    <2>3. intentOf' \in [SubmissionKeys -> 0..intention]
      BY <1>1 DEF RetryTypeOK
    <2>4. sends' \in 0..MaxSends
      BY <1>1, Counters DEF send, RetryTypeOK
    <2> QED
      BY <1>1, <2>1, <2>2, <2>3, <2>4 DEF RetryTypeOK, send, storedVars
  <1>4. saved # NoKey => pending = saved
    <2>1. ~storageError
      BY DEF Submittable
    <2> QED BY <2>1 DEF SavedInv, RetryTypeOK
  <1>5. \A j \in row \cup late :
          j # k /\ (intentOf[j] = intention => j \in forsaken')
    <2> SUFFICES ASSUME NEW j \in row \cup late
                 PROVE  j # k /\ (intentOf[j] = intention => j \in forsaken')
      OBVIOUS
    <2>1. j \in Used
      BY DEF RetryTypeOK
    <2>2. j # NoKey
      BY <2>1, RetryConstants DEF Used
    <2> QED
      BY <1>1, <1>2, <1>4, <2>1, <2>2 DEF UnsettledIsSaved
  <1>6. /\ Open' = row \cup late \cup {k}
        /\ \A j \in row \cup late : intentOf'[j] = intentOf[j]
        /\ intentOf'[k] = intention
    BY <1>1, <1>2, <1>5 DEF Open, send, storedVars, RetryTypeOK
  <1>7. UnsettledIsSaved'
    BY <1>1, <1>2, <1>5, <1>6 DEF UnsettledIsSaved, send, storedVars
  <1>8. OneOpenPerIntention'
    BY <1>1, <1>2, <1>5, <1>6 DEF OneOpenPerIntention, Open
  <1>9. SavedInv' /\ RefusalInv'
    BY <1>1, <1>2, <1>6 DEF SavedInv, RefusalInv, send
  <1> QED BY <1>3, <1>7, <1>8, <1>9

(* Nothing is sent when the storage throws.                                *)
LEMMA NotSent ==
    ASSUME RetryInv, notSaved, UNCHANGED <<page, form, storedVars, intention>>
    PROVE  RetryInv'
  <1> USE DEF RetryInv
  <1>1. RetryTypeOK'
    BY Counters DEF RetryTypeOK, notSaved, storedVars, Used
  <1>2. UnsettledIsSaved' /\ OneOpenPerIntention' /\ SavedInv' /\ RefusalInv'
    BY DEF UnsettledIsSaved, OneOpenPerIntention, Open, SavedInv, RefusalInv,
           notSaved, storedVars
  <1> QED BY <1>1, <1>2

(* An answer that ends the wait for key k.                                 *)
LEMMA WaitEnds ==
    ASSUME RetryInv, NEW k, waiting = k, k # NoKey
    PROVE  /\ saved = k /\ k \in Used /\ k \in SubmissionKeys /\ k \in Open
           /\ \A j \in Open : intentOf[j] = intention /\ j \notin forsaken
                                => j = k
  <1>1. saved = k /\ k \in Used
    BY DEF RetryInv, SavedInv, RetryTypeOK
  <1> QED
    BY <1>1 DEF RetryInv, UnsettledIsSaved, Open, Used

(* Every step preserves the invariant.                                     *)
LEMMA RetryInvNext == RetryInv /\ [RetryNext]_retryVars => RetryInv'
  <1> SUFFICES ASSUME RetryInv, [RetryNext]_retryVars PROVE RetryInv'
    OBVIOUS
  <1> USE DEF RetryInv
  <1>1. ASSUME NEW b \in Bodies, fillIn(b) PROVE RetryInv'
    <2>1. RetryTypeOK'
      BY <1>1 DEF fillIn, RetryTypeOK, Used, storedVars, intentVars
    <2> QED
      BY <1>1, <2>1 DEF fillIn, UnsettledIsSaved, OneOpenPerIntention, Open,
                        SavedInv, RefusalInv, storedVars, intentVars
  <1>2. CASE submit \/ submitReceipt
    <2>1. /\ UNCHANGED <<page, form, storedVars, intention>> /\ Submittable
          /\ sendFresh \/ notSaved
               \/ (pending # NoKey /\ sendAgain(pending))
      BY <1>2 DEF submit, submitReceipt
    <2>2. waiting = NoKey
      BY <2>1 DEF Submittable
    <2> QED
      BY <2>1, <2>2, SentAgain, SentFresh, NotSent
  <1>3. ASSUME NEW k \in SubmissionKeys, answered(k) PROVE RetryInv'
    <2>0. k # NoKey
      BY RetryConstants
    <2>1. /\ waiting = k /\ saved = k /\ k \in Used /\ k \in Open
      BY <1>3, <2>0, WaitEnds DEF answered
    <2>2. /\ row' = row \cup {k} /\ late' = late /\ waiting' = NoKey
          /\ intentOf' = intentOf /\ forsaken' = forsaken /\ bodyOf' = bodyOf
          /\ intention' = intention + 1 /\ notice' = "nothing"
          /\ form' = NoBody /\ pending' = NoKey /\ page' = page
          /\ sends' = sends
          /\ \/ /\ saved' = NoKey /\ storageError' = storageError
                /\ storageFaults' = storageFaults
             \/ /\ saved' = saved /\ storageError' = TRUE
                /\ storageFaults < MaxStorageFaults
                /\ storageFaults' = storageFaults + 1
      BY <1>3 DEF answered, Forget, Storage
    <2>3. RetryTypeOK'
      <3>1. intentOf' \in [SubmissionKeys -> 0..intention'] /\ intention' \in Nat
        <4>1. \A n \in 0..intention : n \in 0..(intention + 1)
          BY DEF RetryTypeOK
        <4> QED BY <2>2, <4>1 DEF RetryTypeOK
      <3>2. storageFaults' \in 0..MaxStorageFaults
        BY <2>2, Counters DEF RetryTypeOK
      <3> QED
        BY <2>1, <2>2, <3>1, <3>2 DEF RetryTypeOK, Used
    <2>4. Open' \subseteq Open
      BY <2>1, <2>2 DEF Open
    <2>5. UnsettledIsSaved' /\ RefusalInv'
      <3>1. \A j \in Open' : intentOf'[j] # intention'
        BY <2>2, <2>4, <2>3 DEF RetryTypeOK, Open, Used
      <3> QED
        BY <2>2, <3>1 DEF UnsettledIsSaved, RefusalInv, Open
    <2>6. OneOpenPerIntention'
      BY <2>2, <2>4 DEF OneOpenPerIntention
    <2>7. SavedInv'
      BY <2>1, <2>2 DEF SavedInv
    <2> QED BY <2>3, <2>5, <2>6, <2>7
  <1>4. ASSUME NEW k \in SubmissionKeys, waiting = k,
               row' \in {row, row \cup {k}}, late' \in {late, late \cup {k}},
               forsaken' = forsaken, waiting' = NoKey,
               notice' \in {"unknown", "failed"},
               page = "workspace" => notice' = "unknown",
               UNCHANGED <<page, form, bodyOf, intention, intentOf, sends,
                           saved, pending, storageError, storageFaults>>
        PROVE  RetryInv'
    <2>0. k # NoKey
      BY RetryConstants
    <2>1. saved = k /\ k \in Used /\ k \in Open
      BY <1>4, <2>0, WaitEnds
    <2>2. RetryTypeOK'
      BY <1>4, <2>1 DEF RetryTypeOK, Used
    <2>3. Open' \subseteq Open
      BY <1>4, <2>1 DEF Open
    <2>4. UnsettledIsSaved' /\ OneOpenPerIntention'
      BY <1>4, <2>3 DEF UnsettledIsSaved, OneOpenPerIntention, Open
    <2>5. SavedInv' /\ RefusalInv'
      BY <1>4 DEF SavedInv, RefusalInv
    <2> QED BY <2>2, <2>4, <2>5
  <1>5. ASSUME NEW k \in SubmissionKeys,
               requestDelayed(k) \/ answerLost(k, "network")
                 \/ answerLost(k, "5xx")
        PROVE  RetryInv'
    BY <1>4, <1>5 DEF requestDelayed, answerLost, onError, confirmedRejection
  <1>6. ASSUME NEW k \in SubmissionKeys, NEW s \in {"4xx", "409", "5xx"},
               turnedAway(k, s), ~(page = "workspace" /\ s = "4xx")
        PROVE  RetryInv'
    BY <1>4, <1>6 DEF turnedAway, onError, confirmedRejection, storedVars
  <1>7. ASSUME NEW k \in SubmissionKeys, turnedAway(k, "4xx"),
               page = "workspace"
        PROVE  RetryInv'
    <2>0. k # NoKey
      BY RetryConstants
    <2>1. /\ waiting = k /\ saved = k /\ k \in Used /\ k \in Open
          /\ \A j \in Open : intentOf[j] = intention /\ j \notin forsaken
                               => j = k
      BY <1>7, <2>0, WaitEnds DEF turnedAway
    <2>2. /\ row' = row /\ late' = late /\ waiting' = NoKey
          /\ intentOf' = intentOf /\ bodyOf' = bodyOf
          /\ forsaken' = forsaken \cup ({k} \cap (row \cup late))
          /\ intention' = intention /\ notice' = "failed"
          /\ form' = form /\ pending' = NoKey /\ page' = page
          /\ sends' = sends
          /\ \/ /\ saved' = NoKey /\ storageError' = storageError
                /\ storageFaults' = storageFaults
             \/ /\ saved' = saved /\ storageError' = TRUE
                /\ storageFaults < MaxStorageFaults
                /\ storageFaults' = storageFaults + 1
      BY <1>7 DEF turnedAway, onError, confirmedRejection, Forget, Storage,
                  storedVars
    <2>3. RetryTypeOK'
      BY <2>1, <2>2, Counters DEF RetryTypeOK, Used
    <2>4. Open' = row \cup late /\ Open' \subseteq Open
      BY <2>2 DEF Open
    <2>5. \A j \in Open' : intentOf'[j] = intention' => j \in forsaken'
      BY <2>1, <2>2, <2>4
    <2>6. UnsettledIsSaved' /\ RefusalInv'
      BY <2>2, <2>4, <2>5 DEF UnsettledIsSaved, RefusalInv
    <2>7. OneOpenPerIntention' /\ SavedInv'
      BY <2>2, <2>4 DEF OneOpenPerIntention, SavedInv
    <2> QED BY <2>3, <2>6, <2>7
  <1>8. ASSUME NEW k \in SubmissionKeys, lateArrives(k) PROVE RetryInv'
    <2>1. RetryTypeOK'
      BY <1>8 DEF lateArrives, formVars, intentVars, RetryTypeOK, Used
    <2>2. Open' \subseteq Open /\ row' \cup late' \subseteq row \cup late
      BY <1>8 DEF lateArrives, formVars, Open
    <2>3. UnsettledIsSaved' /\ OneOpenPerIntention' /\ SavedInv' /\ RefusalInv'
      BY <1>8, <2>2 DEF lateArrives, formVars, intentVars, UnsettledIsSaved,
                        OneOpenPerIntention, Open, SavedInv, RefusalInv
    <2> QED BY <2>1, <2>3
  <1>9. CASE reload
    <2>1. /\ waiting' = NoKey /\ late' = late \cup ({waiting} \ {NoKey})
          /\ UNCHANGED <<page, saved, bodyOf, row, intentOf, intention,
                         forsaken, sends>>
          /\ notice' \in {"nothing", "unknown"}
          /\ \/ /\ pending' = saved /\ storageError' = FALSE
                /\ form' = (IF saved = NoKey THEN NoBody ELSE bodyOf[saved])
                /\ storageFaults' = storageFaults
             \/ /\ pending' = NoKey /\ storageError' = TRUE
                /\ form' = NoBody
                /\ storageFaults < MaxStorageFaults
                /\ storageFaults' = storageFaults + 1
      BY <1>9 DEF reload, Storage, intentVars
    <2>2. form' \in Bodies \cup {NoBody}
      BY <2>1 DEF RetryTypeOK, Used
    <2>3. RetryTypeOK'
      BY <2>1, <2>2, Counters DEF RetryTypeOK, Used
    <2>4. Open' = Open
      BY <2>1 DEF Open
    <2>5. UnsettledIsSaved' /\ OneOpenPerIntention'
      BY <2>1, <2>4 DEF UnsettledIsSaved, OneOpenPerIntention, Open
    <2>6. SavedInv' /\ RefusalInv'
      BY <2>1 DEF SavedInv, RefusalInv
    <2> QED BY <2>3, <2>5, <2>6
  <1>10. CASE refetched
    <2>1. /\ UNCHANGED <<page, saved, waiting, bodyOf, row, late, intentOf,
                         intention, forsaken, sends>>
          /\ page = "order"
          /\ notice' \in {notice, "unknown"}
          /\ \/ /\ pending' = (IF saved = NoKey THEN pending ELSE saved)
                /\ form' = (IF saved = NoKey THEN form ELSE bodyOf[saved])
                /\ storageError' = storageError
                /\ storageFaults' = storageFaults
             \/ /\ pending' = pending /\ form' = form /\ storageError' = TRUE
                /\ storageFaults < MaxStorageFaults
                /\ storageFaults' = storageFaults + 1
      BY <1>10 DEF refetched, Restore, Storage, intentVars, storedVars
    <2>2. form' \in Bodies \cup {NoBody}
      BY <2>1 DEF RetryTypeOK, Used
    <2>3. RetryTypeOK'
      BY <2>1, <2>2, Counters DEF RetryTypeOK, Used
    <2>4. UnsettledIsSaved' /\ OneOpenPerIntention'
      BY <2>1 DEF UnsettledIsSaved, OneOpenPerIntention, Open
    <2>5. SavedInv' /\ RefusalInv'
      BY <2>1 DEF SavedInv, RefusalInv
    <2> QED BY <2>3, <2>4, <2>5
  <1>11. CASE UNCHANGED retryVars
    <2>1. RetryTypeOK'
      BY <1>11 DEF retryVars, formVars, storedVars, intentVars, RetryTypeOK,
                   Used
    <2> QED
      BY <1>11, <2>1 DEF retryVars, formVars, storedVars, intentVars,
         UnsettledIsSaved, OneOpenPerIntention, Open, SavedInv, RefusalInv
  <1>12. ASSUME NEW k \in SubmissionKeys,
                NEW s \in {"network", "4xx", "409", "5xx"},
                answerLost(k, s) \/ turnedAway(k, s)
         PROVE  RetryInv'
    BY <1>5, <1>6, <1>7, <1>12 DEF answerLost, turnedAway
  <1> QED
    BY <1>1, <1>2, <1>3, <1>5, <1>8, <1>9, <1>10, <1>11, <1>12 DEF RetryNext

(***************************************************************************)
(* For any number of submissions, lost answers, reloads and storage        *)
(* faults: what the user means once is stored once unless a key was given  *)
(* up, an unsettled request is in sessionStorage, and a failure that is    *)
(* shown is one.                                                           *)
(***************************************************************************)
THEOREM RetriesSafe == RetrySpec => []RetriesAreSafe
  <1>1. RetryInv => RetriesAreSafe
    <2> SUFFICES ASSUME RetryInv PROVE RetriesAreSafe
      OBVIOUS
    <2>1. OneRowPerIntention
      BY DEF RetryInv, OneOpenPerIntention, Open, OneRowPerIntention
    <2>2. FailedIsNotDone
      BY DEF RetryInv, RefusalInv, FailedIsNotDone
    <2> QED BY <2>1, <2>2 DEF RetryInv, RetriesAreSafe
  <1> QED BY <1>1, RetryInvInit, RetryInvNext, PTL DEF RetrySpec
-----------------------------------------------------------------------------
RowsType == [change : Nat, scope : Nat]

WebTypeInv ==
    /\ cached \in [rows : RowsType, invalid : BOOLEAN, aged : BOOLEAN,
                   failed : BOOLEAN]
    /\ fetch \in [at : {"idle", "sent", "refused", "back"}, rows : RowsType]
    /\ made \in Nat /\ actedIn \in Nat /\ scope \in Nat
    /\ signed \in {"in", "switching", "out"}
    /\ carried \in BOOLEAN

(* Unless rows were carried over, those in the cache and those on their    *)
(* way are of the scope of the moment, or the outlet is being changed; and *)
(* there are none while nobody is signed in.                               *)
ScopeInv ==
    ~carried =>
        /\ signed = "in" =>
             /\ cached.rows # NoRows => cached.rows.scope = scope
             /\ fetch.at = "back" => fetch.rows.scope = scope
        /\ signed = "out" =>
             cached = NotCached /\ fetch.at = "idle" /\ ~open

WebInv == WebTypeInv /\ ScopeInv

(* An empty cache and an idle or a new fetch have the types.               *)
LEMMA EmptyTyped ==
    /\ NotCached \in [rows : RowsType, invalid : BOOLEAN, aged : BOOLEAN,
                      failed : BOOLEAN]
    /\ NotCached.rows = NoRows /\ NoRows \in RowsType
    /\ \A r \in RowsType :
         LET n == [NotCached EXCEPT !.rows = r]
         IN  /\ n \in [rows : RowsType, invalid : BOOLEAN, aged : BOOLEAN,
                       failed : BOOLEAN]
             /\ n.rows = r
    /\ \A at \in {"idle", "sent", "refused", "back"} :
         /\ Fetch(at) \in [at : {"idle", "sent", "refused", "back"},
                           rows : RowsType]
         /\ Fetch(at).at = at
  BY DEF NotCached, NoRows, RowsType, Fetch

(* The cache is empty at the start.                                        *)
LEMMA WebInvInit == WebInit => WebInv
  <1> SUFFICES ASSUME WebInit PROVE WebInv
    OBVIOUS
  <1>1. WebTypeInv
    BY EmptyTyped DEF WebInit, WebStart, WebTypeInv
  <1>2. ScopeInv
    BY EmptyTyped DEF WebInit, WebStart, ScopeInv
  <1> QED BY <1>1, <1>2 DEF WebInv

(* A step that keeps the rows, or drops them, and sends or drops the       *)
(* fetch.                                                                  *)
LEMMA RowsKept ==
    ASSUME WebInv, UNCHANGED <<scope, signed, carried>>,
           cached' \in [rows : RowsType, invalid : BOOLEAN, aged : BOOLEAN,
                       failed : BOOLEAN],
           cached'.rows \in {cached.rows, NoRows},
           fetch' \in {fetch, Fetch("idle"), Fetch("sent"), Fetch("refused")},
           signed = "out" /\ ~carried =>
               /\ cached' = NotCached /\ ~open'
               /\ fetch' \in {fetch, Fetch("idle")},
           made' \in Nat, actedIn' \in Nat
    PROVE  WebInv'
  <1>1. WebTypeInv'
    BY EmptyTyped DEF WebInv, WebTypeInv
  <1>2. ScopeInv'
    BY EmptyTyped DEF WebInv, WebTypeInv, ScopeInv
  <1> QED BY <1>1, <1>2 DEF WebInv

(* Nothing but the rows of the query is touched by a flag of the cache.    *)
LEMMA FlagsTyped ==
    ASSUME WebTypeInv,
           cached' \in {[cached EXCEPT !.invalid = TRUE],
                       [cached EXCEPT !.aged = TRUE],
                       [cached EXCEPT !.failed = TRUE]}
    PROVE  /\ cached' \in [rows : RowsType, invalid : BOOLEAN, aged : BOOLEAN,
                           failed : BOOLEAN]
           /\ cached'.rows = cached.rows
  BY DEF WebTypeInv

(* Every step preserves the invariant.                                     *)
LEMMA WebInvNext == WebInv /\ [WebNext]_webVars => WebInv'
  <1> SUFFICES ASSUME WebInv, [WebNext]_webVars PROVE WebInv'
    OBVIOUS
  <1>0. WebTypeInv /\ cached \in [rows : RowsType, invalid : BOOLEAN,
                                  aged : BOOLEAN, failed : BOOLEAN]
    BY DEF WebInv, WebTypeInv
  <1>1. CASE openPage \/ refetchStale
    BY <1>0, <1>1, RowsKept
    DEF openPage, refetchStale, Sent, mutationVars, sessionStore, WebInv,
        WebTypeInv, ScopeInv
  <1>2. CASE closePage \/ submitPage \/ mutationFails
    BY <1>0, <1>2, RowsKept
    DEF closePage, submitPage, mutationFails, queryVars, mutationVars,
        sessionStore, WebInv, WebTypeInv, ScopeInv
  <1>3. CASE apply
    <2>1. made' \in Nat /\ actedIn' \in Nat
      BY <1>3 DEF apply, WebInv, WebTypeInv
    <2> QED
      BY <1>0, <1>3, <2>1, RowsKept
      DEF apply, queryVars, sessionStore, WebInv, WebTypeInv
  <1>4. CASE serve
    <2>1. signed # "out" /\ UNCHANGED <<cached, made, actedIn, sessionStore>>
      BY <1>4 DEF serve, mutationVars
    <2>2. CASE fetch' = Fetch("refused")
      BY <1>0, <2>1, <2>2, RowsKept DEF sessionStore, WebInv, WebTypeInv
    <2>3. CASE fetch' = [at |-> "back",
                         rows |-> [change |-> made, scope |-> scope]]
      <3>1. /\ fetch' \in [at : {"idle", "sent", "refused", "back"},
                           rows : RowsType]
            /\ fetch'.rows.scope = scope
        BY <2>3 DEF WebInv, WebTypeInv, RowsType
      <3>2. WebTypeInv'
        BY <2>1, <3>1 DEF sessionStore, WebInv, WebTypeInv
      <3>3. ScopeInv'
        BY <2>1, <3>1 DEF sessionStore, WebInv, ScopeInv
      <3> QED BY <3>2, <3>3 DEF WebInv
    <2> QED BY <1>4, <2>2, <2>3 DEF serve
  <1>5. CASE receive
    <2>1. /\ fetch.at = "back" /\ fetch.rows \in RowsType
          /\ cached' = [NotCached EXCEPT !.rows = fetch.rows]
          /\ fetch' = Fetch("idle")
          /\ UNCHANGED <<open, made, actedIn, sessionStore>>
      BY <1>5 DEF receive, mutationVars, WebInv, WebTypeInv
    <2>2. WebTypeInv'
      BY <2>1, EmptyTyped DEF sessionStore, WebInv, WebTypeInv
    <2>3. ScopeInv'
      BY <2>1, EmptyTyped DEF sessionStore, WebInv, ScopeInv
    <2> QED BY <2>2, <2>3 DEF WebInv
  <1>6. CASE fetchFails \/ age
    <2>1. /\ cached' \in {[cached EXCEPT !.aged = TRUE],
                          [cached EXCEPT !.failed = TRUE]}
          /\ fetch' \in {fetch, Fetch("idle")}
          /\ UNCHANGED <<open, made, actedIn, sessionStore>>
          /\ fetch.at # "idle" \/ cached.rows # NoRows
      BY <1>6 DEF fetchFails, age, mutationVars
    <2>2. ~(signed = "out" /\ ~carried)
      BY <2>1, EmptyTyped DEF WebInv, ScopeInv
    <2> QED
      BY <1>0, <2>1, <2>2, FlagsTyped, RowsKept
      DEF sessionStore, WebInv, WebTypeInv
  <1>7. CASE collect
    BY <1>7, EmptyTyped, RowsKept
    DEF collect, Cleared, mutationVars, sessionStore, WebInv, WebTypeInv,
        ScopeInv
  <1>8. CASE onSuccess
    <2>1. UNCHANGED <<made, actedIn, sessionStore>> /\ (open' => open)
      BY <1>8 DEF onSuccess
    <2>2. CASE Cleared /\ fetch' = Fetch("idle")
      BY <2>1, <2>2, EmptyTyped, RowsKept
      DEF Cleared, sessionStore, WebInv, WebTypeInv, ScopeInv
    <2>3. CASE UNCHANGED queryVars
      BY <1>0, <2>1, <2>3, RowsKept
      DEF queryVars, sessionStore, WebInv, WebTypeInv, ScopeInv
    <2>4. CASE /\ ~(cached = NotCached /\ fetch.at = "idle" /\ ~open)
               /\ cached' = [cached EXCEPT !.invalid = TRUE]
               /\ fetch' \in {fetch, Fetch("sent")}
      <3>1. ~(signed = "out" /\ ~carried)
        BY <2>4 DEF WebInv, ScopeInv
      <3> QED
        BY <1>0, <2>1, <2>4, <3>1, FlagsTyped, RowsKept
        DEF sessionStore, WebInv, WebTypeInv
    <2> QED
      BY <1>8, <2>2, <2>3, <2>4 DEF onSuccess, invalidateQueries, Sent
  <1>9. CASE setQueryData
    <2>1. UNCHANGED <<open, fetch, made, actedIn, scope, signed>>
      BY <1>9 DEF setQueryData
    <2>2. CASE UNCHANGED <<cached, carried>>
      BY <1>0, <2>1, <2>2, RowsKept DEF WebInv, WebTypeInv, ScopeInv
    <2>3. CASE /\ ~(follows.patched /\ cached.rows = NoRows)
               /\ cached' = [NotCached EXCEPT !.rows =
                    [change |-> made,
                     scope |-> IF follows.patched THEN cached.rows.scope
                                                  ELSE actedIn]]
               /\ carried' = (carried \/ actedIn # scope \/ signed = "out")
      <3> DEFINE at == IF follows.patched THEN cached.rows.scope ELSE actedIn
      <3>1. at \in Nat /\ [change |-> made, scope |-> at] \in RowsType
        BY <1>0 DEF WebTypeInv, RowsType
      <3>2. /\ cached' \in [rows : RowsType, invalid : BOOLEAN,
                            aged : BOOLEAN, failed : BOOLEAN]
            /\ cached'.rows = [change |-> made, scope |-> at]
            /\ cached'.rows.scope = at
        BY <2>3, <3>1, EmptyTyped
      <3>3. WebTypeInv'
        BY <2>1, <2>3, <3>2 DEF WebInv, WebTypeInv
      <3>4. ~carried' /\ signed = "in" => at = scope
        BY <2>3 DEF WebInv, ScopeInv
      <3>5. ScopeInv'
        BY <2>1, <2>3, <3>2, <3>4 DEF WebInv, ScopeInv
      <3> QED BY <3>3, <3>5 DEF WebInv
    <2> QED BY <1>9, <2>2, <2>3 DEF setQueryData
  <1>10. CASE handleSignOut \/ handleOutletChange
    <2>1. /\ cached' = NotCached
          /\ fetch' \in {Fetch("idle"), Fetch("sent")}
          /\ UNCHANGED <<made, actedIn, scope>> /\ carried' = FALSE
          /\ signed' \in {"in", "out"}
          /\ signed' = "out" => fetch' = Fetch("idle") /\ ~open'
      BY <1>10 DEF handleSignOut, handleOutletChange, Cleared, mutationVars
    <2>2. WebTypeInv'
      BY <2>1, EmptyTyped DEF WebInv, WebTypeInv
    <2>3. ScopeInv'
      BY <2>1, EmptyTyped DEF ScopeInv
    <2> QED BY <2>2, <2>3 DEF WebInv
  <1>11. CASE sessionLost \/ outletChangeFails
    BY <1>11 DEF sessionLost, outletChangeFails, queryVars, mutationVars,
                 WebInv, WebTypeInv, ScopeInv
  <1>12. CASE signIn
    BY <1>12, EmptyTyped
    DEF signIn, queryVars, mutationVars, WebInv, WebTypeInv, ScopeInv
  <1>13. CASE switchActiveOutlet
    BY <1>13
    DEF switchActiveOutlet, queryVars, mutationVars, WebInv, WebTypeInv,
        ScopeInv
  <1>14. CASE UNCHANGED webVars
    BY <1>14 DEF webVars, WebInv, WebTypeInv, ScopeInv
  <1> QED
    BY <1>1, <1>2, <1>3, <1>4, <1>5, <1>6, <1>7, <1>8, <1>9, <1>10, <1>11,
       <1>12, <1>13, <1>14 DEF WebNext

(***************************************************************************)
(* For any number of sessions and outlets one after the other and any      *)
(* changes, whatever query and mutation is followed: unless rows were      *)
(* carried over, a page shows rows of the session and the outlet the       *)
(* server serves.                                                          *)
(***************************************************************************)
THEOREM RowsAreOfSession == WebSpec => []RowsOfSession
  <1>1. WebInv => RowsOfSession
    BY DEF WebInv, ScopeInv, RowsOfSession, Displayed
  <1> QED BY <1>1, WebInvInit, WebInvNext, PTL DEF WebSpec
-----------------------------------------------------------------------------
(* What the tables say of the query and the mutation that are followed.    *)
FollowsWell ==
    /\ follows.shown => follows.refreshed \/ follows.removed \/ setsData
    /\ follows.enabled => follows.admitted \/ follows.weakFetch
    /\ follows.offered => follows.permitted \/ follows.weakOffer

(* A request is under way only where the page enables or offers it, and is *)
(* refused only by its guard.                                              *)
OfferInv ==
    /\ fetch.at # "idle" => follows.enabled
    /\ fetch.at = "refused" => ~follows.admitted
    /\ mutation # "idle" => follows.offered
    /\ mutation = "refused" => ~follows.permitted

(* Rows on their way have every change the page was told of, unless they   *)
(* were in flight when it was told; rows in the cache have, or will be     *)
(* fetched when the page is opened.                                        *)
ChangeInv ==
    /\ heard \in Nat /\ heard <= made
    /\ mutation = "saved" => setsData
    /\ ~follows.enabled => cached.rows = NoRows \/ setsData
    /\ follows.shown =>
         /\ fetch.at = "back" /\ ~raced => fetch.rows.change >= heard
         /\ /\ cached.rows # NoRows /\ ~cached.failed
            /\ fetch.at = "idle" /\ ~raced
            => \/ cached.rows.change >= heard
               \/ cached.invalid /\ ~open /\ follows.enabled

PageInv == FollowsWell /\ OfferInv /\ ChangeInv

(* The tables: a permission that suffices for the gate suffices for the    *)
(* handler, and what a query shows of a mutation the mutation names.       *)
LEMMA TablesAgree == follows \in Followings => FollowsWell
  <1> SUFFICES ASSUME follows \in Followings PROVE FollowsWell
    OBVIOUS
  <1> DEFINE Mays(q, m) == {q.gate, m.gate, q.gate \cup m.gate}
             Each(q, m) == {Following(q, m, may) : may \in Mays(q, m)}
             Of(opened) == UNION {Each(q, m) :
                                  q \in Mounted(opened) \cup {NoQuery},
                                  m \in opened.mutations \cup {NoMutation}}
  <1>1. Followings = UNION {Of(opened) : opened \in Pages}
    BY DEF Followings
  <1> HIDE DEF Of, Each
  <1>2. PICK opened \in Pages : follows \in Of(opened)
    BY <1>1
  <1>3. PICK q \in Mounted(opened) \cup {NoQuery},
             m \in opened.mutations \cup {NoMutation} :
            follows \in Each(q, m)
    BY <1>2 DEF Of
  <1>4. PICK may : follows = Following(q, m, may)
    BY <1>3 DEF Each
  <1>5. /\ follows.shown <=> Shows(q, m)
        /\ follows.enabled <=> q # NoQuery /\ q.gate \subseteq may
        /\ follows.admitted <=> PermissionGuard(q.api, may)
        /\ follows.weakFetch <=> q \in WeakGates
        /\ follows.offered <=> m # NoMutation /\ m.gate \subseteq may
        /\ follows.permitted <=> PermissionGuard(m.api, may)
        /\ follows.weakOffer <=> m \in WeakGates
        /\ follows.refreshed <=> Names(m.refreshes, q)
        /\ follows.removed <=> Names(m.removes, q)
        /\ follows.set <=> Names(m.sets, q)
        /\ follows.patched <=> Names(m.patches, q)
    BY <1>4 DEF Following
  <1>6. q = NoQuery \/ m = NoMutation => ~Shows(q, m)
    BY DEF Shows, NoQuery, NoMutation, Query, Mutation, Reads, Writes
  <1>7. follows.shown => follows.refreshed \/ follows.removed \/ setsData
    BY <1>2, <1>3, <1>5, <1>6, MutationsNameQueries DEF setsData
  <1>8. follows.enabled => follows.admitted \/ follows.weakFetch
    BY <1>2, <1>3, <1>5, GatesCoverGuards DEF PermissionGuard
  <1>9. follows.offered => follows.permitted \/ follows.weakOffer
    BY <1>2, <1>3, <1>5, GatesCoverGuards DEF PermissionGuard
  <1> QED BY <1>7, <1>8, <1>9 DEF FollowsWell

LEMMA PageInvInit == WebInit => PageInv
  <1> SUFFICES ASSUME WebInit PROVE PageInv
    OBVIOUS
  <1>1. FollowsWell
    BY TablesAgree DEF WebInit
  <1>2. OfferInv
    BY EmptyTyped DEF WebInit, WebStart, OfferInv
  <1>3. ChangeInv
    BY EmptyTyped DEF WebInit, WebStart, ChangeInv
  <1> QED BY <1>1, <1>2, <1>3 DEF PageInv

LEMMA FlagsKept ==
    /\ ~NotCached.failed /\ NotCached.rows = NoRows
    /\ \A r : [NotCached EXCEPT !.rows = r].rows = r
    /\ \A at : Fetch(at).at = at
  BY DEF NotCached, Fetch

(* Requests: what is sent is enabled, and what is served is admitted.      *)
LEMMA OfferInvNext ==
  ASSUME WebInv, PageInv, WebNext PROVE OfferInv'
  <1>1. follows' = follows /\ OfferInv
    BY DEF PageInv, WebNext, openPage, closePage, serve, receive, fetchFails,
         age, refetchStale, collect, submitPage, apply, mutationFails,
         onSuccess, setQueryData, handleSignOut, sessionLost, signIn,
         switchActiveOutlet, handleOutletChange, outletChangeFails
  <1>2. \/ fetch' = fetch
        \/ fetch' = Fetch("idle")
        \/ fetch' = Fetch("sent") /\ follows.enabled
        \/ fetch.at = "sent" /\ fetch'.at \in {"back", "refused"}
           /\ (fetch'.at = "refused" => ~follows.admitted)
    BY FlagsKept
    DEF WebNext, openPage, closePage, serve, receive, fetchFails,
         age, refetchStale, collect, submitPage, apply, mutationFails,
         onSuccess, setQueryData, handleSignOut, sessionLost, signIn,
         switchActiveOutlet, handleOutletChange, outletChangeFails, queryVars,
         Sent, invalidateQueries
  <1>3. \/ mutation' = mutation
        \/ mutation' = "idle"
        \/ mutation' = "sent" /\ follows.offered
        \/ mutation # "idle" /\ mutation' \in {"done", "saved"}
        \/ mutation # "idle" /\ mutation' = "refused" /\ ~follows.permitted
    BY DEF WebNext, openPage, closePage, serve, receive, fetchFails,
         age, refetchStale, collect, submitPage, apply, mutationFails,
         onSuccess, setQueryData, handleSignOut, sessionLost, signIn,
         switchActiveOutlet, handleOutletChange, outletChangeFails,
         mutationVars
  <1> QED BY <1>1, <1>2, <1>3, FlagsKept DEF OfferInv

(* Changes: a step that leaves alone what was heard keeps rows, marks the  *)
(* cache, receives, sends or drops; the page is told by onSuccess or by    *)
(* setQueryData.                                                           *)
LEMMA QuietSteps ==
  ASSUME WebInv, PageInv,
         openPage \/ closePage \/ serve \/ receive \/ fetchFails \/ age
           \/ refetchStale \/ collect \/ submitPage \/ apply
           \/ mutationFails
  PROVE  ChangeInv'
  <1>1. /\ WebTypeInv /\ ChangeInv /\ OfferInv
        /\ follows' = follows /\ heard' = heard
    BY DEF WebInv, PageInv, openPage, closePage, serve, receive, fetchFails,
         age, refetchStale, collect, submitPage, apply, mutationFails,
         mutationVars
  <1>2. setsData' = setsData
    BY <1>1 DEF setsData
  <1>3. CASE openPage \/ refetchStale
    <2>1. /\ UNCHANGED <<cached, made, mutation>>
          /\ \/ UNCHANGED <<fetch, raced>>
             \/ fetch' = Fetch("sent")
      BY <1>3 DEF openPage, refetchStale, Sent, mutationVars
    <2>2. open' /\ ~open /\ follows.enabled /\ cached.invalid
            /\ fetch.at = "idle" => fetch' = Fetch("sent")
      BY <1>3 DEF openPage, refetchStale, Sent, NotFresh
    <2>3. refetchStale => open /\ open' = open
      BY DEF refetchStale
    <2> QED
      BY <1>1, <1>2, <1>3, <2>1, <2>2, <2>3, FlagsKept
      DEF ChangeInv, openPage
  <1>4. CASE closePage \/ submitPage \/ mutationFails
    BY <1>1, <1>2, <1>4
    DEF closePage, submitPage, mutationFails, queryVars, mutationVars,
        ChangeInv
  <1>5. CASE serve
    <2>1. /\ UNCHANGED <<cached, made, mutation, open, raced>>
          /\ fetch'.at \in {"back", "refused"}
          /\ fetch'.at = "back" => fetch'.rows.change = made
      BY <1>5, FlagsKept DEF serve, mutationVars
    <2> QED
      BY <1>1, <1>2, <2>1 DEF ChangeInv, WebTypeInv
  <1>6. CASE receive
    <2>1. /\ UNCHANGED <<made, mutation, open, raced>>
          /\ fetch.at = "back" /\ fetch'.at = "idle"
          /\ cached'.rows = fetch.rows
      BY <1>6, FlagsKept DEF receive, mutationVars
    <2> QED
      BY <1>1, <1>2, <2>1 DEF ChangeInv, OfferInv
  <1>7. CASE fetchFails
    <2>1. /\ UNCHANGED <<made, mutation, open, raced>> /\ fetch'.at = "idle"
          /\ cached' = [cached EXCEPT !.failed = TRUE]
      BY <1>7, FlagsKept DEF fetchFails, mutationVars
    <2>2. cached'.failed /\ cached'.rows = cached.rows
      BY <1>1, <2>1 DEF WebTypeInv
    <2> QED
      BY <1>1, <1>2, <2>1, <2>2 DEF ChangeInv
  <1>8. CASE age
    <2>1. /\ UNCHANGED <<made, mutation, open, raced, fetch>>
          /\ cached' = [cached EXCEPT !.aged = TRUE]
      BY <1>8 DEF age, mutationVars
    <2>2. /\ cached'.failed = cached.failed /\ cached'.rows = cached.rows
          /\ cached'.invalid = cached.invalid
      BY <1>1, <2>1 DEF WebTypeInv
    <2> QED
      BY <1>1, <1>2, <2>1, <2>2 DEF ChangeInv
  <1>9. CASE collect
    BY <1>1, <1>2, <1>9, FlagsKept
    DEF collect, Cleared, mutationVars, ChangeInv
  <1>10. CASE apply
    <2>1. made' \in {made, made + 1} /\ mutation' \in {"done", "refused"}
          /\ UNCHANGED <<cached, fetch, raced, open>>
      BY <1>10 DEF apply, queryVars
    <2> QED
      BY <1>1, <1>2, <2>1 DEF ChangeInv, WebTypeInv
  <1> QED
    BY <1>3, <1>4, <1>5, <1>6, <1>7, <1>8, <1>9, <1>10

LEMMA AnswerSteps ==
  ASSUME WebInv, PageInv, onSuccess \/ setQueryData
  PROVE  ChangeInv'
  <1>1. /\ WebTypeInv /\ ChangeInv /\ OfferInv /\ FollowsWell
        /\ follows' = follows /\ made' = made
    BY DEF WebInv, PageInv, onSuccess, setQueryData
  <1>2. setsData' = setsData
    BY <1>1 DEF setsData
  <1>3. CASE onSuccess
    <2>1. /\ heard' = IF setsData THEN heard ELSE made
          /\ heard' \in Nat /\ heard' <= made
          /\ mutation' = "saved" => setsData
          /\ open' = (open /\ ~follows.leaves)
      BY <1>1, <1>3 DEF onSuccess, ChangeInv, WebTypeInv
    <2>2. CASE follows.removed
      BY <1>1, <1>2, <1>3, <2>1, <2>2, FlagsKept
      DEF onSuccess, Cleared, ChangeInv
    <2> DEFINE untouched ==
            \/ ~follows.refreshed
            \/ cached = NotCached /\ fetch.at = "idle" /\ ~open
    <2>3. CASE ~follows.removed /\ untouched
      <3>1. UNCHANGED <<cached, fetch, raced>>
        BY <1>3, <2>3 DEF onSuccess, invalidateQueries, queryVars
      <3>2. CASE ~follows.refreshed
        <4>1. follows.shown => heard' = heard
          BY <1>1, <2>1, <2>3, <3>2 DEF FollowsWell
        <4> QED
          BY <1>1, <1>2, <2>1, <3>1, <4>1 DEF ChangeInv
      <3>3. CASE cached = NotCached /\ fetch.at = "idle" /\ ~open
        BY <1>1, <1>2, <2>1, <3>1, <3>3, FlagsKept DEF ChangeInv
      <3> QED BY <2>3, <3>2, <3>3
    <2>4. CASE ~follows.removed /\ ~untouched
      <3> DEFINE resent == /\ open /\ follows.enabled
                           /\ cached.rows # NoRows \/ fetch.at = "idle"
      <3>1. /\ cached' = [cached EXCEPT !.invalid = TRUE]
            /\ resent => fetch' = Fetch("sent")
            /\ ~resent => /\ fetch' = fetch
                          /\ raced' <=> raced \/ fetch.at # "idle"
        BY <1>3, <2>4 DEF onSuccess, invalidateQueries, Sent
      <3>2. /\ cached'.invalid /\ cached'.rows = cached.rows
            /\ cached'.failed = cached.failed
        BY <1>1, <3>1 DEF WebTypeInv
      <3>3. CASE resent
        BY <1>1, <1>2, <2>1, <3>1, <3>2, <3>3, FlagsKept DEF ChangeInv
      <3>4. CASE ~resent
        <4>1. fetch'.at = "back" => raced'
          BY <3>1, <3>4
        <4>2. ASSUME follows.shown, cached.rows # NoRows, ~cached.failed,
                     fetch.at = "idle", ~raced
              PROVE  \/ cached.rows.change >= heard'
                     \/ ~open' /\ follows.enabled
          <5>1. CASE ~follows.enabled
            BY <1>1, <2>1, <4>2, <5>1 DEF ChangeInv
          <5>2. CASE follows.enabled
            BY <2>1, <3>4, <4>2, <5>2
          <5> QED BY <5>1, <5>2
        <4> QED
          BY <1>1, <1>2, <2>1, <3>1, <3>2, <3>4, <4>1, <4>2 DEF ChangeInv
      <3> QED BY <3>3, <3>4
    <2> QED BY <2>2, <2>3, <2>4
  <1>4. CASE setQueryData
    <2>1. /\ mutation = "saved" /\ mutation' = "idle" /\ heard' = made
          /\ fetch' = fetch /\ open' = open
          /\ raced' <=> raced \/ fetch.at # "idle"
      BY <1>4 DEF setQueryData
    <2>2. \/ cached' = cached /\ cached.rows = NoRows
          \/ cached'.rows.change = made
      <3>1. CASE follows.patched /\ cached.rows = NoRows
        BY <1>4, <3>1 DEF setQueryData
      <3>2. CASE ~(follows.patched /\ cached.rows = NoRows)
        <4>1. cached'.rows =
                [change |-> made,
                 scope |-> IF follows.patched THEN cached.rows.scope
                                              ELSE actedIn]
          BY <1>4, <3>2, FlagsKept DEF setQueryData
        <4> QED BY <4>1
      <3> QED BY <3>1, <3>2
    <2> QED
      BY <1>1, <1>2, <2>1, <2>2 DEF ChangeInv, WebTypeInv
  <1> QED BY <1>3, <1>4

LEMMA SessionChanges ==
  ASSUME WebInv, PageInv,
         handleSignOut \/ sessionLost \/ signIn \/ switchActiveOutlet
           \/ handleOutletChange \/ outletChangeFails
  PROVE  ChangeInv'
  <1>1. /\ WebTypeInv /\ ChangeInv
        /\ UNCHANGED <<follows, mutation, made, heard>>
    BY DEF WebInv, PageInv, handleSignOut, sessionLost, signIn,
         switchActiveOutlet, handleOutletChange, outletChangeFails,
         mutationVars
  <1>2. setsData' = setsData
    BY <1>1 DEF setsData
  <1>3. /\ \/ UNCHANGED queryVars
           \/ /\ cached' = NotCached
              /\ fetch' \in {Fetch("idle"), Fetch("sent")}
        /\ open' => open
    BY DEF handleSignOut, sessionLost, signIn, switchActiveOutlet,
         handleOutletChange, outletChangeFails, Cleared
  <1> QED
    BY <1>1, <1>2, <1>3, FlagsKept DEF ChangeInv, queryVars

LEMMA PageInvNext == WebInv /\ PageInv /\ [WebNext]_webVars => PageInv'
  <1>1. ASSUME WebInv, PageInv, WebNext PROVE PageInv'
    <2>1. FollowsWell'
      BY <1>1
      DEF PageInv, FollowsWell, setsData, WebNext, openPage, closePage,
         serve, receive, fetchFails, age, refetchStale, collect, submitPage,
         apply, mutationFails, onSuccess, setQueryData, handleSignOut,
         sessionLost, signIn, switchActiveOutlet, handleOutletChange,
         outletChangeFails
    <2>2. OfferInv'
      BY <1>1, OfferInvNext
    <2>3. ChangeInv'
      BY <1>1, QuietSteps, AnswerSteps, SessionChanges DEF WebNext
    <2> QED BY <2>1, <2>2, <2>3 DEF PageInv
  <1>2. ASSUME PageInv, UNCHANGED webVars PROVE PageInv'
    BY <1>2 DEF PageInv, FollowsWell, OfferInv, ChangeInv, setsData, webVars
  <1> QED BY <1>1, <1>2

(***************************************************************************)
(* For any number of changes, sessions and outlets, and every query and    *)
(* mutation of the tables: what a page's own mutation changed the page     *)
(* shows, once it was told and nothing is in flight.  The tables enter     *)
(* through MutationsNameQueries alone.                                     *)
(***************************************************************************)
THEOREM OwnChangesShown == WebSpec => []OwnChangeShown
  <1>1. PageInv => OwnChangeShown
    BY DEF PageInv, ChangeInv, OwnChangeShown, Displayed
  <1> QED
    BY <1>1, WebInvInit, WebInvNext, PageInvInit, PageInvNext, PTL DEF WebSpec

(***************************************************************************)
(* Whatever page is opened and whatever permissions the session has: a     *)
(* request PermissionGuard refuses comes from one of WeakGates, and from   *)
(* nothing that was left in flight by an outlet or a session that changed. *)
(***************************************************************************)
THEOREM OfferedAllowed == WebSpec => []OfferedIsAllowed
  <1>1. PageInv => OfferedIsAllowed
    BY DEF PageInv, FollowsWell, OfferInv, OfferedIsAllowed
  <1> QED
    BY <1>1, WebInvInit, WebInvNext, PageInvInit, PageInvNext, PTL DEF WebSpec
=============================================================================
