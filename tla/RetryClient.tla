----------------------------- MODULE RetryClient -----------------------------
(***************************************************************************)
(* The pages that send a request with an Idempotency-Key and may have to   *)
(* send it again: the transfer workspace, for a new transfer and for the   *)
(* receipt of one, and the page of a purchase order, for a receipt.        *)
(*                                                                         *)
(* A submission takes a fresh key, is saved in the tab's sessionStorage    *)
(* and kept in a ref before it is sent, and both are restored when the     *)
(* page is loaded again.  The two pages differ: the workspace refuses      *)
(* another body while a submission is pending and forgets it when an       *)
(* answer 4xx other than 409 comes, the purchase order page takes a new    *)
(* key for another body and forgets a submission only when it succeeded.   *)
(*                                                                         *)
(* A key stands for its submission: bodyOf gives its body.  An intention   *)
(* of the user ends when a page shows that it was carried out.             *)
(***************************************************************************)
EXTENDS Naturals, FiniteSets

CONSTANTS
    Bodies,             \* what the user can fill in, in canonical form
    NoBody, NoKey,
    MaxKeys,            \* bound: keys the page generates
    MaxSends,           \* bound: requests it sends
    MaxStorageFaults    \* bound: calls of sessionStorage that throw

SubmissionKeys == 1..MaxKeys

ASSUME RetryConstants ==
    /\ NoBody \notin Bodies /\ NoKey \notin SubmissionKeys
    /\ {MaxKeys, MaxSends, MaxStorageFaults} \subseteq Nat

VARIABLES
    page,           \* the page that is open
    form,           \* the body in the form
    pending,        \* the key in pendingCreateRef, pendingReceiptKey
    saved,          \* the key in sessionStorage
    storageError,   \* the page has seen sessionStorage throw
    waiting,        \* the key the mutation waits for an answer to
    notice,         \* what the page says of the last request
    bodyOf,         \* the body each key was generated for
    late,           \* requests the page no longer waits for, on their way
    row,            \* the keys under which the server stored a row
    intention, intentOf,    \* the user's intention, and that of each key
    forsaken,       \* keys given up although they may have a row
    sends, storageFaults

formVars == <<form, pending, saved, storageError, waiting, notice>>
storedVars == <<late, row>>
intentVars == <<intention, intentOf, forsaken>>
retryVars == <<page, formVars, bodyOf, storedVars, intentVars, sends,
               storageFaults>>

Used == {k \in SubmissionKeys : bodyOf[k] # NoBody}

RetryTypeOK ==
    /\ page \in {"workspace", "order"}
    /\ form \in Bodies \cup {NoBody}
    /\ {saved, waiting} \subseteq Used \cup {NoKey}
    /\ pending \in {saved, NoKey}
    /\ storageError \in BOOLEAN
    /\ notice \in {"nothing", "unknown", "failed"}
    /\ bodyOf \in [SubmissionKeys -> Bodies \cup {NoBody}]
    /\ late \cup row \cup forsaken \subseteq Used
    /\ intention \in Nat
    /\ intentOf \in [SubmissionKeys -> 0..intention]
    /\ sends \in 0..MaxSends
    /\ storageFaults \in 0..MaxStorageFaults

RetryInit ==
    /\ page \in {"workspace", "order"}
    /\ form = NoBody /\ pending = NoKey /\ saved = NoKey /\ waiting = NoKey
    /\ storageError = FALSE
    /\ notice = "nothing"
    /\ bodyOf = [k \in SubmissionKeys |-> NoBody]
    /\ late = {} /\ row = {} /\ forsaken = {}
    /\ intention = 1
    /\ intentOf = [k \in SubmissionKeys |-> 0]
    /\ sends = 0 /\ storageFaults = 0
-----------------------------------------------------------------------------
(* A call of sessionStorage does what it should, or throws.                *)
Storage(worked, threw) ==
    \/ worked /\ UNCHANGED storageFaults
    \/ /\ storageFaults < MaxStorageFaults
       /\ storageFaults' = storageFaults + 1
       /\ threw

(* The fields are disabled while a request runs and after a storage error, *)
(* in the workspace also while a submission is pending.                    *)
fillIn(b) ==
    /\ waiting = NoKey /\ ~storageError
    /\ page = "workspace" => pending = NoKey
    /\ form # b
    /\ form' = b
    /\ UNCHANGED <<page, pending, saved, storageError, waiting, notice, bodyOf,
                   storedVars, intentVars, sends, storageFaults>>

(* setItem, then the ref, then the request.                                *)
send(k) ==
    /\ sends < MaxSends
    /\ saved' = k /\ pending' = k /\ waiting' = k /\ notice' = "nothing"
    /\ sends' = sends + 1
    /\ UNCHANGED <<storageError, storageFaults>>

sendAgain(k) == send(k) /\ UNCHANGED <<bodyOf, intentOf, forsaken>>

(* A submission with a key of its own, crypto.randomUUID.  When another    *)
(* one was pending and may have a row, it is forsaken here.                *)
sendFresh ==
    \E k \in SubmissionKeys :
        /\ bodyOf[k] = NoBody /\ \A j \in 1..(k - 1) : bodyOf[j] # NoBody
        /\ bodyOf' = [bodyOf EXCEPT ![k] = form]
        /\ intentOf' = [intentOf EXCEPT ![k] = intention]
        /\ forsaken' = forsaken \cup ({pending} \cap (row \cup late))
        /\ send(k)

(* setItem throws: nothing is sent.                                        *)
notSaved ==
    /\ storageFaults < MaxStorageFaults
    /\ storageFaults' = storageFaults + 1
    /\ storageError' = TRUE
    /\ UNCHANGED <<saved, pending, waiting, notice, sends, bodyOf, intentOf,
                   forsaken>>

Submittable == waiting = NoKey /\ ~storageError /\ form # NoBody

(* submitCreate and submitReceipt of the workspace: another body than that *)
(* of the pending submission is refused.                                   *)
submit ==
    /\ page = "workspace" /\ Submittable
    /\ \/ pending = NoKey /\ sendFresh
       \/ pending # NoKey /\ bodyOf[pending] = form /\ sendAgain(pending)
       \/ pending \in {NoKey} \cup {k \in Used : bodyOf[k] = form} /\ notSaved
    /\ UNCHANGED <<page, form, storedVars, intention>>

(* submitReceipt of the purchase order page: a pending submission lends    *)
(* its key to the same body only.                                          *)
submitReceipt ==
    /\ page = "order" /\ Submittable
    /\ \/ IF pending # NoKey /\ bodyOf[pending] = form
          THEN sendAgain(pending) ELSE sendFresh
       \/ notSaved
    /\ UNCHANGED <<page, form, storedVars, intention>>
-----------------------------------------------------------------------------
(***************************************************************************)
(* The server stores at most one row per key and answers a repeated        *)
(* request with it (WarehouseTransfer, PurchaseOrder).  The answer may not *)
(* reach the page, or an error of a proxy may take its place.              *)
(***************************************************************************)
Forget ==
    /\ Storage(saved' = NoKey /\ UNCHANGED storageError,
               storageError' = TRUE /\ UNCHANGED saved)
    /\ pending' = NoKey

(* onSuccess: the submission is forgotten and the form cleared.            *)
answered(k) ==
    /\ waiting = k
    /\ row' = row \cup {k}
    /\ Forget
    /\ form' = NoBody /\ waiting' = NoKey /\ notice' = "nothing"
    /\ intention' = intention + 1
    /\ UNCHANGED <<page, bodyOf, late, intentOf, forsaken, sends>>

(* An ApiError with a status from 400 to 499 other than 409.               *)
confirmedRejection(status) == status = "4xx"

(* onError.  The purchase order page takes every ApiError for a definite   *)
(* answer, but keeps the submission.                                       *)
onError(status) ==
    /\ waiting' = NoKey
    /\ IF page = "workspace"
       THEN /\ notice' = IF confirmedRejection(status) THEN "failed" ELSE "unknown"
            /\ IF confirmedRejection(status) THEN Forget
               ELSE UNCHANGED <<saved, pending, storageError, storageFaults>>
       ELSE /\ notice' = IF status = "network" THEN "unknown" ELSE "failed"
            /\ UNCHANGED <<saved, pending, storageError, storageFaults>>
    /\ UNCHANGED <<page, form, bodyOf, intention, intentOf, sends>>

(* The row is stored and the page sees an error.                           *)
answerLost(k, status) ==
    /\ waiting = k
    /\ status \in {"network", "5xx"}
    /\ row' = row \cup {k}
    /\ onError(status)
    /\ UNCHANGED <<late, forsaken>>

(* The connection breaks before the request has arrived.                   *)
requestDelayed(k) ==
    /\ waiting = k
    /\ late' = late \cup {k}
    /\ onError("network")
    /\ UNCHANGED <<row, forsaken>>

(* The request is turned away: by a guard, the throttler or a check of the *)
(* service (4xx), by a conflict (409), or by a failure that rolls back.    *)
(* The guards run before the service looks for the key, so this may happen *)
(* to the retry of a request that was carried out.                         *)
turnedAway(k, status) ==
    /\ waiting = k
    /\ status \in {"4xx", "409", "5xx"}
    /\ onError(status)
    /\ forsaken' = IF page = "workspace" /\ status = "4xx"
                   THEN forsaken \cup ({k} \cap (row \cup late)) ELSE forsaken
    /\ UNCHANGED storedVars

lateArrives(k) ==
    /\ k \in late
    /\ late' = late \ {k}
    /\ row' \in {row, row \cup {k}}
    /\ UNCHANGED <<page, formVars, bodyOf, intentVars, sends, storageFaults>>
-----------------------------------------------------------------------------
(* The effect that restores a saved submission with its form.              *)
Restore ==
    Storage(/\ pending' = IF saved = NoKey THEN pending ELSE saved
            /\ form' = IF saved = NoKey THEN form ELSE bodyOf[saved]
            /\ notice' = IF saved = NoKey THEN notice ELSE "unknown"
            /\ UNCHANGED storageError,
            storageError' = TRUE /\ UNCHANGED <<pending, form, notice>>)

(* Mutant: the page starts empty.                                          *)
reload_empty ==
    /\ pending' = NoKey /\ form' = NoBody /\ notice' = "nothing"
    /\ storageError' = FALSE
    /\ waiting' = NoKey
    /\ late' = late \cup ({waiting} \ {NoKey})
    /\ UNCHANGED <<page, saved, bodyOf, row, intentVars, sends, storageFaults>>

(* The page is loaded again; a request it waited for goes on.              *)
reload ==
    /\ Storage(/\ pending' = saved
               /\ form' = IF saved = NoKey THEN NoBody ELSE bodyOf[saved]
               /\ notice' = IF saved = NoKey THEN "nothing" ELSE "unknown"
               /\ storageError' = FALSE,
               /\ pending' = NoKey /\ form' = NoBody /\ notice' = "nothing"
               /\ storageError' = TRUE)
    /\ waiting' = NoKey
    /\ late' = late \cup ({waiting} \ {NoKey})
    /\ UNCHANGED <<page, saved, bodyOf, row, intentVars, sends>>

(* The purchase order was read again and has changed: the effect of its    *)
(* page runs once more, over whatever the user has typed since.            *)
refetched ==
    /\ page = "order"
    /\ Restore
    /\ UNCHANGED <<page, saved, waiting, bodyOf, storedVars, intentVars, sends>>

RetryNext ==
    \/ \E b \in Bodies : fillIn(b)
    \/ submit \/ submitReceipt \/ reload \/ refetched
    \/ \E k \in SubmissionKeys :
        \/ answered(k) \/ requestDelayed(k) \/ lateArrives(k)
        \/ \E s \in {"network", "4xx", "409", "5xx"} :
             answerLost(k, s) \/ turnedAway(k, s)

RetrySpec == RetryInit /\ [][RetryNext]_retryVars
-----------------------------------------------------------------------------
(***************************************************************************)
(* What the user means once is done once, over lost answers, requests that *)
(* arrive late, reloads and failing storage: two rows of one intention     *)
(* need a key that was given up on the way, because a retry of it was      *)
(* answered 4xx or because the quantities of a purchase order were changed *)
(* before its outcome was known.                                           *)
(***************************************************************************)
OneRowPerIntention ==
    \A j, k \in row :
        j # k /\ intentOf[j] = intentOf[k] => {j, k} \cap forsaken # {}

(***************************************************************************)
(* A request the page has not seen the end of can be sent again under its  *)
(* key, also after the next reload: it is the one in sessionStorage.       *)
(***************************************************************************)
UnsettledIsSaved ==
    \A k \in row \cup late \cup ({waiting} \ {NoKey}) :
        intentOf[k] = intention /\ k \notin forsaken => saved = k

(***************************************************************************)
(* The workspace says that a request failed only if nothing came of it, or *)
(* if the refusal was of a retry.                                          *)
(***************************************************************************)
FailedIsNotDone ==
    page = "workspace" /\ notice = "failed" =>
        \A k \in row : intentOf[k] = intention => k \in forsaken

(***************************************************************************)
(* The three of them, and the types of the page's and the server's state.  *)
(***************************************************************************)
RetriesAreSafe ==
    RetryTypeOK /\ OneRowPerIntention /\ UnsettledIsSaved /\ FailedIsNotDone
=============================================================================
