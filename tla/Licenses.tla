------------------------------ MODULE Licenses ------------------------------
(***************************************************************************)
(* The licenses (services/client_manager.py): one JSON file, which every   *)
(* worker reads when it starts and rewrites whole from its own copy; the   *)
(* administrator's dialogs and buttons that change them (services/telegram *)
(* mixins/licenses.py and mixins/conversations.py, run one update at a     *)
(* time); and the signals that depend on a license.                        *)
(***************************************************************************)
EXTENDS FiniteSets, Integers, Functions

CONSTANTS LicWorkers,  \* worker processes
          Bots,        \* workers whose bot receives the administrator's updates
          MaxLics,     \* bound on license keys generated
          MaxDialogs   \* bound on dialogs open at once on a worker

ASSUME LicensesAssumption ==
    Bots \subseteq LicWorkers /\ MaxLics \in Nat \ {0} /\ MaxDialogs \in Nat

VARIABLES
    file,     \* licenses.json: [keys -> status]
    torn,     \* the file does not parse: truncated, or not written to its end
    cache,    \* cache[w]: worker w's copy
    writing,  \* writing[w]: what w does once its write is through
    issued,   \* keys generated so far are 1..issued
    passed,   \* keys whose expires_at has passed; a new expiry is a new key
    stage,    \* stage[w]: where w's dialogs stand
    draft,    \* draft[w]: user_data holds a new license's fields
    editKey,  \* editKey[w]: user_data's edit_lic_key, 0 if none
    expKey,   \* expKey[w]: user_data's expiry_key, 0 if none; what a dialog
              \* leaves behind is set anew before it is used, and not kept here
    rows,     \* keys with signals that wait in the table
    hooks,    \* hooks[w]: keys a webhook on w has verified and not yet saved for
    gone,     \* gone[w]: keys w has deleted or replaced since it started (history)
    deleted,  \* keys deleted, with their signals (history)
    revived,  \* keys a verified webhook saved for after they were deleted (history)
    kept,     \* keys whose signals a failed deletion left in the table (history)
    author,   \* the worker that wrote the file last (history)
    spoiled   \* a write failed or was cut short, or went over another's (history)

licDisk == <<file, torn, writing, author, spoiled>>
licDialog == <<stage, draft, editKey, expKey>>
licSignals == <<rows, hooks, deleted, revived, kept>>
licVars == <<licDisk, cache, issued, passed, licDialog, licSignals, gone>>

Keys == 1..MaxLics
LicStatuses == {"active", "inactive"}
LicenseMaps == UNION {[K -> LicStatuses] : K \in SUBSET Keys}
Stages == [add |-> {"none", "name", "email", "features", "expiry", "confirm"},
         edit |-> {"none", "pick", "field", "value"}, term |-> {"none", "pick", "value"}]
Closed == [add |-> "none", edit |-> "none", term |-> "none"]

\* What follows a write: nothing, or the cascade for a deleted key.
Idle == -1
NoCascade == 0

LicTypeOK ==
    /\ file \in LicenseMaps /\ torn \in BOOLEAN /\ cache \in [LicWorkers -> LicenseMaps]
    /\ writing \in [LicWorkers -> {Idle, NoCascade} \cup Keys]
    /\ issued \in 0..MaxLics /\ passed \subseteq 1..issued
    /\ stage \in [LicWorkers -> [add : Stages.add, edit : Stages.edit, term : Stages.term]] /\ draft \in [LicWorkers -> BOOLEAN]
    /\ editKey \in [LicWorkers -> {0} \cup Keys] /\ expKey \in [LicWorkers -> {0} \cup Keys]
    /\ rows \subseteq Keys /\ hooks \in [LicWorkers -> SUBSET Keys]
    /\ gone \in [LicWorkers -> SUBSET Keys] /\ deleted \subseteq Keys /\ revived \subseteq Keys
    /\ kept \subseteq Keys /\ author \in LicWorkers /\ spoiled \in BOOLEAN

LicInit ==
    /\ file = [k \in {1} |-> "active"] /\ torn = FALSE
    /\ cache = [w \in LicWorkers |-> file] /\ writing = [w \in LicWorkers |-> Idle]
    /\ issued = 1 /\ passed = {}
    /\ stage = [w \in LicWorkers |-> Closed] /\ draft = [w \in LicWorkers |-> FALSE]
    /\ editKey = [w \in LicWorkers |-> 0] /\ expKey = [w \in LicWorkers |-> 0]
    /\ rows = {} /\ hooks = [w \in LicWorkers |-> {}]
    /\ gone = [w \in LicWorkers |-> {}] /\ deleted = {} /\ revived = {} /\ kept = {}
    /\ author \in LicWorkers /\ spoiled = FALSE

Has(w, k) == k \in DOMAIN cache[w]

\* validate_license and validate_api_key: in this worker's copy.
ValidLicense(w, k) == Has(w, k) /\ cache[w][k] = "active" /\ k \notin passed

Ready(w) == writing[w] = Idle

-----------------------------------------------------------------------------
\* _save_to_file: opening the file for writing empties it; the event loop does
\* nothing else until json.dump has filled it again.  `then` is the key whose
\* signals are deleted afterwards.
Truncate(w, then) ==
    /\ writing' = [writing EXCEPT ![w] = then]
    /\ torn' = TRUE /\ spoiled' = (spoiled \/ author # w \/ \E v \in LicWorkers \ {w} : ~Ready(v))
    /\ UNCHANGED <<file, author>>

\* _cascade_delete_license, and _cascade_deactivate_license which leaves the rows.
CascadeNone(w) == rows

Cascade(w) == rows \ {writing[w]}

\* Deleting the signals of the key may fail (the database is locked or away): the
\* failure is logged and swallowed, the license is gone and its signals stay, as
\* they do when the process dies between the two.
CascadeFails(w) == writing[w] \in rows /\ rows' = rows /\ kept' = kept \cup {writing[w]}

\* The write goes through, or fails half way (the handler goes on and says so);
\* then the signals are deleted, or not.
Dump(w) ==
    /\ ~Ready(w) /\ writing' = [writing EXCEPT ![w] = Idle] /\ author' = w
    /\ \/ file' = cache[w] /\ torn' = FALSE /\ spoiled' = spoiled
       \/ file' = file /\ torn' = TRUE /\ spoiled' = TRUE
    /\ (rows' = Cascade(w) /\ kept' = kept) \/ CascadeFails(w)
    /\ UNCHANGED <<cache, issued, passed, licDialog, hooks, gone, deleted, revived>>

\* A worker dies, also in a write, and starts again with what the file holds: a
\* file that does not parse is an empty set of licenses.
Loaded == IF torn THEN [k \in {} |-> "active"] ELSE file

Restart(w) ==
    /\ cache' = [cache EXCEPT ![w] = Loaded]
    /\ writing' = [writing EXCEPT ![w] = Idle] /\ spoiled' = (spoiled \/ torn)
    /\ stage' = [stage EXCEPT ![w] = Closed] /\ draft' = [draft EXCEPT ![w] = FALSE]
    /\ editKey' = [editKey EXCEPT ![w] = 0] /\ expKey' = [expKey EXCEPT ![w] = 0]
    /\ hooks' = [hooks EXCEPT ![w] = {}] /\ gone' = [gone EXCEPT ![w] = {}]
    /\ UNCHANGED <<file, torn, author, issued, passed, rows, deleted, revived, kept>>

\* expires_at passes.
Expires(k) ==
    /\ k \in 1..issued /\ passed' = passed \cup {k}
    /\ UNCHANGED <<licDisk, cache, issued, licDialog, licSignals, gone>>

-----------------------------------------------------------------------------
\* The signals of a license: a webhook verifies it, awaits, and saves a row; a
\* poll claims the rows; both ask the worker's own copy.
Verify(w, k) ==
    /\ Ready(w) /\ ValidLicense(w, k) /\ hooks' = [hooks EXCEPT ![w] = @ \cup {k}]
    /\ UNCHANGED <<licDisk, cache, issued, passed, licDialog, rows, deleted, revived, kept, gone>>

SaveVerified(w, k) ==
    /\ Ready(w) /\ k \in hooks[w] /\ hooks' = [hooks EXCEPT ![w] = @ \ {k}]
    /\ rows' = rows \cup {k} /\ revived' = IF k \in deleted THEN revived \cup {k} ELSE revived
    /\ UNCHANGED <<licDisk, cache, issued, passed, licDialog, deleted, kept, gone>>

PollClaims(w, k) ==
    /\ Ready(w) /\ ValidLicense(w, k) /\ rows' = rows \ {k}
    /\ UNCHANGED <<licDisk, cache, issued, passed, licDialog, hooks, deleted, revived, kept, gone>>

-----------------------------------------------------------------------------
\* The buttons.  A key that is not there any more changes nothing.
Toggle(w, k, status) ==
    /\ Ready(w) /\ Has(w, k) /\ cache' = [cache EXCEPT ![w][k] = status] /\ Truncate(w, NoCascade)
    /\ UNCHANGED <<issued, passed, licDialog, licSignals, gone>>

DeleteLicense(w, k) ==
    /\ Ready(w) /\ Has(w, k)
    /\ cache' = [cache EXCEPT ![w] = Restrict(@, DOMAIN @ \ {k})] /\ Truncate(w, k)
    /\ gone' = [gone EXCEPT ![w] = @ \cup {k}] /\ deleted' = deleted \cup {k}
    /\ UNCHANGED <<issued, passed, licDialog, rows, hooks, revived, kept>>

BulkDeactivateExpired(w) ==
    LET lapsed == {k \in DOMAIN cache[w] \cap passed : cache[w][k] = "active"}
    IN /\ Ready(w) /\ lapsed # {}
       /\ cache' = [cache EXCEPT ![w] = [k \in DOMAIN @ |-> IF k \in lapsed THEN "inactive" ELSE @[k]]]
       /\ Truncate(w, NoCascade) /\ UNCHANGED <<issued, passed, licDialog, licSignals, gone>>

\* Mutant: the licenses are activated in memory only.
BulkActivateAllUnsaved(w) ==
    /\ Ready(w) /\ \E k \in DOMAIN cache[w] : cache[w][k] # "active"
    /\ cache' = [cache EXCEPT ![w] = [k \in DOMAIN @ |-> "active"]]
    /\ UNCHANGED <<licDisk, issued, passed, licDialog, licSignals, gone>>

BulkActivateAll(w) ==
    /\ Ready(w) /\ \E k \in DOMAIN cache[w] : cache[w][k] # "active"
    /\ cache' = [cache EXCEPT ![w] = [k \in DOMAIN @ |-> "active"]]
    /\ Truncate(w, NoCascade) /\ UNCHANGED <<issued, passed, licDialog, licSignals, gone>>

-----------------------------------------------------------------------------
\* The dialogs: three ConversationHandlers that know nothing of each other and
\* share user_data.  Moves(w, d, from, to): dialog d's step.
Moves(w, d, from, to) == Ready(w) /\ stage[w][d] \in from /\ stage' = [stage EXCEPT ![w][d] = to]

Starts(w, d, to) ==
    /\ Cardinality({e \in DOMAIN Stages \ {d} : stage[w][e] # "none"}) < MaxDialogs
    /\ Moves(w, d, Stages[d], to)

\* What user_data holds for dialog d: the draft, or the key that was picked.
Keeps(w, d, x) ==
    /\ draft' = IF d = "add" THEN [draft EXCEPT ![w] = x] ELSE draft
    /\ editKey' = IF d = "edit" THEN [editKey EXCEPT ![w] = x] ELSE editKey
    /\ expKey' = IF d = "term" THEN [expKey EXCEPT ![w] = x] ELSE expKey

SameData == UNCHANGED <<draft, editKey, expKey>>

NothingElse == UNCHANGED <<licDisk, cache, issued, passed, licSignals, gone>>

AddStart(w) == Starts(w, "add", "name") /\ Keeps(w, "add", FALSE) /\ NothingElse

AddName(w) == Moves(w, "add", {"name"}, "email") /\ SameData /\ NothingElse

AddEmail(w) == Moves(w, "add", {"email"}, "features") /\ Keeps(w, "add", TRUE) /\ NothingElse

\* Features chosen while user_data is gone start an (empty) choice anew.
AddFeatures(w) ==
    /\ \/ Moves(w, "add", {"features"}, "expiry") /\ SameData
       \/ Moves(w, "add", {"features"}, "features") /\ Keeps(w, "add", TRUE)
    /\ NothingElse

AddExpiry(w) ==
    /\ IF draft[w] THEN Moves(w, "add", {"expiry"}, "confirm") /\ SameData
       ELSE Moves(w, "add", {"expiry"}, "none") /\ SameData
    /\ NothingElse

\* The administrator declines, or user_data is gone.
AddRefused(w) == Moves(w, "add", {"confirm"}, "none") /\ Keeps(w, "add", FALSE) /\ NothingElse

AddConfirm(w) ==
    /\ draft[w] /\ issued < MaxLics
    /\ Moves(w, "add", {"confirm"}, "none") /\ Keeps(w, "add", FALSE)
    /\ issued' = issued + 1
    /\ cache' = [cache EXCEPT ![w] = [k \in DOMAIN @ \cup {issued'} |->
                                         IF k = issued' THEN "active" ELSE @[k]]]
    /\ Truncate(w, NoCascade) /\ UNCHANGED <<passed, licSignals, gone>>

EditStart(w) == Starts(w, "edit", "pick") /\ Keeps(w, "edit", 0) /\ NothingElse

EditPick(w, k) ==
    /\ IF Has(w, k) THEN Moves(w, "edit", {"pick"}, "field") /\ Keeps(w, "edit", k)
       ELSE Moves(w, "edit", {"pick"}, "none") /\ SameData
    /\ NothingElse

\* Without the license the handler raises and the dialog stays where it is.
EditField(w) ==
    /\ \/ Has(w, editKey[w]) /\ Moves(w, "edit", {"field"}, "value") /\ SameData
       \/ Moves(w, "edit", {"field"}, "none") /\ Keeps(w, "edit", 0)
    /\ NothingElse

EditRefused(w) ==
    /\ ~Has(w, editKey[w]) /\ Moves(w, "edit", {"value"}, "none") /\ Keeps(w, "edit", 0)
    /\ NothingElse

\* Mutant: the license picked is put back, as it was, with the new value.
EditablePicked(w, k) == k # 0

Editable(w, k) == Has(w, k)

EditValue(w, k) ==
    /\ k = editKey[w] /\ Editable(w, k)
    /\ Moves(w, "edit", {"value"}, "none") /\ Keeps(w, "edit", 0)
    /\ cache' = [cache EXCEPT ![w] = [j \in DOMAIN @ \cup {k} |-> IF j \in DOMAIN @ THEN @[j] ELSE "active"]]
    /\ Truncate(w, NoCascade) /\ UNCHANGED <<issued, passed, licSignals, gone>>

ExpiryStart(w) == Starts(w, "term", "pick") /\ Keeps(w, "term", 0) /\ NothingElse

ExpiryPick(w, k) ==
    /\ IF Has(w, k) THEN Moves(w, "term", {"pick"}, "value") /\ Keeps(w, "term", k)
       ELSE Moves(w, "term", {"pick"}, "none") /\ SameData
    /\ NothingElse

ExpiryRefused(w) ==
    /\ ~Has(w, expKey[w]) /\ Moves(w, "term", {"value"}, "none") /\ Keeps(w, "term", 0)
    /\ NothingElse

\* A new expiry is a new key and secret for the same license; nothing is done
\* about what waits under the old one.
ExpiryValue(w, k) ==
    /\ k = expKey[w] /\ Has(w, k) /\ issued < MaxLics
    /\ Moves(w, "term", {"value"}, "none") /\ Keeps(w, "term", 0) /\ issued' = issued + 1
    /\ cache' = [cache EXCEPT ![w] = [j \in (DOMAIN @ \ {k}) \cup {issued'} |->
                                         IF j = issued' THEN @[k] ELSE @[j]]]
    /\ Truncate(w, NoCascade) /\ gone' = [gone EXCEPT ![w] = @ \cup {k}]
    /\ UNCHANGED <<passed, licSignals>>

Forget(w) ==
    /\ draft' = [draft EXCEPT ![w] = FALSE]
    /\ editKey' = [editKey EXCEPT ![w] = 0] /\ expKey' = [expKey EXCEPT ![w] = 0]

\* /cancel ends the first dialog that is open and clears the user_data of all.
FirstOpen(w, d) ==
    CASE d = "add" -> TRUE
      [] d = "edit" -> stage[w].add = "none"
      [] d = "term" -> stage[w].add = "none" /\ stage[w].edit = "none"

CancelConversation(w, d) ==
    /\ FirstOpen(w, d) /\ Moves(w, d, Stages[d] \ {"none"}, "none") /\ Forget(w) /\ NothingElse

\* Ten minutes pass, or a reply is not delivered: the dialog is over; a timeout
\* after a message clears the user_data of all.
ConversationEnds(w, d) ==
    /\ Moves(w, d, Stages[d] \ {"none"}, "none")
    /\ Forget(w) \/ (d = "add" /\ Keeps(w, d, FALSE)) \/ (d # "add" /\ Keeps(w, d, 0))
    /\ NothingElse

-----------------------------------------------------------------------------
LicNext ==
    \/ \E w \in LicWorkers : Dump(w) \/ Restart(w)
    \/ \E k \in Keys : Expires(k)
    \/ \E w \in LicWorkers, k \in Keys : Verify(w, k) \/ SaveVerified(w, k) \/ PollClaims(w, k)
    \/ \E w \in Bots :
          \/ BulkDeactivateExpired(w) \/ BulkActivateAll(w)
          \/ AddStart(w) \/ AddName(w) \/ AddEmail(w) \/ AddFeatures(w) \/ AddExpiry(w)
          \/ AddRefused(w) \/ AddConfirm(w)
          \/ EditStart(w) \/ EditField(w) \/ EditRefused(w)
          \/ ExpiryStart(w) \/ ExpiryRefused(w)
          \/ \E d \in {"add", "edit", "term"} : CancelConversation(w, d) \/ ConversationEnds(w, d)
          \/ \E k \in Keys : \/ DeleteLicense(w, k) \/ EditPick(w, k) \/ EditValue(w, k)
                             \/ ExpiryPick(w, k) \/ ExpiryValue(w, k)
                             \/ \E status \in LicStatuses : Toggle(w, k, status)

LicSpec == LicInit /\ [][LicNext]_licVars

-----------------------------------------------------------------------------
\* A license that a worker deleted or replaced is never put back by that worker,
\* whatever dialog about it was still open.
NoResurrection == \A w \in LicWorkers : gone[w] \cap DOMAIN cache[w] = {}

\* A restart changes nothing for the worker that wrote last: every change is in
\* the file once its write is through, unless a write failed, was cut short, or
\* went over another worker's.
RestartKeepsLicenses ==
    ~spoiled => \A w \in LicWorkers : Ready(w) /\ w = author => cache[w] = file

\* A deleted license's signals go with it (_cascade_delete_license).  What the
\* code does not prevent is named: the deletion that failed and was only logged
\* (kept), the webhook that had verified the license before it was deleted and
\* saved after (revived), and a write of the file that went wrong (spoiled).
NoOrphanSignals ==
    ~spoiled => \A k \in deleted \cap rows :
        k \in revived \cup kept \/ \E w \in LicWorkers : writing[w] = k
=============================================================================
