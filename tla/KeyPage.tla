------------------------------ MODULE KeyPage ------------------------------
(***************************************************************************)
(* The page of the API keys: making one, whose secret is shown once,       *)
(* renaming, revoking, deleting.  Sources: src/web:                        *)
(* app/(app)/api-keys/page.tsx and its hooks in lib/queries.ts.            *)
(* What a key may do and when it expires are data of the form, left out.   *)
(***************************************************************************)
EXTENDS Naturals, Sequences, Mutations

CONSTANTS
    MaxKeys,        \* bound: keys ever made
    MaxPresses      \* bound: requests the reader makes

ASSUME KeysAssumption == MaxKeys \in Nat \ {0} /\ MaxPresses \in Nat

VARIABLES
    keys,       \* the API: the state of each key
    keyList,    \* the cache: the keys as the table shows them
    keyJobs,    \* the mutations of the page
    making,     \* CreateKeyDialog: open, and the key whose secret it shows
    asking,     \* the dialog over the table: which key, to do what
    given       \* ghost: requests of a dialog that has been closed since

keyVars == <<keys, keyList, keyJobs, making, asking, given>>

Ends == {"revoke", "delete"}
KeyKinds == {"create", "rename"} \cup Ends
NoKey == [key |-> 0, what |-> "rename"]

KeyTypeOK ==
    /\ Len(keys) <= MaxKeys
    /\ \A k \in DOMAIN keys : keys[k] \in {"active", "revoked", "deleted"}
    /\ Len(keyList) <= Len(keys)
    /\ \A r \in keyJobs.flying :
        r.no \in 1 .. keyJobs.count /\ r.kind \in KeyKinds /\ r.on \in 0 .. Len(keys)
    /\ making \in [open : BOOLEAN, shows : 0 .. Len(keys)]
    /\ asking \in [key : 0 .. Len(keys), what : {"rename"} \cup Ends]
    /\ given \subseteq 1 .. keyJobs.count

KeyInit ==
    /\ keys \in {<<>>, <<"active">>} /\ keyList = <<>>
    /\ keyJobs = NoRequests(KeyKinds)
    /\ making = [open |-> FALSE, shows |-> 0] /\ asking = NoKey /\ given = {}

-----------------------------------------------------------------------------
NothingOpen == ~making.open /\ asking = NoKey

OpenMaking ==
    /\ NothingOpen /\ making' = [making EXCEPT !.open = TRUE]
    /\ UNCHANGED <<keys, keyList, keyJobs, asking, given>>

(* A bug to catch: the button can be pressed again before the key is there. *)
MayCreateAgain == making.open /\ making.shows = 0

MayCreate == making.open /\ making.shows = 0 /\ ~Pending(keyJobs, "create")

CreateKey ==
    /\ MayCreate /\ keyJobs.count < MaxPresses
    /\ keyJobs' = Press(keyJobs, "create", 0)
    /\ UNCHANGED <<keys, keyList, making, asking, given>>

(* Cancel, Done, Escape: all of them close(false), which resets everything. *)
CloseMaking ==
    /\ making.open
    /\ making' = [open |-> FALSE, shows |-> 0]
    /\ keyJobs' = Unhear(keyJobs, {"create"})
    /\ given' = given \cup {r.no : r \in {f \in keyJobs.flying : f.kind = "create"}}
    /\ UNCHANGED <<keys, keyList, asking>>

(* The words in a row of the table. *)
AskAbout(k, what) ==
    /\ NothingOpen
    /\ keyList[k] # "deleted" /\ (what = "revoke" => keyList[k] = "active")
    /\ asking' = [key |-> k, what |-> what]
    /\ UNCHANGED <<keys, keyList, keyJobs, making, given>>

DropAsking ==
    /\ asking # NoKey /\ asking' = NoKey
    /\ UNCHANGED <<keys, keyList, keyJobs, making, given>>

(* One dialog serves to revoke and to delete: either request disables it. *)
MayConfirm ==
    IF asking.what = "rename" THEN ~Pending(keyJobs, "rename")
    ELSE \A e \in Ends : ~Pending(keyJobs, e)

ConfirmKey ==
    /\ asking # NoKey /\ MayConfirm /\ keyJobs.count < MaxPresses
    /\ keyJobs' = Press(keyJobs, asking.what, asking.key)
    /\ UNCHANGED <<keys, keyList, making, asking, given>>

(* The table is asked for again after every change, and on focus; with the  *)
(* switch off it leaves out the revoked keys. *)
KeysRefresh ==
    /\ keyList # keys /\ keyList' = keys
    /\ UNCHANGED <<keys, keyJobs, making, asking, given>>

(* setRenaming(null), setConfirm(null): whichever dialog of the kind is open. *)
ClosedBy(kind) ==
    asking' = IF (asking.what = "rename") = (kind = "rename") THEN NoKey ELSE asking

KeyJobDone(r) ==
    /\ r.at = "done" /\ keyJobs' = Over(keyJobs, r)
    /\ keyList' \in {keyList, keys}
    /\ IF ~Heard(keyJobs, r) THEN UNCHANGED <<making, asking>>
       ELSE IF r.kind = "create"
            THEN making' = [making EXCEPT !.shows = r.on] /\ UNCHANGED asking
            ELSE ClosedBy(r.kind) /\ UNCHANGED making
    /\ UNCHANGED <<keys, given>>

(* A toast says so; the dialog stays. *)
KeyJobFails(r) ==
    /\ keyJobs' = Over(keyJobs, r)
    /\ UNCHANGED <<keys, keyList, making, asking, given>>

(* The reader leaves for another page, or the shell takes this one down. *)
LeaveKeys ==
    /\ keyJobs' = Unhear(keyJobs, KeyKinds)
    /\ making' = [open |-> FALSE, shows |-> 0] /\ asking' = NoKey
    /\ given' = given \cup {r.no : r \in keyJobs.flying}
    /\ UNCHANGED <<keys, keyList>>

-----------------------------------------------------------------------------
(* The API.  A key that is gone cannot be changed; a revoked one stays so. *)
TakeKeyJob(r) ==
    /\ r.at = "asked"
    /\ \/ /\ r.kind = "create" /\ Len(keys) < MaxKeys
          /\ keys' = Append(keys, "active")
          /\ keyJobs' = Answered(keyJobs, r, "done", Len(keys) + 1)
       \/ /\ r.kind # "create" /\ keys[r.on] # "deleted"
          /\ keys' = [keys EXCEPT ![r.on] =
                 IF r.kind = "delete" THEN "deleted"
                 ELSE IF r.kind = "revoke" THEN "revoked" ELSE @]
          /\ keyJobs' = Answered(keyJobs, r, "done", r.on)
       \/ UNCHANGED keys /\ keyJobs' = Answered(keyJobs, r, "refused", r.on)
    /\ UNCHANGED <<keyList, making, asking, given>>

KeyNext ==
    \/ OpenMaking \/ CreateKey \/ CloseMaking \/ DropAsking \/ ConfirmKey
    \/ \E k \in DOMAIN keyList, what \in {"rename"} \cup Ends : AskAbout(k, what)
    \/ KeysRefresh \/ LeaveKeys
    \/ \E r \in keyJobs.flying : TakeKeyJob(r) \/ KeyJobDone(r) \/ KeyJobFails(r)

-----------------------------------------------------------------------------
(* A key the API has made is shown by the dialog that asked for it, unless  *)
(* the reader has closed it since, and stays there until they do.           *)
KeySecretKept ==
    /\ [][\A r \in keyJobs.flying :
            (KeyJobDone(r) /\ r.kind = "create" /\ r.no \notin given) =>
                making'.open /\ making'.shows = r.on]_keyVars
    /\ [][making.shows # 0 => (making'.shows = making.shows \/ ~making'.open)]_keyVars

=============================================================================
