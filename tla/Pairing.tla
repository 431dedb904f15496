------------------------------- MODULE Pairing -------------------------------
(***************************************************************************)
(* Pairing: codes, the phones of an account, the default phone and the     *)
(* tokens phones act with.  Sources: internal/gateway/gateway.go,          *)
(* internal/store/devices.go.                                              *)
(*                                                                         *)
(* Pair is one transaction at READ COMMITTED.  Each of its statements is a *)
(* step: it sees what others have committed, waits for rows and unique     *)
(* keys that others have written and not committed, and is itself seen     *)
(* only after Commit; so a transaction here is what it has read and locked *)
(* so far, and its writes happen at Commit.  A statement takes its locks   *)
(* at once.  Unpairing and choosing the default are statements without a   *)
(* transaction.                                                            *)
(*                                                                         *)
(* A device is a handset on an account.  A request mints one token, and    *)
(* stands for it.  What MessageLifecycle says of a device (its switch, its *)
(* push registration) is left out, and so are names and settings.          *)
(***************************************************************************)
EXTENDS Naturals, FiniteSets

CONSTANTS
    Account,
    Handset,
    Code,
    AccountOf,      \* [Code -> Account]: who had the code made
    Request,        \* calls of Pair
    DeviceLimits,   \* the limits of the plans
    MaxUnderWay     \* bound: pairings and changes by the owner at once

ASSUME PairingAssumption ==
    /\ AccountOf \in [Code -> Account]
    /\ DeviceLimits \subseteq Nat
    /\ MaxUnderWay \in Nat

VARIABLES
    code,       \* pairing_codes: consumed_at, expires_at
    row,        \* devices: absent, live, or deleted_at is set
    isDefault,  \* devices.is_default
    unrevoked,  \* device_tokens: those with no revoked_at
    pair,       \* where each request stands
    unpairing,  \* devices deleted whose tokens are yet to be revoked
    choosing,   \* devices whose rivals for the default were cleared
    met,        \* ghost: requests that ran at the same time
    gone        \* ghost: tokens that once acted and no longer did

vars == <<code, row, isDefault, unrevoked, pair, unpairing, choosing, met, gone>>

Device == Account \X Handset

Idle == [at |-> "idle"]
Running == {"checked", "upserting", "retiring", "revoking", "counting", "consuming", "committing"}
Runs(p) == pair[p].at \in Running

MayStart ==
    Cardinality({p \in Request : Runs(p)}) + Cardinality(unpairing) + Cardinality(choosing)
       < MaxUnderWay

Goes(p, to) == pair' = [pair EXCEPT ![p].at = to]

(* A transaction that rolls back leaves nothing; the phone may ask again. *)
Refuse(p) ==
    /\ pair' = [pair EXCEPT ![p] = Idle]
    /\ met' = {m \in met : p \notin m}

DeviceOf(p) == <<AccountOf[pair[p].code], pair[p].handset>>

(* The phone a token lets act: GetDeviceByToken wants a live device. *)
Acting == {p \in unrevoked : row[DeviceOf(p)] = "live"}

Remember == gone' = gone \cup (Acting \ Acting')

-----------------------------------------------------------------------------
(* Locks *)

Upserted(p) == pair[p].at \in {"retiring", "revoking", "counting", "consuming", "committing"}

Holds(p, d) == Upserted(p) /\ (DeviceOf(p) = d \/ d \in pair[p].retired)

(* Will be the default when its transaction commits. *)
BecomesDefault(p, d) == isDefault[d] \/ pair[p].asDefault

WroteDefault(p, a) ==
    Upserted(p) /\ DeviceOf(p)[1] = a /\ BecomesDefault(p, DeviceOf(p))

HoldsCode(p, c) == pair[p].at = "committing" /\ pair[p].code = c

Others(p) == {d \in Device : d[2] = pair[p].handset /\ d # DeviceOf(p)}

(* What the next statement of p waits for. *)
WaitsFor(p, q) ==
    /\ q # p
    /\ \/ pair[p].at = "upserting" /\ Holds(q, DeviceOf(p))
       \/ /\ pair[p].at = "upserting" /\ BecomesDefault(p, DeviceOf(p))
          /\ WroteDefault(q, DeviceOf(p)[1])
       \/ pair[p].at = "retiring" /\ \E d \in Others(p) : row[d] = "live" /\ Holds(q, d)
       \/ pair[p].at = "consuming" /\ HoldsCode(q, pair[p].code)

MayGoOn(p) == \A q \in Request : ~ WaitsFor(p, q)

Free(d) == \A q \in Request : ~ Holds(q, d)

-----------------------------------------------------------------------------
(* The owner's codes *)

CreatePairingCode(c) ==
    /\ code[c] = "none"
    /\ code' = [code EXCEPT ![c] = "live"]
    /\ UNCHANGED <<row, isDefault, unrevoked, pair, unpairing, choosing, met, gone>>

Expire(c) ==
    /\ code[c] = "live"
    /\ code' = [code EXCEPT ![c] = "expired"]
    /\ UNCHANGED <<row, isDefault, unrevoked, pair, unpairing, choosing, met, gone>>

-----------------------------------------------------------------------------
(* Pair *)

Quiet == UNCHANGED <<code, row, isDefault, unrevoked, unpairing, choosing, gone>>

Call(at, c, h) ==
    [at |-> at, code |-> c, handset |-> h, asDefault |-> FALSE, retired |-> {}, revoked |-> {},
     limit |-> 0]

(* GetPairingCodeByHash: an unknown, used or expired code is refused. *)
ReadCode(p, c, h) ==
    /\ pair[p] = Idle /\ MayStart
    /\ code[c] = "live"
    /\ pair' = [pair EXCEPT ![p] = Call("checked", c, h)]
    /\ met' = met \cup {{p, q} : q \in {r \in Request : Runs(r)}}
    /\ Quiet

HasDefault(a) == \E d \in Device : d[1] = a /\ row[d] = "live" /\ isDefault[d]

ReadDefault(p) ==
    /\ pair[p].at = "checked"
    /\ pair' = [pair EXCEPT ![p].at = "upserting",
                            ![p].asDefault = ~ HasDefault(DeviceOf(p)[1])]
    /\ Quiet /\ UNCHANGED met

(* A bug to catch: nothing keeps a second default out. *)
DefaultTakenNever(d) == FALSE

(* devices_one_default_per_user: another live default is committed. *)
DefaultTaken(d) == \E e \in Device : e # d /\ e[1] = d[1] /\ row[e] = "live" /\ isDefault[e]

(* UpsertDevice: creates, revives or updates the row. *)
Upsert(p) ==
    /\ pair[p].at = "upserting" /\ MayGoOn(p)
    /\ IF BecomesDefault(p, DeviceOf(p)) /\ DefaultTaken(DeviceOf(p))
       THEN Refuse(p)
       ELSE Goes(p, "retiring") /\ UNCHANGED met
    /\ Quiet

(* RetireOtherPairings: the live rows of the handset elsewhere... *)
RetireRows(p) ==
    /\ pair[p].at = "retiring" /\ MayGoOn(p)
    /\ pair' = [pair EXCEPT ![p].at = "revoking",
                            ![p].retired = {d \in Others(p) : row[d] = "live"}]
    /\ Quiet /\ UNCHANGED met

(* A bug to catch: only the account's own pairings are looked at. *)
ElsewhereOwn(p) == {q \in unrevoked : DeviceOf(q) \in Others(p) /\ DeviceOf(q)[1] = DeviceOf(p)[1]}

Elsewhere(p) == {q \in unrevoked : DeviceOf(q) \in Others(p)}

(* ...and their tokens. *)
RevokeOthers(p) ==
    /\ pair[p].at = "revoking"
    /\ pair' = [pair EXCEPT ![p].at = "counting", ![p].revoked = Elsewhere(p)]
    /\ Quiet /\ UNCHANGED met

LiveDevices(a) == {d \in Device : d[1] = a /\ row[d] = "live"}

(* A bug to catch: the phone being paired is not counted. *)
OverLimitBefore(p, limit) == Cardinality(LiveDevices(DeviceOf(p)[1])) > limit

(* CountLiveDevices sees the phone being paired, and what others committed. *)
OverLimit(p, limit) == Cardinality(LiveDevices(DeviceOf(p)[1]) \cup {DeviceOf(p)}) > limit

(* EffectiveLimits: the plan may have changed since the last pairing; a plan *)
(* without a limit has a large one here.                                    *)
CheckLimit(p, limit) ==
    /\ pair[p].at = "counting"
    /\ IF OverLimit(p, limit)
       THEN Refuse(p)
       ELSE /\ pair' = [pair EXCEPT ![p].at = "consuming", ![p].limit = limit]
            /\ UNCHANGED met
    /\ Quiet

(* A bug to catch: the code is burnt whatever became of it since the check. *)
ConsumableStill(c) == TRUE

(* now() is when the transaction began, so a code that has expired since    *)
(* can still be used.                                                       *)
Consumable(c) == code[c] # "used"

ConsumePairingCode(p) ==
    /\ pair[p].at = "consuming" /\ MayGoOn(p)
    /\ IF Consumable(pair[p].code) THEN Goes(p, "committing") /\ UNCHANGED met ELSE Refuse(p)
    /\ Quiet

(* A bug to catch: a new token leaves the earlier ones of the device good. *)
EarlierNone(p) == {}

Earlier(p) == {q \in unrevoked : DeviceOf(q) = DeviceOf(p)}

(* CreateDeviceToken, and the commit. *)
Commit(p) ==
    /\ pair[p].at = "committing"
    /\ code' = [code EXCEPT ![pair[p].code] = "used"]
    /\ row' = [row EXCEPT ![DeviceOf(p)] = "live"]
    /\ isDefault' = [isDefault EXCEPT ![DeviceOf(p)] = BecomesDefault(p, DeviceOf(p))]
    /\ unrevoked' = (unrevoked \ (pair[p].revoked \cup Earlier(p))) \cup {p}
    /\ pair' = [pair EXCEPT ![p] = Call("paired", @.code, @.handset)]
    /\ Remember
    /\ UNCHANGED <<unpairing, choosing, met>>

(* A statement fails, the server dies, or the database finds transactions   *)
(* that wait for each other.                                                *)
RollsBack(p) ==
    /\ Runs(p)
    /\ Refuse(p)
    /\ Quiet

-----------------------------------------------------------------------------
(* Unpairing and the default *)

(* A bug to catch: a removed phone stays the default. *)
DefaultAfterDeleteKept(d) == isDefault[d]

DefaultAfterDelete(d) == FALSE

(* SoftDeleteDevice: the row... *)
SoftDelete(d) ==
    /\ row[d] = "live" /\ Free(d) /\ MayStart
    /\ row' = [row EXCEPT ![d] = "deleted"]
    /\ isDefault' = [isDefault EXCEPT ![d] = DefaultAfterDelete(d)]
    /\ unpairing' = unpairing \cup {d}
    /\ UNCHANGED <<code, unrevoked, pair, choosing, met>>
    /\ Remember

(* ...and its tokens. *)
RevokeTokens(d) ==
    /\ d \in unpairing
    /\ unpairing' = unpairing \ {d}
    /\ unrevoked' = {q \in unrevoked : DeviceOf(q) # d}
    /\ UNCHANGED <<code, row, isDefault, pair, choosing, met>>
    /\ Remember

UnpairFails(d) ==
    /\ d \in unpairing
    /\ unpairing' = unpairing \ {d}
    /\ UNCHANGED <<code, row, isDefault, unrevoked, pair, choosing, met, gone>>

(* SetDefaultDevice: the others first, though d may be deleted... *)
ClearOthers(d) ==
    /\ row[d] # "absent" /\ d \notin choosing /\ MayStart
    /\ \A e \in Device \ {d} : e[1] = d[1] /\ isDefault[e] => Free(e)
    /\ isDefault' = [e \in Device |-> isDefault[e] /\ (e[1] # d[1] \/ e = d)]
    /\ choosing' = choosing \cup {d}
    /\ UNCHANGED <<code, row, unrevoked, pair, unpairing, met, gone>>

(* ...then d, unless it is gone or another has become the default. *)
MakeDefault(d) ==
    /\ d \in choosing /\ Free(d)
    /\ row[d] = "live" => \A q \in Request : ~ WroteDefault(q, d[1])
    /\ isDefault' = [isDefault EXCEPT ![d] = @ \/ (row[d] = "live" /\ ~ DefaultTaken(d))]
    /\ choosing' = choosing \ {d}
    /\ UNCHANGED <<code, row, unrevoked, pair, unpairing, met, gone>>

SetDefaultFails(d) ==
    /\ d \in choosing
    /\ choosing' = choosing \ {d}
    /\ UNCHANGED <<code, row, isDefault, unrevoked, pair, unpairing, met, gone>>

-----------------------------------------------------------------------------
Init ==
    /\ code = [c \in Code |-> "none"]
    /\ row = [d \in Device |-> "absent"]
    /\ isDefault = [d \in Device |-> FALSE]
    /\ unrevoked = {}
    /\ pair = [p \in Request |-> Idle]
    /\ unpairing = {}
    /\ choosing = {}
    /\ met = {}
    /\ gone = {}

CodeStep(c) == CreatePairingCode(c) \/ Expire(c)

PairStep(p) ==
    \/ \E c \in Code, h \in Handset : ReadCode(p, c, h)
    \/ ReadDefault(p)
    \/ Upsert(p)
    \/ RetireRows(p)
    \/ RevokeOthers(p)
    \/ \E limit \in DeviceLimits : CheckLimit(p, limit)
    \/ ConsumePairingCode(p)
    \/ Commit(p)
    \/ RollsBack(p)

OwnerStep(d) ==
    \/ SoftDelete(d)
    \/ RevokeTokens(d)
    \/ UnpairFails(d)
    \/ ClearOthers(d)
    \/ MakeDefault(d)
    \/ SetDefaultFails(d)

Next ==
    \/ \E c \in Code : CodeStep(c)
    \/ \E p \in Request : PairStep(p)
    \/ \E d \in Device : OwnerStep(d)

Spec == Init /\ [][Next]_vars

-----------------------------------------------------------------------------
(* Properties *)

Attempts ==
    [at : Running \cup {"paired"}, code : Code, handset : Handset,
     asDefault : BOOLEAN, retired : SUBSET Device, revoked : SUBSET Request,
     limit : DeviceLimits \cup {0}]

(* Type correctness, and only live devices are defaults (SoftDeleteDevice). *)
TypeOK ==
    /\ code \in [Code -> {"none", "live", "expired", "used"}]
    /\ row \in [Device -> {"absent", "live", "deleted"}]
    /\ isDefault \in [Device -> BOOLEAN]
    /\ unrevoked \subseteq Request
    /\ pair \in [Request -> Attempts \cup {Idle}]
    /\ unpairing \subseteq Device
    /\ choosing \subseteq Device
    /\ met \subseteq SUBSET Request
    /\ gone \subseteq Request
    /\ \A d \in Device : isDefault[d] => row[d] = "live"

Paired == {p \in Request : pair[p].at = "paired"}

(* A code pairs one phone, however many requests bring it at once           *)
(* (ConsumePairingCode).                                                    *)
CodePairsOnce ==
    \A p, q \in Paired : pair[p].code = pair[q].code => p = q

(* At most one token acts for a device, and one that no longer acted, after *)
(* an unpairing, a new pairing or a pairing elsewhere, never acts again     *)
(* (CreateDeviceToken, RetireOtherPairings, SoftDeleteDevice).              *)
OneTokenActs ==
    /\ \A p, q \in Acting : DeviceOf(p) = DeviceOf(q) => p = q
    /\ Acting \cap gone = {}

(* An account never has two default phones, whatever phones are paired and  *)
(* chosen at once (HasDefaultDevice, SetDefaultDevice).                     *)
OneDefault ==
    \A d, e \in Device :
       d[1] = e[1] /\ isDefault[d] /\ isDefault[e] => d = e

Alone(p, Alike(_, _)) == \A q \in Request \ {p} : {p, q} \in met => ~ Alike(p, q)

SameHandset(p, q) == pair[p].handset = pair[q].handset
SameAccount(p, q) == AccountOf[pair[p].code] = AccountOf[pair[q].code]

(* Once a handset is paired, its other pairings do not act, unless another  *)
(* request for it ran at the same time (RetireOtherPairings).               *)
MovesThePhone ==
    [][\A p \in Request :
          Commit(p) /\ Alone(p, SameHandset)
             => {q \in Acting' : pair'[q].handset = pair[p].handset} = {p}]_vars

(* A pairing leaves the account within the limit of its plan, unless        *)
(* another request for it ran at the same time (CountLiveDevices).          *)
WithinLimit ==
    [][\A p \in Request :
          Commit(p) /\ Alone(p, SameAccount)
             => Cardinality(LiveDevices(DeviceOf(p)[1])') <= pair[p].limit]_vars

=============================================================================
