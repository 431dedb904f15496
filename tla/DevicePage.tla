----------------------------- MODULE DevicePage -----------------------------
(***************************************************************************)
(* The page of one phone, with its settings form.  Sources: src/web:       *)
(* app/(app)/devices/[id]/page.tsx and its hooks in lib/queries.ts.        *)
(*                                                                         *)
(* The fields that save together are a set, with values from another one;  *)
(* trimming, number formats and what the page only displays are left out.  *)
(* The phone's row changes at the API when it is saved here, and when a    *)
(* program or another browser changes it.                                  *)
(***************************************************************************)
EXTENDS Naturals, Sequences, QueryClient

CONSTANTS
    Field,          \* the fields of the form
    Value,          \* what a field may hold
    MaxChanges      \* bound: changes of the row made elsewhere

ASSUME DeviceAssumption == MaxChanges \in Nat /\ Value # {}

VARIABLES
    row,        \* the API: the phone's fields, whether it is enabled, the default
    changes,    \* changes made elsewhere so far
    device,     \* the cache: the row
    form,       \* SettingsFields: text, the row seen last, moved
    saving,     \* update.mutate, on its way to the API or back
    defaulting, \* setDefault.mutate, the same
    unpairing   \* the dialog that unpairs, and its request

deviceVars == <<row, changes, device, form, saving, defaulting, unpairing>>

Row == [fields : [Field -> Value], enabled : BOOLEAN, default : BOOLEAN]
NoFields == [at |-> "away"]

DeviceTypeOK ==
    /\ row \in Row /\ changes \in 0 .. MaxChanges
    /\ HasData(device) => device.data[1] \in Row
    /\ form.at \in {"away", "shown"}
    /\ form.at = "shown" =>
        /\ form.text \in [Field -> Value] /\ form.moved \in BOOLEAN
        /\ HasData(device) /\ form.seen = device.data[1]
    /\ saving[1] \in {"idle", "asked", "taken"} /\ defaulting \in {"idle", "asked", "taken"}
    /\ unpairing \in {"closed", "open", "asked", "taken", "gone"}

DeviceInit ==
    /\ row \in {r \in Row : r.enabled /\ ~r.default} /\ changes = 0
    /\ device = Ask(Empty, 0) /\ form = NoFields
    /\ saving = <<"idle">> /\ defaulting = "idle" /\ unpairing = "closed"

-----------------------------------------------------------------------------
(* SettingsFields. *)

Mounted(r) == [at |-> "shown", text |-> r.fields, seen |-> r, moved |-> FALSE]

(* A bug to catch: every field follows the phone's row. *)
MergeAll(f, r) == [f EXCEPT !.text = r.fields, !.seen = r]

(* A row that is not the one seen last: a field the reader has not touched  *)
(* follows it, one being edited stays and is warned of when it moved.       *)
Merge(f, r) ==
    LET edited == {x \in Field : f.text[x] # f.seen.fields[x]} IN
    [f EXCEPT
        !.text = [x \in Field |-> IF x \in edited THEN f.text[x] ELSE r.fields[x]],
        !.moved = @ \/ \E x \in edited : r.fields[x] # f.seen.fields[x],
        !.seen = r]

(* A bug to catch: the form is filled in once, and never again. *)
RenderOnce(q) ==
    IF q.failed \/ ~HasData(q) \/ unpairing = "gone" THEN NoFields
    ELSE IF form = NoFields THEN Mounted(q.data[1])
    ELSE form

(* What the page makes of the row in the cache: with an error in its place  *)
(* the form is gone, and comes back anew.                                   *)
Render(q) ==
    IF q.failed \/ ~HasData(q) \/ unpairing = "gone" THEN NoFields
    ELSE IF form = NoFields THEN Mounted(q.data[1])
    ELSE IF q.data[1] # form.seen THEN Merge(form, q.data[1])
    ELSE form

Dirty == form.text # form.seen.fields
Busy == saving # <<"idle">>

Edit(x, v) ==
    /\ form.at = "shown" /\ form.text[x] # v
    /\ form' = [form EXCEPT !.text[x] = v]
    /\ UNCHANGED <<row, changes, device, saving, defaulting, unpairing>>

(* Every field goes out, the ones the reader has not touched as last seen. *)
Save ==
    /\ form.at = "shown" /\ Dirty /\ ~Busy
    /\ form' = [form EXCEPT !.moved = FALSE]
    /\ saving' = <<"asked", "fields", form.text>>
    /\ UNCHANGED <<row, changes, device, defaulting, unpairing>>

(* The switches apply at once. *)
Switch ==
    /\ form.at = "shown" /\ ~Busy /\ saving' = <<"asked", "enabled", ~form.seen.enabled>>
    /\ UNCHANGED <<row, changes, device, form, defaulting, unpairing>>

(* It waits for no save, and no save waits for it. *)
MakeDefault ==
    /\ form.at = "shown" /\ ~form.seen.default /\ defaulting = "idle" /\ defaulting' = "asked"
    /\ UNCHANGED <<row, changes, device, form, saving, unpairing>>

(* The row in an answer is not used: the page asks for it again. *)
AskAgain == device' = IF unpairing = "gone" THEN device ELSE Invalidate(device, 0)

SaveArrives ==
    /\ saving[1] = "taken" /\ saving' = <<"idle">> /\ AskAgain
    /\ UNCHANGED <<row, changes, form, defaulting, unpairing>>

SaveFails ==
    /\ Busy /\ saving' = <<"idle">>
    /\ UNCHANGED <<row, changes, device, form, defaulting, unpairing>>

DefaultArrives ==
    /\ defaulting = "taken" /\ defaulting' = "idle" /\ AskAgain
    /\ UNCHANGED <<row, changes, form, saving, unpairing>>

DefaultFails ==
    /\ defaulting # "idle" /\ defaulting' = "idle"
    /\ UNCHANGED <<row, changes, device, form, saving, unpairing>>

DeviceAnswered ==
    /\ IsAnswered(device) /\ device' = Install(device) /\ form' = Render(device')
    /\ UNCHANGED <<row, changes, saving, defaulting, unpairing>>

DeviceFails ==
    /\ device.wire # Quiet /\ device' = Fail(device) /\ form' = Render(device')
    /\ UNCHANGED <<row, changes, saving, defaulting, unpairing>>

(* The window is focused again, or "Try again" is pressed. *)
DeviceRefetch ==
    /\ unpairing # "gone" /\ device.wire = Quiet /\ device' = Ask(device, 0)
    /\ UNCHANGED <<row, changes, form, saving, defaulting, unpairing>>

-----------------------------------------------------------------------------
(* Unpairing; once unpaired, the page gives way to the list of phones. *)

OpenUnpair ==
    /\ form.at = "shown" /\ unpairing = "closed" /\ unpairing' = "open"
    /\ UNCHANGED <<row, changes, device, form, saving, defaulting>>

CloseUnpair ==
    /\ unpairing = "open" /\ unpairing' = "closed"
    /\ UNCHANGED <<row, changes, device, form, saving, defaulting>>

Unpair ==
    /\ unpairing = "open" /\ form.at = "shown" /\ unpairing' = "asked"
    /\ UNCHANGED <<row, changes, device, form, saving, defaulting>>

UnpairArrives ==
    /\ unpairing = "taken" /\ unpairing' = "gone" /\ form' = NoFields
    /\ UNCHANGED <<row, changes, device, saving, defaulting>>

UnpairFails ==
    /\ unpairing \in {"asked", "taken"} /\ unpairing' = "open"
    /\ UNCHANGED <<row, changes, device, form, saving, defaulting>>

-----------------------------------------------------------------------------
(* The API, and other ways to it. *)

TakeSave ==
    /\ saving[1] = "asked" /\ saving' = <<"taken">>
    /\ row' = CASE saving[2] = "fields" -> [row EXCEPT !.fields = saving[3]]
                [] saving[2] = "enabled" -> [row EXCEPT !.enabled = saving[3]]
    /\ UNCHANGED <<changes, device, form, defaulting, unpairing>>

TakeDefault ==
    /\ defaulting = "asked" /\ defaulting' = "taken" /\ row' = [row EXCEPT !.default = TRUE]
    /\ UNCHANGED <<changes, device, form, saving, unpairing>>

ChangedElsewhere ==
    /\ changes < MaxChanges /\ changes' = changes + 1
    /\ \E x \in Field, v \in Value :
        v # row.fields[x] /\ row' = [row EXCEPT !.fields[x] = v]
    /\ UNCHANGED <<device, form, saving, defaulting, unpairing>>

ServeDevice ==
    /\ IsAsked(device) /\ device' = Serve(device, row)
    /\ UNCHANGED <<row, changes, form, saving, defaulting, unpairing>>

TakeUnpair ==
    /\ unpairing = "asked" /\ unpairing' = "taken"
    /\ UNCHANGED <<row, changes, device, form, saving, defaulting>>

DeviceNext ==
    \/ \E x \in Field, v \in Value : Edit(x, v)
    \/ Save \/ Switch \/ TakeSave \/ SaveArrives \/ SaveFails
    \/ MakeDefault \/ TakeDefault \/ DefaultArrives \/ DefaultFails
    \/ DeviceRefetch \/ ServeDevice \/ DeviceAnswered \/ DeviceFails \/ ChangedElsewhere
    \/ OpenUnpair \/ CloseUnpair \/ Unpair \/ TakeUnpair \/ UnpairArrives \/ UnpairFails

-----------------------------------------------------------------------------
(* "One being edited keeps what was typed": while the form stays, nothing   *)
(* but the reader changes a field that differs from the row seen last, and  *)
(* when the row moves under such a field the form says so.                  *)
EditsKept ==
    [][\A x \in Field :
        (DeviceAnswered /\ form.at = "shown" /\ form'.at = "shown"
            /\ form.text[x] # form.seen.fields[x]) =>
        /\ form'.text[x] = form.text[x]
        /\ form'.seen.fields[x] # form.seen.fields[x] => form'.moved]_deviceVars

=============================================================================
