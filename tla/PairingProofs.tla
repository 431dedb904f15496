---------------------------- MODULE PairingProofs ----------------------------
(***************************************************************************)
(* What holds of pairing for every set of accounts, handsets, codes and    *)
(* requests, however many of them overlap.                                 *)
(***************************************************************************)
EXTENDS Pairing, FiniteSetTheorems, TLAPS

(* Tokens are those of finished pairings. *)
TokensOfPaired == unrevoked \subseteq Paired /\ gone \subseteq Paired

(* A code that paired a phone is used; one that is about to is not, and is  *)
(* locked by one request only.                                              *)
CodesLocked ==
    /\ \A p \in Paired : code[pair[p].code] = "used"
    /\ \A p \in Request : pair[p].at = "committing" => code[pair[p].code] # "used"
    /\ \A p, q \in Request :
          pair[p].at = "committing" /\ pair[q].at = "committing" /\ pair[p].code = pair[q].code
             => p = q

(* A row that was upserted is locked by one request only; while one is about *)
(* to become the default, no other is or will be.                            *)
RowsLocked ==
    \A p, q \in Request :
       Upserted(p) /\ Upserted(q) /\ DeviceOf(p) = DeviceOf(q) => p = q

DefaultLocked ==
    \A p \in Request :
       Upserted(p) /\ BecomesDefault(p, DeviceOf(p))
          => /\ ~ DefaultTaken(DeviceOf(p))
             /\ \A q \in Request : WroteDefault(q, DeviceOf(p)[1]) => q = p

(* A device has one token that was not revoked. *)
OneTokenLeft ==
    \A p, q \in unrevoked : DeviceOf(p) = DeviceOf(q) => p = q

Inv ==
    /\ TypeOK
    /\ TokensOfPaired
    /\ CodesLocked
    /\ CodePairsOnce
    /\ RowsLocked
    /\ DefaultLocked
    /\ OneDefault
    /\ OneTokenLeft
    /\ Acting \cap gone = {}

LEMMA InitInv == Init => Inv
<1> SUFFICES ASSUME Init PROVE Inv
  OBVIOUS
<1>1. TypeOK
  BY DEF Init, TypeOK
<1>2. \A p \in Request : pair[p].at = "idle"
  BY DEF Init, Idle
<1>3. TokensOfPaired /\ CodesLocked /\ CodePairsOnce /\ OneTokenLeft /\ Acting \cap gone = {}
  BY <1>2 DEF Init, TokensOfPaired, CodesLocked, CodePairsOnce, Paired, OneTokenLeft, Acting
<1>4. RowsLocked /\ DefaultLocked
  BY <1>2 DEF RowsLocked, DefaultLocked, Upserted
<1>5. OneDefault
  BY DEF Init, OneDefault
<1>6. QED
  BY <1>1, <1>3, <1>4, <1>5 DEF Inv

-----------------------------------------------------------------------------
(* What a request has read and locked changes; nothing is written yet. *)

Unwritten ==
    UNCHANGED <<code, row, isDefault, unrevoked, unpairing, choosing, gone>>

(* A request changes only where it stands, and passes a lock only when free. *)
Locks(p) ==
    /\ pair[p].at # "paired" /\ pair'[p].at # "paired"
    /\ pair'[p].at = "committing" =>
          /\ pair'[p].code = pair[p].code
          /\ Consumable(pair[p].code)
          /\ \A q \in Request \ {p} : ~ HoldsCode(q, pair[p].code)
    /\ Upserted(p)' =>
          /\ pair'[p].code = pair[p].code /\ pair'[p].handset = pair[p].handset
          /\ pair'[p].asDefault = pair[p].asDefault
          /\ \/ Upserted(p)
             \/ /\ \A q \in Request \ {p} : ~ Holds(q, DeviceOf(p))
                /\ BecomesDefault(p, DeviceOf(p)) =>
                      /\ ~ DefaultTaken(DeviceOf(p))
                      /\ \A q \in Request \ {p} : ~ WroteDefault(q, DeviceOf(p)[1])

(* What it has read is kept until it commits; it notes whom it meets, and     *)
(* only a request that ends is forgotten.                                    *)
HasRevoked(p) == pair[p].at \in {"counting", "consuming", "committing"}
InTheLimit(p) == pair[p].at \in {"consuming", "committing"}

Reads(p) ==
    /\ HasRevoked(p)' => \/ HasRevoked(p) /\ pair'[p].revoked = pair[p].revoked
                        \/ pair'[p].revoked = Elsewhere(p)
    /\ InTheLimit(p)' => \/ InTheLimit(p) /\ pair'[p].limit = pair[p].limit
                        \/ /\ pair'[p].limit \in DeviceLimits
                           /\ ~ OverLimit(p, pair'[p].limit)

Meets(p) ==
    /\ \A m \in met : p \notin m \/ Runs(p)' => m \in met'
    /\ Runs(p)' => \/ Runs(p)
                  \/ \A q \in Request : Runs(q) => {p, q} \in met'

LEMMA AttemptKinds ==
  ASSUME TypeOK, NEW p \in Request, pair[p] # Idle
  PROVE  pair[p] \in Attempts
BY DEF TypeOK

LEMMA RequestStep ==
  ASSUME TypeOK, NEW p \in Request, PairStep(p), ~ Commit(p)
  PROVE  /\ Unwritten
         /\ pair' \in [Request -> Attempts \cup {Idle}]
         /\ \A q \in Request \ {p} : pair'[q] = pair[q]
         /\ met' \subseteq SUBSET Request
         /\ Locks(p) /\ Reads(p) /\ Meets(p)
<1>1. Unwritten
  BY DEF PairStep, ReadCode, ReadDefault, Upsert, RetireRows, RevokeOthers, CheckLimit,
         ConsumePairingCode, RollsBack, Quiet, Unwritten
<1>2. met' \subseteq SUBSET Request
  BY DEF PairStep, ReadCode, ReadDefault, Upsert, RetireRows, RevokeOthers, CheckLimit,
         ConsumePairingCode, RollsBack, Refuse, TypeOK
<1> USE DEF HasRevoked, InTheLimit
<1>3. CASE Refuse(p) /\ Runs(p)
  <2>1. pair' = [pair EXCEPT ![p] = Idle]
    BY <1>3 DEF Refuse
  <2>2. pair'[p].at = "idle" /\ pair[p].at # "paired"
    BY <1>3, <2>1 DEF TypeOK, Idle, Runs, Running
  <2>3. Locks(p) /\ Reads(p)
    BY <2>2 DEF Locks, Reads, Upserted
  <2>4. Meets(p)
    BY <1>3, <2>2 DEF Refuse, Meets, Runs, Running
  <2>5. QED
    BY <1>1, <1>2, <2>1, <2>3, <2>4 DEF TypeOK
<1>4. CASE \E c \in Code, h \in Handset : ReadCode(p, c, h)
  <2> PICK c \in Code, h \in Handset : ReadCode(p, c, h)
    BY <1>4
  <2>1. Call("checked", c, h) \in Attempts
    BY DEF Call, Attempts, Running
  <2>2. pair' = [pair EXCEPT ![p] = Call("checked", c, h)] /\ pair[p].at = "idle"
    BY DEF ReadCode, Idle
  <2>3. pair'[p].at = "checked"
    BY <2>2 DEF TypeOK, Call
  <2>4. Locks(p) /\ Reads(p)
    BY <2>2, <2>3 DEF Locks, Reads, Upserted
  <2>5. Meets(p)
    BY DEF ReadCode, Meets
  <2>6. QED
    BY <1>1, <1>2, <2>1, <2>2, <2>4, <2>5 DEF TypeOK
<1>5. ASSUME NEW a \in Attempts, pair' = [pair EXCEPT ![p] = a]
      PROVE  /\ pair' \in [Request -> Attempts \cup {Idle}]
             /\ \A q \in Request \ {p} : pair'[q] = pair[q]
             /\ pair'[p] = a
  BY <1>5 DEF TypeOK
<1>15. /\ ReadDefault(p) \/ RetireRows(p) \/ RevokeOthers(p) => Meets(p)
       /\ ~ Refuse(p) =>
            /\ Upsert(p) \/ ConsumePairingCode(p) => Meets(p)
            /\ \A limit \in DeviceLimits : CheckLimit(p, limit) => Meets(p)
  BY DEF ReadDefault, Upsert, RetireRows, RevokeOthers, CheckLimit, ConsumePairingCode,
         Meets, Runs, Running
<1>6. CASE ReadDefault(p)
  <2> DEFINE a == [pair[p] EXCEPT !.at = "upserting", !.asDefault = ~ HasDefault(DeviceOf(p)[1])]
  <2>1. pair[p] \in Attempts
    BY <1>6, AttemptKinds DEF ReadDefault, Idle
  <2>2. a \in Attempts /\ a.at = "upserting"
    BY <2>1 DEF Attempts, Running
  <2>3. pair' = [pair EXCEPT ![p] = a]
    BY <1>6 DEF ReadDefault
  <2> HIDE DEF a
  <2>4. pair'[p] = a
    BY <2>2, <2>3, <1>5
  <2>5. Locks(p) /\ Reads(p)
    BY <1>6, <2>2, <2>4 DEF ReadDefault, Locks, Reads, Upserted
  <2>6. QED
    BY <1>1, <1>2, <1>5, <1>15, <1>6, <2>2, <2>3, <2>5
<1>7. CASE Upsert(p) /\ ~ Refuse(p)
  <2> DEFINE a == [pair[p] EXCEPT !.at = "retiring"]
  <2>1. pair[p] \in Attempts
    BY <1>7, AttemptKinds DEF Upsert, Idle
  <2>2. /\ a \in Attempts /\ a.at = "retiring" /\ a.code = pair[p].code
        /\ a.handset = pair[p].handset /\ a.asDefault = pair[p].asDefault
    BY <2>1 DEF Attempts, Running
  <2>3. pair' = [pair EXCEPT ![p] = a]
    BY <1>7 DEF Upsert, Goes
  <2> HIDE DEF a
  <2>4. pair'[p] = a
    BY <2>2, <2>3, <1>5
  <2>5. /\ \A q \in Request \ {p} : ~ Holds(q, DeviceOf(p))
        /\ BecomesDefault(p, DeviceOf(p)) =>
              /\ ~ DefaultTaken(DeviceOf(p))
              /\ \A q \in Request \ {p} : ~ WroteDefault(q, DeviceOf(p)[1])
    BY <1>7 DEF Upsert, MayGoOn, WaitsFor
  <2>6. Locks(p) /\ Reads(p)
    BY <1>7, <2>2, <2>4, <2>5 DEF Upsert, Locks, Reads, Upserted
  <2>7. QED
    BY <1>1, <1>2, <1>5, <1>15, <1>7, <2>2, <2>3, <2>6
<1>8. CASE RetireRows(p)
  <2> DEFINE a == [pair[p] EXCEPT !.at = "revoking",
                                  !.retired = {d \in Others(p) : row[d] = "live"}]
  <2>1. pair[p] \in Attempts
    BY <1>8, AttemptKinds DEF RetireRows, Idle
  <2>2. /\ a \in Attempts /\ a.at = "revoking" /\ a.code = pair[p].code
        /\ a.handset = pair[p].handset /\ a.asDefault = pair[p].asDefault
    BY <2>1 DEF Attempts, Running, Others
  <2>3. pair' = [pair EXCEPT ![p] = a]
    BY <1>8 DEF RetireRows
  <2> HIDE DEF a
  <2>4. pair'[p] = a
    BY <2>2, <2>3, <1>5
  <2>5. Locks(p) /\ Reads(p)
    BY <1>8, <2>2, <2>4 DEF RetireRows, Locks, Reads, Upserted
  <2>6. QED
    BY <1>1, <1>2, <1>5, <1>15, <1>8, <2>2, <2>3, <2>5
<1>9. CASE RevokeOthers(p)
  <2> DEFINE a == [pair[p] EXCEPT !.at = "counting", !.revoked = Elsewhere(p)]
  <2>1. pair[p] \in Attempts
    BY <1>9, AttemptKinds DEF RevokeOthers, Idle
  <2>2. /\ a \in Attempts /\ a.at = "counting" /\ a.code = pair[p].code
        /\ a.handset = pair[p].handset /\ a.asDefault = pair[p].asDefault
        /\ a.revoked = Elsewhere(p)
    BY <2>1 DEF Attempts, Running, Elsewhere, TypeOK
  <2>3. pair' = [pair EXCEPT ![p] = a]
    BY <1>9 DEF RevokeOthers
  <2> HIDE DEF a
  <2>4. pair'[p] = a
    BY <2>2, <2>3, <1>5
  <2>5. Locks(p) /\ Reads(p)
    BY <1>9, <2>2, <2>4 DEF RevokeOthers, Locks, Reads, Upserted
  <2>6. QED
    BY <1>1, <1>2, <1>5, <1>15, <1>9, <2>2, <2>3, <2>5
<1>10. CASE (\E limit \in DeviceLimits : CheckLimit(p, limit)) /\ ~ Refuse(p)
  <2> PICK limit \in DeviceLimits : CheckLimit(p, limit)
    BY <1>10
  <2> DEFINE a == [pair[p] EXCEPT !.at = "consuming", !.limit = limit]
  <2>1. pair[p] \in Attempts
    BY AttemptKinds DEF CheckLimit, Idle
  <2>2. /\ a \in Attempts /\ a.at = "consuming" /\ a.code = pair[p].code
        /\ a.handset = pair[p].handset /\ a.asDefault = pair[p].asDefault
        /\ a.revoked = pair[p].revoked /\ a.limit = limit
    BY <2>1 DEF Attempts, Running
  <2>3. pair' = [pair EXCEPT ![p] = a]
    BY <1>10 DEF CheckLimit
  <2> HIDE DEF a
  <2>4. pair'[p] = a
    BY <2>2, <2>3, <1>5
  <2>5. Locks(p) /\ Reads(p)
    BY <1>10, <2>2, <2>4 DEF CheckLimit, Locks, Reads, Upserted
  <2>6. QED
    BY <1>1, <1>2, <1>5, <1>15, <1>10, <2>2, <2>3, <2>5
<1>11. CASE ConsumePairingCode(p) /\ ~ Refuse(p)
  <2> DEFINE a == [pair[p] EXCEPT !.at = "committing"]
  <2>1. pair[p] \in Attempts
    BY <1>11, AttemptKinds DEF ConsumePairingCode, Idle
  <2>2. /\ a \in Attempts /\ a.at = "committing" /\ a.code = pair[p].code
        /\ a.handset = pair[p].handset /\ a.asDefault = pair[p].asDefault
        /\ a.revoked = pair[p].revoked /\ a.limit = pair[p].limit
    BY <2>1 DEF Attempts, Running
  <2>3. pair' = [pair EXCEPT ![p] = a]
    BY <1>11 DEF ConsumePairingCode, Goes
  <2> HIDE DEF a
  <2>4. pair'[p] = a
    BY <2>2, <2>3, <1>5
  <2>5. Consumable(pair[p].code) /\ \A q \in Request \ {p} : ~ HoldsCode(q, pair[p].code)
    BY <1>11 DEF ConsumePairingCode, MayGoOn, WaitsFor
  <2>6. Locks(p) /\ Reads(p)
    BY <1>11, <2>2, <2>4, <2>5 DEF ConsumePairingCode, Locks, Reads, Upserted
  <2>7. QED
    BY <1>1, <1>2, <1>5, <1>15, <1>11, <2>2, <2>3, <2>6
<1>12. (Upsert(p) \/ ConsumePairingCode(p) \/ RollsBack(p) \/ \E l \in DeviceLimits : CheckLimit(p, l))
         => Runs(p)
  BY DEF Upsert, ConsumePairingCode, RollsBack, CheckLimit, Runs, Running
<1>13. RollsBack(p) => Refuse(p)
  BY DEF RollsBack
<1>14. QED
  BY <1>3, <1>4, <1>6, <1>7, <1>8, <1>9, <1>10, <1>11, <1>12, <1>13 DEF PairStep

(* The parts of the invariant that only such a step of a request disturbs. *)
LEMMA RequestInv ==
  ASSUME Inv, NEW p \in Request, PairStep(p), ~ Commit(p)
  PROVE  Inv'
<1>1. /\ Unwritten
      /\ pair' \in [Request -> Attempts \cup {Idle}]
      /\ \A q \in Request \ {p} : pair'[q] = pair[q]
      /\ met' \subseteq SUBSET Request
      /\ Locks(p)
  BY RequestStep DEF Inv
<1>2. TypeOK'
  BY <1>1 DEF Inv, TypeOK, Unwritten
<1>3. /\ Paired' = Paired
      /\ \A q \in Paired : pair'[q] = pair[q]
  BY <1>1 DEF Paired, Locks
<1>4. TokensOfPaired' /\ CodePairsOnce'
  BY <1>1, <1>3 DEF Inv, TokensOfPaired, CodePairsOnce, Unwritten
<1>5. CodesLocked'
  <2>1. \A q \in Paired' : code'[pair'[q].code] = "used"
    BY <1>1, <1>3 DEF Inv, CodesLocked, Unwritten
  <2>2. \A q \in Request : pair'[q].at = "committing" => code'[pair'[q].code] # "used"
    BY <1>1 DEF Inv, CodesLocked, Unwritten, Locks, Consumable
  <2>3. \A q, r \in Request :
           pair'[q].at = "committing" /\ pair'[r].at = "committing" /\ pair'[q].code = pair'[r].code
              => q = r
    BY <1>1 DEF Inv, CodesLocked, Locks, HoldsCode
  <2>4. QED
    BY <2>1, <2>2, <2>3 DEF CodesLocked
<1>6. /\ \A q \in Request \ {p} : DeviceOf(q)' = DeviceOf(q) /\ Upserted(q)' = Upserted(q)
      /\ Upserted(p)' => DeviceOf(p)' = DeviceOf(p)
  BY <1>1 DEF DeviceOf, Upserted, Locks
<1>7. RowsLocked'
  BY <1>1, <1>6 DEF Inv, RowsLocked, Locks, Holds
<1>8. DefaultLocked'
  <2>1. \A q \in Request : \A d : Upserted(q)' => BecomesDefault(q, d)' = BecomesDefault(q, d)
    BY <1>1 DEF BecomesDefault, Unwritten, Locks
  <2>2. \A d : DefaultTaken(d)' = DefaultTaken(d)
    BY <1>1 DEF DefaultTaken, Unwritten
  <2>3. \A q \in Request \ {p} : \A a : WroteDefault(q, a)' = WroteDefault(q, a)
    BY <1>6, <2>1 DEF WroteDefault
  <2>4. ASSUME NEW q \in Request, Upserted(q)', BecomesDefault(q, DeviceOf(q))',
               NEW r \in Request, WroteDefault(r, DeviceOf(q)[1])', r # q
        PROVE  FALSE
    <3>1. BecomesDefault(q, DeviceOf(q)) /\ DeviceOf(q)' = DeviceOf(q)
      BY <1>6, <2>1, <2>4
    <3>2. Upserted(r)' /\ DeviceOf(r)' = DeviceOf(r) /\ BecomesDefault(r, DeviceOf(r))
          /\ DeviceOf(r)[1] = DeviceOf(q)[1]
      BY <1>6, <2>1, <2>4, <3>1 DEF WroteDefault
    <3>3. (q # p => Upserted(q)) /\ (r # p => Upserted(r))
      BY <1>6, <2>4, <3>2
    <3>4. CASE Upserted(q) /\ Upserted(r)
      BY <2>4, <3>1, <3>2, <3>4 DEF Inv, DefaultLocked, WroteDefault
    <3>5. CASE q = p /\ ~ Upserted(p)
      <4>1. Upserted(r)
        BY <2>4, <3>3, <3>5
      <4>2. WroteDefault(r, DeviceOf(p)[1])
        BY <3>2, <3>5, <4>1 DEF WroteDefault
      <4>3. QED
        BY <1>1, <2>4, <3>1, <3>5, <4>2 DEF Locks
    <3>6. CASE r = p /\ ~ Upserted(p)
      <4>1. Upserted(q)
        BY <2>4, <3>3, <3>6
      <4>2. WroteDefault(q, DeviceOf(p)[1])
        BY <3>1, <3>2, <3>6, <4>1 DEF WroteDefault
      <4>3. QED
        BY <1>1, <2>4, <3>2, <3>6, <4>2 DEF Locks
    <3>7. QED
      BY <3>3, <3>4, <3>5, <3>6
  <2>5. ASSUME NEW q \in Request, Upserted(q)', BecomesDefault(q, DeviceOf(q))'
        PROVE  ~ DefaultTaken(DeviceOf(q))'
    <3>1. BecomesDefault(q, DeviceOf(q)) /\ DeviceOf(q)' = DeviceOf(q)
      BY <1>6, <2>1, <2>5
    <3>2. ~ DefaultTaken(DeviceOf(q))
      BY <1>1, <1>6, <2>5, <3>1 DEF Inv, DefaultLocked, Locks
    <3>3. QED
      BY <1>1, <3>1, <3>2 DEF DefaultTaken, Unwritten
  <2>6. QED
    BY <2>4, <2>5 DEF DefaultLocked
<1>9. OneDefault'
  BY <1>1 DEF Inv, OneDefault, Unwritten
<1>10. \A q \in unrevoked : DeviceOf(q)' = DeviceOf(q)
  BY <1>3 DEF Inv, TokensOfPaired, DeviceOf
<1>11. OneTokenLeft' /\ Acting' \cap gone' = {}
  BY <1>1, <1>10 DEF Inv, OneTokenLeft, Acting, Unwritten
<1>12. QED
  BY <1>2, <1>4, <1>5, <1>7, <1>8, <1>9, <1>11 DEF Inv

(* The commit: everything the transaction did becomes seen at once. *)
LEMMA CommitInv ==
  ASSUME Inv, NEW p \in Request, Commit(p)
  PROVE  Inv'
<1> USE PairingAssumption
<1>1. pair[p] \in Attempts /\ pair[p].at = "committing" /\ Upserted(p)
  BY AttemptKinds DEF Inv, Commit, Idle, Upserted
<1>2. /\ pair' \in [Request -> Attempts \cup {Idle}]
      /\ pair'[p].at = "paired"
      /\ pair'[p].code = pair[p].code /\ pair'[p].handset = pair[p].handset
      /\ \A q \in Request \ {p} : pair'[q] = pair[q]
  <2>1. Call("paired", pair[p].code, pair[p].handset) \in Attempts
    BY <1>1 DEF Call, Attempts
  <2>2. pair' = [pair EXCEPT ![p] = Call("paired", pair[p].code, pair[p].handset)]
    BY DEF Commit
  <2>3. QED
    BY <2>1, <2>2 DEF Inv, TypeOK, Call
<1>3. /\ \A q \in Request : DeviceOf(q)' = DeviceOf(q)
      /\ \A q \in Request \ {p} : Upserted(q)' = Upserted(q)
      /\ ~ Upserted(p)'
      /\ Paired' = Paired \cup {p}
      /\ p \notin Paired
  BY <1>1, <1>2 DEF DeviceOf, Upserted, Paired
<1>4. DeviceOf(p) \in Device
  BY <1>1 DEF DeviceOf, Device, Attempts
<1>5. /\ isDefault' = [isDefault EXCEPT ![DeviceOf(p)] = BecomesDefault(p, DeviceOf(p))]
      /\ row' = [row EXCEPT ![DeviceOf(p)] = "live"]
      /\ unrevoked' = (unrevoked \ (pair[p].revoked \cup Earlier(p))) \cup {p}
      /\ code' = [code EXCEPT ![pair[p].code] = "used"]
      /\ gone' = gone \cup (Acting \ Acting')
      /\ UNCHANGED <<unpairing, choosing, met>>
  BY DEF Commit, Remember
<1>6. BecomesDefault(p, DeviceOf(p)) \in BOOLEAN
  BY <1>1, <1>4 DEF Inv, TypeOK, BecomesDefault, Attempts
<1>7. Acting \subseteq Paired /\ gone \subseteq Paired
  BY DEF Acting, Inv, TokensOfPaired
<1>8. TypeOK'
  <2>1. pair[p].code \in Code
    BY <1>1 DEF Attempts
  <2>2. code' \in [Code -> {"none", "live", "expired", "used"}]
    BY <1>5, <2>1 DEF Inv, TypeOK
  <2>3. row' \in [Device -> {"absent", "live", "deleted"}] /\ isDefault' \in [Device -> BOOLEAN]
    BY <1>4, <1>5, <1>6 DEF Inv, TypeOK
  <2>4. unrevoked' \subseteq Request /\ gone' \subseteq Request
    BY <1>5, <1>7 DEF Inv, TypeOK, Paired
  <2>5. \A d \in Device : isDefault'[d] => row'[d] = "live"
    BY <1>4, <1>5 DEF Inv, TypeOK
  <2>6. QED
    BY <1>2, <1>5, <2>2, <2>3, <2>4, <2>5 DEF Inv, TypeOK
<1>9. TokensOfPaired'
  BY <1>3, <1>5, <1>7 DEF Inv, TokensOfPaired
<1>10. CodesLocked' /\ CodePairsOnce'
  <2>1. \A q \in Request : pair'[q].at = "committing" =>
           q # p /\ pair[q].at = "committing" /\ pair'[q].code = pair[q].code
           /\ pair[q].code # pair[p].code
    BY <1>1, <1>2 DEF Inv, CodesLocked
  <2>2. \A q \in Paired : pair'[q].code = pair[q].code /\ pair[q].code # pair[p].code
    BY <1>1, <1>2, <1>3 DEF Inv, CodesLocked, Paired
  <2>3. pair[p].code \in Code /\ code'[pair[p].code] = "used"
    BY <1>1, <1>5 DEF Attempts, Inv, TypeOK
  <2>4. \A q \in Paired' : code'[pair'[q].code] = "used"
    <3>1. \A q \in Paired : code'[pair[q].code] = code[pair[q].code]
      BY <1>5, <2>2, <2>3 DEF Inv, TypeOK
    <3>2. QED
      BY <1>2, <1>3, <2>2, <2>3, <3>1 DEF Inv, CodesLocked
  <2>5. \A q \in Request : pair'[q].at = "committing" => code'[pair'[q].code] # "used"
    BY <1>5, <2>1, <2>3 DEF Inv, CodesLocked, TypeOK
  <2>6. CodesLocked'
    BY <2>1, <2>4, <2>5 DEF Inv, CodesLocked
  <2>7. CodePairsOnce'
    BY <1>2, <1>3, <2>2 DEF Inv, CodePairsOnce
  <2>8. QED
    BY <2>6, <2>7
<1>11. RowsLocked'
  BY <1>3 DEF Inv, RowsLocked
<1>12. \A q \in Request \ {p} : Upserted(q) => DeviceOf(q) # DeviceOf(p)
  BY <1>1 DEF Inv, RowsLocked
<1>13. DefaultLocked' /\ OneDefault'
  <2>1. \A d \in Device : d # DeviceOf(p) => isDefault'[d] = isDefault[d] /\ row'[d] = row[d]
    BY <1>4, <1>5 DEF Inv, TypeOK
  <2>2. isDefault'[DeviceOf(p)] = BecomesDefault(p, DeviceOf(p))
    BY <1>4, <1>5 DEF Inv, TypeOK
  <2>3. \A q \in Request \ {p} :
           Upserted(q) => /\ DeviceOf(q) \in Device
                          /\ BecomesDefault(q, DeviceOf(q))' = BecomesDefault(q, DeviceOf(q))
    <3> SUFFICES ASSUME NEW q \in Request \ {p}, Upserted(q)
                 PROVE  /\ DeviceOf(q) \in Device
                        /\ BecomesDefault(q, DeviceOf(q))' = BecomesDefault(q, DeviceOf(q))
      OBVIOUS
    <3>1. pair[q] \in Attempts
      BY AttemptKinds DEF Inv, Upserted, Idle
    <3>2. DeviceOf(q) \in Device
      BY <3>1 DEF DeviceOf, Device, Attempts
    <3>3. DeviceOf(q)' = DeviceOf(q) /\ pair'[q] = pair[q]
      BY <1>2, <1>3
    <3>4. isDefault'[DeviceOf(q)] = isDefault[DeviceOf(q)]
      BY <1>12, <2>1, <3>2
    <3>5. QED
      BY <3>2, <3>3, <3>4 DEF BecomesDefault
  <2>4. \A q \in Request : \A a :
           WroteDefault(q, a)' => q # p /\ WroteDefault(q, a)
    BY <1>3, <2>3 DEF WroteDefault
  <2>5. ASSUME NEW q \in Request, Upserted(q)', BecomesDefault(q, DeviceOf(q))'
        PROVE  /\ ~ DefaultTaken(DeviceOf(q))'
               /\ \A r \in Request : WroteDefault(r, DeviceOf(q)[1])' => r = q
    <3>1. /\ q # p /\ Upserted(q) /\ BecomesDefault(q, DeviceOf(q))
          /\ DeviceOf(q)' = DeviceOf(q)
      BY <1>3, <2>3, <2>5
    <3>2. ~ DefaultTaken(DeviceOf(q)) /\ ~ WroteDefault(p, DeviceOf(q)[1])
      BY <3>1 DEF Inv, DefaultLocked
    <3>3. DeviceOf(p)[1] = DeviceOf(q)[1] => ~ isDefault'[DeviceOf(p)]
      BY <1>1, <2>2, <3>2 DEF WroteDefault
    <3>4. ~ DefaultTaken(DeviceOf(q))'
      BY <2>1, <3>1, <3>2, <3>3 DEF DefaultTaken
    <3>5. \A r \in Request : WroteDefault(r, DeviceOf(q)[1])' => r = q
      BY <2>4, <3>1 DEF Inv, DefaultLocked
    <3>6. QED
      BY <3>4, <3>5
  <2>6. DefaultLocked'
    BY <2>5 DEF DefaultLocked
  <2>7. ASSUME isDefault'[DeviceOf(p)]
        PROVE  \A e \in Device : e # DeviceOf(p) /\ e[1] = DeviceOf(p)[1] => ~ isDefault[e]
    BY <1>1, <2>2, <2>7 DEF Inv, DefaultLocked, DefaultTaken, TypeOK
  <2>8. OneDefault'
    BY <1>4, <2>1, <2>7 DEF Inv, OneDefault
  <2>9. QED
    BY <2>6, <2>8
<1>14. OneTokenLeft'
  <2>1. \A q \in unrevoked' : q \in Request /\ (q # p => q \in unrevoked /\ DeviceOf(q) # DeviceOf(p))
    BY <1>5 DEF Inv, TypeOK, Earlier
  <2>2. \A q, r \in unrevoked' : DeviceOf(q)' = DeviceOf(r)' => q = r
    BY <1>3, <2>1 DEF Inv, OneTokenLeft
  <2>3. QED
    BY <2>2 DEF OneTokenLeft
<1>15. Acting' \cap gone' = {}
  <2> SUFFICES ASSUME NEW q \in Acting', q \in gone PROVE FALSE
    BY <1>5
  <2>1. q # p /\ q \in unrevoked /\ DeviceOf(q) # DeviceOf(p)
    BY <1>3, <1>5, <1>7 DEF Acting, Earlier
  <2>2. pair[q] \in Attempts
    BY <1>7, AttemptKinds DEF Inv, Paired, Idle
  <2>3. DeviceOf(q) \in Device
    BY <2>2 DEF DeviceOf, Device, Attempts
  <2>4. row'[DeviceOf(q)] = "live"
    BY <1>3, <1>7 DEF Acting, Paired
  <2>5. row[DeviceOf(q)] = "live"
    BY <1>4, <1>5, <2>1, <2>3, <2>4 DEF Inv, TypeOK
  <2>6. QED
    BY <2>1, <2>5 DEF Acting, Inv
<1>16. QED
  BY <1>8, <1>9, <1>10, <1>11, <1>13, <1>14, <1>15 DEF Inv

-----------------------------------------------------------------------------
(* The owner: requests stay where they are. *)

(* A step that leaves requests, codes and tokens alone, and makes no device  *)
(* the default that was not.                                                 *)
LEMMA FewerDefaults ==
  ASSUME Inv, TypeOK', UNCHANGED pair,
         \A d \in Device : isDefault'[d] => isDefault[d]
  PROVE  RowsLocked' /\ DefaultLocked' /\ OneDefault'
<1>1. \A q \in Request : DeviceOf(q)' = DeviceOf(q) /\ Upserted(q)' = Upserted(q)
  BY DEF DeviceOf, Upserted
<1>2. RowsLocked'
  BY <1>1 DEF Inv, RowsLocked
<1>3. \A q \in Request : Upserted(q) => DeviceOf(q) \in Device
  <2> SUFFICES ASSUME NEW q \in Request, Upserted(q) PROVE DeviceOf(q) \in Device
    OBVIOUS
  <2>1. pair[q] \in Attempts
    BY AttemptKinds DEF Inv, Upserted, Idle
  <2>2. QED
    BY <2>1, PairingAssumption DEF DeviceOf, Device, Attempts
<1>4. \A q \in Request :
         Upserted(q) /\ BecomesDefault(q, DeviceOf(q))' => BecomesDefault(q, DeviceOf(q))
  BY <1>1, <1>3 DEF BecomesDefault
<1>5. \A q \in Request : \A a : WroteDefault(q, a)' => WroteDefault(q, a)
  BY <1>1, <1>4 DEF WroteDefault
<1>6. \A d \in Device : DefaultTaken(d)' => DefaultTaken(d)
  BY DEF DefaultTaken, Inv, TypeOK
<1>7. DefaultLocked'
  BY <1>1, <1>3, <1>4, <1>5, <1>6 DEF Inv, DefaultLocked
<1>8. OneDefault'
  BY DEF Inv, OneDefault
<1>9. QED
  BY <1>2, <1>7, <1>8

(* A step that leaves requests and codes alone, brings back no device and    *)
(* no token, and notes what no longer acts.                                  *)
LEMMA FewerTokens ==
  ASSUME Inv, TypeOK', UNCHANGED <<pair, code>>,
         unrevoked' \subseteq unrevoked,
         \A q \in Acting' : q \in Acting,
         gone' = gone \/ gone' = gone \cup (Acting \ Acting')
  PROVE  /\ TokensOfPaired' /\ CodesLocked' /\ CodePairsOnce' /\ OneTokenLeft'
         /\ Acting' \cap gone' = {}
<1>1. \A q \in Request : DeviceOf(q)' = DeviceOf(q)
  BY DEF DeviceOf
<1>2. Paired' = Paired /\ Acting \subseteq Paired
  BY DEF Paired, Acting, Inv, TokensOfPaired
<1>3. TokensOfPaired' /\ CodesLocked' /\ CodePairsOnce'
  BY <1>2 DEF Inv, TokensOfPaired, CodesLocked, CodePairsOnce
<1>4. OneTokenLeft'
  BY <1>1 DEF Inv, TypeOK, OneTokenLeft
<1>5. Acting' \cap gone' = {}
  BY DEF Inv
<1>6. QED
  BY <1>3, <1>4, <1>5

LEMMA CodeInv ==
  ASSUME Inv, NEW c \in Code, CodeStep(c)
  PROVE  Inv'
<1>1. /\ UNCHANGED <<row, isDefault, unrevoked, pair, unpairing, choosing, met, gone>>
      /\ code[c] # "used"
      /\ \A b \in Code : b # c => code'[b] = code[b]
      /\ code'[c] # "used"
      /\ code' \in [Code -> {"none", "live", "expired", "used"}]
  BY DEF CodeStep, CreatePairingCode, Expire, Inv, TypeOK
<1>2. TypeOK'
  BY <1>1 DEF Inv, TypeOK
<1>3. \A q \in Request : DeviceOf(q)' = DeviceOf(q)
  BY <1>1 DEF DeviceOf
<1>4. RowsLocked' /\ DefaultLocked' /\ OneDefault'
  BY <1>1, <1>2, FewerDefaults
<1>5. CodesLocked'
  <2>1. \A q \in Request : pair[q] # Idle => pair[q].code \in Code
    BY AttemptKinds DEF Inv, Attempts
  <2>2. \A q \in Paired : pair[q].code \in Code
    BY <2>1 DEF Paired, Idle
  <2>3. \A q \in Request : pair[q].at = "committing" => pair[q].code \in Code
    BY <2>1 DEF Idle
  <2>4. QED
    BY <1>1, <2>2, <2>3 DEF Inv, CodesLocked, Paired
<1>6. TokensOfPaired' /\ CodePairsOnce' /\ OneTokenLeft' /\ Acting' \cap gone' = {}
  BY <1>1, <1>3 DEF Inv, TokensOfPaired, CodePairsOnce, Paired, OneTokenLeft, Acting, TypeOK
<1>7. QED
  BY <1>2, <1>4, <1>5, <1>6 DEF Inv

LEMMA OwnerInv ==
  ASSUME Inv, NEW d \in Device, OwnerStep(d)
  PROVE  Inv'
<1>1. TypeOK'
  <2>1. Acting \subseteq Request
    BY DEF Acting, Inv, TypeOK
  <2>2. CASE SoftDelete(d)
    BY <2>1, <2>2 DEF SoftDelete, Remember, DefaultAfterDelete, Inv, TypeOK
  <2>3. CASE RevokeTokens(d)
    BY <2>1, <2>3 DEF RevokeTokens, Remember, Inv, TypeOK
  <2>4. CASE ClearOthers(d)
    BY <2>4 DEF ClearOthers, Inv, TypeOK
  <2>5. CASE MakeDefault(d)
    <3>1. DefaultTaken(d) \in BOOLEAN
      BY DEF DefaultTaken
    <3>2. QED
      BY <2>5, <3>1 DEF MakeDefault, Inv, TypeOK
  <2>6. CASE UnpairFails(d) \/ SetDefaultFails(d)
    BY <2>6 DEF UnpairFails, SetDefaultFails, Inv, TypeOK
  <2>7. QED
    BY <2>2, <2>3, <2>4, <2>5, <2>6 DEF OwnerStep
<1>2. UNCHANGED <<pair, code>>
  BY DEF OwnerStep, SoftDelete, RevokeTokens, UnpairFails, ClearOthers, MakeDefault, SetDefaultFails
<1>3. /\ TokensOfPaired' /\ CodesLocked' /\ CodePairsOnce' /\ OneTokenLeft'
      /\ Acting' \cap gone' = {}
  <2>1. unrevoked' \subseteq unrevoked
    BY DEF OwnerStep, SoftDelete, RevokeTokens, UnpairFails, ClearOthers, MakeDefault,
           SetDefaultFails
  <2>2. \A e \in Device : row'[e] = "live" => row[e] = "live"
    BY DEF OwnerStep, SoftDelete, RevokeTokens, UnpairFails, ClearOthers, MakeDefault,
           SetDefaultFails, Inv, TypeOK
  <2>3. gone' = gone \/ gone' = gone \cup (Acting \ Acting')
    BY DEF OwnerStep, SoftDelete, RevokeTokens, UnpairFails, ClearOthers, MakeDefault,
           SetDefaultFails, Remember
  <2>4. \A q \in Acting' : q \in Acting
    <3> SUFFICES ASSUME NEW q \in Acting' PROVE q \in Acting
      OBVIOUS
    <3>1. q \in unrevoked /\ row'[DeviceOf(q)] = "live"
      BY <1>2, <2>1 DEF Acting, DeviceOf
    <3>2. pair[q] \in Attempts
      BY <3>1, AttemptKinds DEF Inv, TokensOfPaired, Paired, Idle
    <3>3. DeviceOf(q) \in Device
      BY <3>2, PairingAssumption DEF DeviceOf, Device, Attempts
    <3>4. QED
      BY <2>2, <3>1, <3>3 DEF Acting
  <2>5. QED
    BY <1>1, <1>2, <2>1, <2>3, <2>4, FewerTokens
<1>4. RowsLocked' /\ DefaultLocked' /\ OneDefault'
  <2>1. CASE ~ MakeDefault(d)
    <3>1. \A e \in Device : isDefault'[e] => isDefault[e]
      BY <2>1 DEF OwnerStep, SoftDelete, RevokeTokens, UnpairFails, ClearOthers,
                  SetDefaultFails, DefaultAfterDelete, Inv, TypeOK
    <3>2. QED
      BY <1>1, <1>2, <3>1, FewerDefaults
  <2>2. CASE MakeDefault(d) /\ (row[d] # "live" \/ DefaultTaken(d))
    <3>1. \A e \in Device : isDefault'[e] => isDefault[e]
      BY <2>2 DEF MakeDefault, Inv, TypeOK
    <3>2. QED
      BY <1>1, <1>2, <3>1, FewerDefaults
  <2>3. CASE MakeDefault(d) /\ row[d] = "live" /\ ~ DefaultTaken(d)
    <3>1. /\ \A q \in Request : ~ Holds(q, d) /\ ~ WroteDefault(q, d[1])
          /\ isDefault'[d] /\ row' = row
          /\ \A e \in Device : e # d => isDefault'[e] = isDefault[e]
      BY <2>3 DEF MakeDefault, Free, Inv, TypeOK
    <3>2. \A q \in Request :
             /\ DeviceOf(q)' = DeviceOf(q) /\ Upserted(q)' = Upserted(q)
             /\ Upserted(q) => DeviceOf(q) \in Device /\ DeviceOf(q) # d
      <4> SUFFICES ASSUME NEW q \in Request
                   PROVE  /\ DeviceOf(q)' = DeviceOf(q) /\ Upserted(q)' = Upserted(q)
                          /\ Upserted(q) => DeviceOf(q) \in Device /\ DeviceOf(q) # d
        OBVIOUS
      <4>1. Upserted(q) => pair[q] \in Attempts
        BY AttemptKinds DEF Inv, Upserted, Idle
      <4>2. QED
        BY <1>2, <3>1, <4>1, PairingAssumption DEF DeviceOf, Device, Attempts, Upserted, Holds
    <3>3. \A q \in Request :
             Upserted(q) => BecomesDefault(q, DeviceOf(q))' = BecomesDefault(q, DeviceOf(q))
      BY <1>2, <3>1, <3>2 DEF BecomesDefault
    <3>4. \A q \in Request : \A a : WroteDefault(q, a)' = WroteDefault(q, a)
      BY <3>2, <3>3 DEF WroteDefault
    <3>5. RowsLocked'
      BY <3>2 DEF Inv, RowsLocked
    <3>6. \A q \in Request :
             Upserted(q) /\ BecomesDefault(q, DeviceOf(q)) => DeviceOf(q)[1] # d[1]
      BY <3>1 DEF WroteDefault
    <3>7. \A q \in Request :
             Upserted(q) /\ BecomesDefault(q, DeviceOf(q)) => ~ DefaultTaken(DeviceOf(q))'
      BY <3>1, <3>2, <3>6 DEF Inv, DefaultLocked, DefaultTaken
    <3>8. DefaultLocked'
      BY <3>2, <3>3, <3>4, <3>7 DEF Inv, DefaultLocked
    <3>9. \A e \in Device : e # d /\ e[1] = d[1] => ~ isDefault[e]
      BY <2>3 DEF DefaultTaken, Inv, TypeOK
    <3>10. OneDefault'
      BY <3>1, <3>9 DEF Inv, OneDefault
    <3>11. QED
      BY <3>5, <3>8, <3>10
  <2>4. QED
    BY <2>1, <2>2, <2>3
<1>5. QED
  BY <1>1, <1>3, <1>4 DEF Inv

LEMMA StutterInv == Inv /\ UNCHANGED vars => Inv'
BY DEF vars, Inv, TypeOK, TokensOfPaired, CodesLocked, CodePairsOnce, Paired, RowsLocked,
       DefaultLocked, OneDefault, OneTokenLeft, Acting, DeviceOf, Upserted, BecomesDefault,
       DefaultTaken, WroteDefault

LEMMA Invariant == Spec => []Inv
<1>1. Inv /\ [Next]_vars => Inv'
  <2> SUFFICES ASSUME Inv, [Next]_vars PROVE Inv'
    OBVIOUS
  <2>1. CASE \E c \in Code : CodeStep(c)
    BY <2>1, CodeInv
  <2>2. CASE \E p \in Request : PairStep(p)
    BY <2>2, RequestInv, CommitInv
  <2>3. CASE \E d \in Device : OwnerStep(d)
    BY <2>3, OwnerInv
  <2>4. CASE UNCHANGED vars
    BY <2>4, StutterInv
  <2>5. QED
    BY <2>1, <2>2, <2>3, <2>4 DEF Next
<1>2. QED
  BY <1>1, InitInv, PTL DEF Spec

-----------------------------------------------------------------------------
(* Codes, rows, tokens and requests keep their types, and a device that was  *)
(* removed is never the default.                                             *)
THEOREM TypeCorrect == Spec => []TypeOK
<1>1. Inv => TypeOK
  BY DEF Inv
<1>2. QED
  BY <1>1, Invariant, PTL

(* A code pairs one phone, however many requests bring it at once: who has   *)
(* consumed it holds its row until the commit.                               *)
THEOREM CodePairsOnceHolds == Spec => []CodePairsOnce
<1>1. Inv => CodePairsOnce
  BY DEF Inv
<1>2. QED
  BY <1>1, Invariant, PTL

(* An account never has two default phones: the unique index keeps out what  *)
(* HasDefaultDevice and the two statements of SetDefaultDevice let through.  *)
THEOREM OneDefaultHolds == Spec => []OneDefault
<1>1. Inv => OneDefault
  BY DEF Inv
<1>2. QED
  BY <1>1, Invariant, PTL

(* One token acts for a device, and one that has stopped acting never acts   *)
(* again, though the row it belongs to may be revived.                       *)
THEOREM OneTokenActsHolds == Spec => []OneTokenActs
<1>1. Inv => OneTokenActs
  BY DEF Inv, OneTokenActs, OneTokenLeft, Acting
<1>2. QED
  BY <1>1, Invariant, PTL

-----------------------------------------------------------------------------
(* What a pairing has seen of others stays true unless it meets one of them. *)

Overlaps ==
    \A p, q \in Request : p # q /\ Runs(p) /\ Runs(q) => {p, q} \in met

(* The account's or the handset's other pairings that p met were refused, or *)
(* are still running.                                                        *)
Spared(p, Alike(_, _)) == \A q \in Paired : {p, q} \in met => ~ Alike(p, q)

(* A pairing that revoked the handset's other tokens has seen them all.      *)
AllRevoked(p) ==
    HasRevoked(p) /\ Spared(p, SameHandset)
      => \A q \in unrevoked :
            SameHandset(p, q) /\ DeviceOf(q) # DeviceOf(p) => q \in pair[p].revoked

(* A pairing that counted the account's phones has counted them all.         *)
AllCounted(p) ==
    InTheLimit(p) /\ Spared(p, SameAccount)
      => Cardinality(LiveDevices(DeviceOf(p)[1]) \cup {DeviceOf(p)}) <= pair[p].limit

LiveRowsFinite == IsFiniteSet({d \in Device : row[d] = "live"})

SeenInv ==
    /\ Inv
    /\ Overlaps
    /\ LiveRowsFinite
    /\ \A p \in Request : AllRevoked(p) /\ AllCounted(p)

LEMMA InitSeen == Init => SeenInv
<1> SUFFICES ASSUME Init PROVE SeenInv
  OBVIOUS
<1>1. \A p \in Request : pair[p].at = "idle"
  BY DEF Init, Idle
<1>2. Overlaps /\ \A p \in Request : AllRevoked(p) /\ AllCounted(p)
  BY <1>1 DEF Overlaps, Runs, Running, AllRevoked, AllCounted, HasRevoked, InTheLimit
<1>3. {d \in Device : row[d] = "live"} = {}
  BY DEF Init
<1>4. LiveRowsFinite
  BY <1>3, FS_EmptySet DEF LiveRowsFinite
<1>5. QED
  BY <1>2, <1>4, InitInv DEF SeenInv

(* Fewer phones are within the limit that more were in. *)
LEMMA StillWithin ==
  ASSUME LiveRowsFinite, NEW a, NEW d,
         NEW D, D \subseteq LiveDevices(a), NEW limit \in Nat,
         Cardinality(LiveDevices(a) \cup {d}) <= limit
  PROVE  Cardinality(D \cup {d}) <= limit
<1>1. LiveDevices(a) \subseteq {e \in Device : row[e] = "live"}
  BY DEF LiveDevices
<1>2. IsFiniteSet(LiveDevices(a))
  BY <1>1, FS_Subset DEF LiveRowsFinite
<1>3. IsFiniteSet(LiveDevices(a) \cup {d})
  BY <1>2, FS_AddElement
<1>4. Cardinality(D \cup {d}) <= Cardinality(LiveDevices(a) \cup {d})
  BY <1>3, FS_Subset
<1>5. Cardinality(D \cup {d}) \in Nat /\ Cardinality(LiveDevices(a) \cup {d}) \in Nat
  <2>1. IsFiniteSet(D \cup {d})
    BY <1>3, FS_Subset
  <2>2. QED
    BY <1>3, <2>1, FS_CardinalityType
<1>6. QED
  BY <1>4, <1>5

LEMMA RequestSeen ==
  ASSUME SeenInv, NEW p \in Request, PairStep(p), ~ Commit(p)
  PROVE  SeenInv'
<1>1. /\ Unwritten
      /\ \A q \in Request \ {p} : pair'[q] = pair[q]
      /\ Locks(p) /\ Reads(p) /\ Meets(p)
  BY RequestStep DEF SeenInv, Inv
<1>2. Inv'
  BY RequestInv DEF SeenInv
<1>3. Overlaps'
  <2> SUFFICES ASSUME NEW q \in Request, NEW r \in Request, q # r, Runs(q)', Runs(r)'
               PROVE  {q, r} \in met'
    BY DEF Overlaps
  <2>1. (q # p => Runs(q)) /\ (r # p => Runs(r))
    BY <1>1 DEF Runs
  <2>2. CASE Runs(q) /\ Runs(r)
    <3>1. {q, r} \in met
      BY <2>2 DEF SeenInv, Overlaps
    <3>2. QED
      BY <1>1, <3>1 DEF Meets
  <2>3. CASE q = p /\ ~ Runs(p)
    BY <1>1, <2>1, <2>3 DEF Meets
  <2>4. CASE r = p /\ ~ Runs(p)
    <3>1. {p, q} \in met'
      BY <1>1, <2>1, <2>4 DEF Meets
    <3>2. {p, q} = {q, r}
      BY <2>4
    <3>3. QED
      BY <3>1, <3>2
  <2>5. QED
    BY <2>1, <2>2, <2>3, <2>4
<1>4. LiveRowsFinite'
  BY <1>1 DEF SeenInv, LiveRowsFinite, Unwritten
<1>5. ASSUME NEW q \in Request, Runs(q)', pair'[q].code = pair[q].code,
             pair'[q].handset = pair[q].handset
      PROVE  /\ Spared(q, SameHandset)' => Spared(q, SameHandset)
             /\ Spared(q, SameAccount)' => Spared(q, SameAccount)
  <2>1. \A r \in Paired : r \in Paired' /\ pair'[r] = pair[r]
    BY <1>1 DEF Paired, Locks
  <2>2. \A r \in Paired : {q, r} \in met => {q, r} \in met'
    BY <1>1, <1>5 DEF Meets, Paired, Locks
  <2>3. \A r \in Paired : /\ SameHandset(q, r)' = SameHandset(q, r)
                          /\ SameAccount(q, r)' = SameAccount(q, r)
    BY <1>5, <2>1 DEF SameHandset, SameAccount
  <2>4. QED
    BY <2>1, <2>2, <2>3 DEF Spared
<1>6. \A r \in unrevoked : r # p /\ r \in Request /\ pair'[r] = pair[r] /\ DeviceOf(r)' = DeviceOf(r)
  BY <1>1 DEF SeenInv, Inv, TokensOfPaired, Paired, Locks, DeviceOf
<1>7. \A q \in Request : HasRevoked(q)' => Upserted(q)' /\ Runs(q)'
  BY DEF HasRevoked, Upserted, Runs, Running
<1>8. \A q \in Request : Upserted(q)' =>
         pair'[q].code = pair[q].code /\ pair'[q].handset = pair[q].handset
         /\ DeviceOf(q)' = DeviceOf(q)
  BY <1>1 DEF Locks, DeviceOf, Upserted
<1>9. ASSUME NEW q \in Request PROVE AllRevoked(q)'
  <2> SUFFICES ASSUME HasRevoked(q)', Spared(q, SameHandset)', NEW r \in unrevoked',
                      SameHandset(q, r)', DeviceOf(r)' # DeviceOf(q)'
               PROVE  r \in pair'[q].revoked
    BY DEF AllRevoked
  <2>1. r \in unrevoked /\ DeviceOf(q)' = DeviceOf(q) /\ DeviceOf(r)' = DeviceOf(r)
        /\ SameHandset(q, r)
    BY <1>1, <1>6, <1>7, <1>8 DEF Unwritten, SameHandset
  <2>2. Spared(q, SameHandset)
    BY <1>5, <1>7, <1>8
  <2>3. CASE HasRevoked(q) /\ pair'[q].revoked = pair[q].revoked
    BY <2>1, <2>2, <2>3 DEF SeenInv, AllRevoked
  <2>4. CASE q = p /\ pair'[p].revoked = Elsewhere(p)
    <3>1. pair[r] \in Attempts
      BY <1>6, <2>1, AttemptKinds DEF SeenInv, Inv, TokensOfPaired, Paired, Idle
    <3>2. DeviceOf(r) \in Device
      BY <3>1, PairingAssumption DEF DeviceOf, Device, Attempts
    <3>3. DeviceOf(r) \in Others(q)
      BY <2>1, <3>2 DEF Others, DeviceOf, SameHandset
    <3>4. QED
      BY <2>1, <2>4, <3>3 DEF Elsewhere
  <2>5. QED
    BY <1>1, <2>3, <2>4 DEF Reads, HasRevoked
<1>10. ASSUME NEW q \in Request PROVE AllCounted(q)'
  <2> SUFFICES ASSUME InTheLimit(q)', Spared(q, SameAccount)'
               PROVE  (Cardinality(LiveDevices(DeviceOf(q)[1]) \cup {DeviceOf(q)}) <= pair[q].limit)'
    BY DEF AllCounted
  <2>1. HasRevoked(q)'
    BY DEF InTheLimit, HasRevoked
  <2>2. Spared(q, SameAccount) /\ DeviceOf(q)' = DeviceOf(q)
    BY <1>5, <1>7, <1>8, <2>1
  <2>3. LiveDevices(DeviceOf(q)[1])' = LiveDevices(DeviceOf(q)[1])
    BY <1>1, <2>2 DEF LiveDevices, Unwritten
  <2>4. CASE InTheLimit(q) /\ pair'[q].limit = pair[q].limit
    BY <2>2, <2>3, <2>4 DEF SeenInv, AllCounted
  <2>5. CASE /\ q = p /\ pair'[p].limit \in DeviceLimits
             /\ ~ OverLimit(p, pair'[p].limit)
    <3>1. LiveDevices(DeviceOf(p)[1]) \subseteq {e \in Device : row[e] = "live"}
      BY DEF LiveDevices
    <3>2. IsFiniteSet(LiveDevices(DeviceOf(p)[1]))
      BY <3>1, FS_Subset DEF SeenInv, LiveRowsFinite
    <3>3. Cardinality(LiveDevices(DeviceOf(p)[1]) \cup {DeviceOf(p)}) \in Nat
      BY <3>2, FS_AddElement, FS_CardinalityType
    <3>4. pair'[p].limit \in Nat
      BY <2>5, PairingAssumption
    <3>5. QED
      BY <2>2, <2>3, <2>5, <3>3, <3>4 DEF OverLimit
  <2>6. QED
    BY <1>1, <2>4, <2>5 DEF Reads, InTheLimit
<1>11. QED
  BY <1>2, <1>3, <1>4, <1>9, <1>10 DEF SeenInv

LEMMA CommitSeen ==
  ASSUME SeenInv, NEW p \in Request, Commit(p)
  PROVE  SeenInv'
<1>1. Inv'
  BY CommitInv DEF SeenInv
<1>2. pair[p] \in Attempts /\ Runs(p) /\ p \notin Paired
  BY AttemptKinds DEF SeenInv, Inv, Commit, Idle, Runs, Running, Paired
<1>3. /\ pair'[p].at = "paired"
      /\ pair'[p].code = pair[p].code /\ pair'[p].handset = pair[p].handset
      /\ \A q \in Request \ {p} : pair'[q] = pair[q]
      /\ met' = met
  BY DEF Commit, SeenInv, Inv, TypeOK, Call
<1>4. /\ \A q \in Request : DeviceOf(q)' = DeviceOf(q)
      /\ DeviceOf(p) \in Device
      /\ ~ Runs(p)' /\ ~ HasRevoked(p)' /\ ~ InTheLimit(p)'
  BY <1>2, <1>3, PairingAssumption DEF DeviceOf, Device, Attempts, Runs, Running, HasRevoked, InTheLimit
<1>5. \A d \in Device : row'[d] = IF d = DeviceOf(p) THEN "live" ELSE row[d]
  BY <1>4 DEF Commit, SeenInv, Inv, TypeOK
<1>6. Overlaps'
  BY <1>3, <1>4 DEF SeenInv, Overlaps, Runs
<1>7. LiveRowsFinite'
  <2>1. {d \in Device : row'[d] = "live"} \subseteq {d \in Device : row[d] = "live"} \cup {DeviceOf(p)}
    BY <1>5
  <2>2. IsFiniteSet({d \in Device : row[d] = "live"} \cup {DeviceOf(p)})
    BY FS_AddElement DEF SeenInv, LiveRowsFinite
  <2>3. QED
    BY <2>1, <2>2, FS_Subset DEF LiveRowsFinite
<1>8. \A q \in Request, r \in Request :
         SameHandset(q, r)' = SameHandset(q, r) /\ SameAccount(q, r)' = SameAccount(q, r)
  BY <1>3 DEF SameHandset, SameAccount
<1>9. \A q \in Request :
         /\ Spared(q, SameHandset)' => Spared(q, SameHandset)
         /\ Spared(q, SameAccount)' => Spared(q, SameAccount)
  <2>1. \A r \in Paired : r \in Paired' /\ r \in Request
    BY <1>2, <1>3 DEF Paired
  <2>2. QED
    BY <1>3, <1>8, <2>1 DEF Spared
<1>10. ASSUME NEW q \in Request, Runs(q)'
       PROVE  /\ q # p
              /\ Spared(q, SameHandset)' => ~ SameHandset(q, p)
              /\ Spared(q, SameAccount)' => ~ SameAccount(q, p)
  <2>1. q # p /\ Runs(q)
    BY <1>3, <1>4, <1>10 DEF Runs
  <2>2. {q, p} \in met'
    BY <1>2, <1>3, <2>1 DEF SeenInv, Overlaps
  <2>3. p \in Paired'
    BY <1>3 DEF Paired
  <2>4. QED
    BY <1>8, <2>1, <2>2, <2>3 DEF Spared
<1>11. \A q \in Request : HasRevoked(q)' \/ InTheLimit(q)' => Runs(q)'
  BY DEF HasRevoked, InTheLimit, Runs, Running
<1>12. ASSUME NEW q \in Request PROVE AllRevoked(q)'
  <2> SUFFICES ASSUME HasRevoked(q)', Spared(q, SameHandset)', NEW r \in unrevoked',
                      SameHandset(q, r)', DeviceOf(r)' # DeviceOf(q)'
               PROVE  r \in pair'[q].revoked
    BY DEF AllRevoked
  <2>1. q # p /\ pair'[q] = pair[q] /\ ~ SameHandset(q, p) /\ Spared(q, SameHandset)
    BY <1>3, <1>9, <1>10, <1>11
  <2>2. r \in Request /\ (r = p \/ r \in unrevoked)
    BY <1>1 DEF Inv, TypeOK, Commit
  <2>3. r \in unrevoked /\ SameHandset(q, r) /\ DeviceOf(r) # DeviceOf(q)
    BY <1>4, <1>8, <2>1, <2>2
  <2>4. HasRevoked(q)
    BY <2>1 DEF HasRevoked
  <2>5. QED
    BY <2>1, <2>3, <2>4 DEF SeenInv, AllRevoked
<1>13. ASSUME NEW q \in Request PROVE AllCounted(q)'
  <2> SUFFICES ASSUME InTheLimit(q)', Spared(q, SameAccount)'
               PROVE  (Cardinality(LiveDevices(DeviceOf(q)[1]) \cup {DeviceOf(q)}) <= pair[q].limit)'
    BY DEF AllCounted
  <2>1. q # p /\ pair'[q] = pair[q] /\ ~ SameAccount(q, p) /\ Spared(q, SameAccount)
    BY <1>3, <1>9, <1>10, <1>11
  <2>2. DeviceOf(q)' = DeviceOf(q) /\ DeviceOf(q)[1] # DeviceOf(p)[1]
    BY <1>4, <2>1 DEF DeviceOf, SameAccount
  <2>3. LiveDevices(DeviceOf(q)[1])' = LiveDevices(DeviceOf(q)[1])
    BY <1>5, <2>2 DEF LiveDevices
  <2>4. InTheLimit(q)
    BY <2>1 DEF InTheLimit
  <2>5. QED
    BY <2>1, <2>2, <2>3, <2>4 DEF SeenInv, AllCounted
<1>14. QED
  BY <1>1, <1>6, <1>7, <1>12, <1>13 DEF SeenInv

(* Nothing is added but by a pairing. *)
LEMMA FewerSeen ==
  ASSUME SeenInv, Inv', UNCHANGED <<pair, met>>,
         unrevoked' \subseteq unrevoked,
         \A d \in Device : row'[d] = "live" => row[d] = "live"
  PROVE  SeenInv'
<1>1. \A q \in Request : DeviceOf(q)' = DeviceOf(q)
  BY DEF DeviceOf
<1>2. Overlaps'
  BY DEF SeenInv, Overlaps, Runs
<1>3. LiveRowsFinite'
  <2>1. {d \in Device : row'[d] = "live"} \subseteq {d \in Device : row[d] = "live"}
    OBVIOUS
  <2>2. QED
    BY <2>1, FS_Subset DEF SeenInv, LiveRowsFinite
<1>4. \A q \in Request :
         /\ Spared(q, SameHandset)' => Spared(q, SameHandset)
         /\ Spared(q, SameAccount)' => Spared(q, SameAccount)
  BY DEF Spared, Paired, SameHandset, SameAccount
<1>5. ASSUME NEW q \in Request PROVE AllRevoked(q)'
  <2> SUFFICES ASSUME HasRevoked(q)', Spared(q, SameHandset)', NEW r \in unrevoked',
                      SameHandset(q, r)', DeviceOf(r)' # DeviceOf(q)'
               PROVE  r \in pair'[q].revoked
    BY DEF AllRevoked
  <2>1. HasRevoked(q) /\ Spared(q, SameHandset) /\ r \in unrevoked /\ SameHandset(q, r)
    BY <1>4 DEF HasRevoked, SameHandset
  <2>2. DeviceOf(r) # DeviceOf(q)
    BY DEF DeviceOf
  <2>3. QED
    BY <2>1, <2>2 DEF SeenInv, AllRevoked
<1>6. ASSUME NEW q \in Request PROVE AllCounted(q)'
  <2> SUFFICES ASSUME InTheLimit(q)', Spared(q, SameAccount)'
               PROVE  (Cardinality(LiveDevices(DeviceOf(q)[1]) \cup {DeviceOf(q)}) <= pair[q].limit)'
    BY DEF AllCounted
  <2>1. InTheLimit(q) /\ Spared(q, SameAccount)
    BY <1>4 DEF InTheLimit
  <2>2. Cardinality(LiveDevices(DeviceOf(q)[1]) \cup {DeviceOf(q)}) <= pair[q].limit
    BY <2>1 DEF SeenInv, AllCounted
  <2>3. LiveDevices(DeviceOf(q)[1])' \subseteq LiveDevices(DeviceOf(q)[1])
    BY <1>1 DEF LiveDevices
  <2>4. pair[q].limit \in Nat
    <3>1. pair[q] \in Attempts
      BY <2>1, AttemptKinds DEF SeenInv, Inv, InTheLimit, Idle
    <3>2. pair[q].limit \in DeviceLimits \cup {0}
      BY <3>1 DEF Attempts
    <3>3. DeviceLimits \cup {0} \subseteq Nat
      BY PairingAssumption
    <3>4. QED
      BY <3>2, <3>3
  <2>5. Cardinality(LiveDevices(DeviceOf(q)[1])' \cup {DeviceOf(q)}) <= pair[q].limit
    BY <2>2, <2>3, <2>4, StillWithin DEF SeenInv
  <2>6. QED
    BY <1>1, <2>5
<1>7. QED
  BY <1>2, <1>3, <1>5, <1>6 DEF SeenInv

LEMMA SeenInvariant == Spec => []SeenInv
<1>1. SeenInv /\ [Next]_vars => SeenInv'
  <2> SUFFICES ASSUME SeenInv, [Next]_vars PROVE SeenInv'
    OBVIOUS
  <2>1. CASE \E c \in Code : CodeStep(c)
    <3>1. Inv'
      BY <2>1, CodeInv DEF SeenInv
    <3>2. UNCHANGED <<pair, met, unrevoked, row>>
      BY <2>1 DEF CodeStep, CreatePairingCode, Expire
    <3>3. QED
      BY <3>1, <3>2, FewerSeen
  <2>2. CASE \E p \in Request : PairStep(p)
    BY <2>2, RequestSeen, CommitSeen
  <2>3. CASE \E d \in Device : OwnerStep(d)
    <3> PICK d \in Device : OwnerStep(d)
      BY <2>3
    <3>1. Inv'
      BY OwnerInv DEF SeenInv
    <3>2. UNCHANGED <<pair, met>> /\ unrevoked' \subseteq unrevoked
      BY DEF OwnerStep, SoftDelete, RevokeTokens, UnpairFails, ClearOthers, MakeDefault,
             SetDefaultFails
    <3>3. \A e \in Device : row'[e] = "live" => row[e] = "live"
      BY DEF OwnerStep, SoftDelete, RevokeTokens, UnpairFails, ClearOthers, MakeDefault,
             SetDefaultFails, SeenInv, Inv, TypeOK
    <3>4. QED
      BY <3>1, <3>2, <3>3, FewerSeen
  <2>4. CASE UNCHANGED vars
    <3>1. Inv'
      BY <2>4, StutterInv DEF SeenInv
    <3>2. UNCHANGED <<pair, met, unrevoked, row>>
      BY <2>4 DEF vars
    <3>3. QED
      BY <3>1, <3>2, FewerSeen
  <2>5. QED
    BY <2>1, <2>2, <2>3, <2>4 DEF Next
<1>2. QED
  BY <1>1, InitSeen, PTL DEF Spec

(* A request that overlaps none of the other's kind met none that paired. *)
LEMMA AloneIsSpared ==
  ASSUME NEW p \in Request, p \notin Paired
  PROVE  /\ Alone(p, SameHandset) => Spared(p, SameHandset)
         /\ Alone(p, SameAccount) => Spared(p, SameAccount)
BY DEF Alone, Spared, Paired

(* Once a handset is paired, its other pairings do not act, unless another   *)
(* request for it ran at the same time.                                      *)
THEOREM MovesThePhoneHolds == Spec => MovesThePhone
<1>1. ASSUME SeenInv, NEW p \in Request, Commit(p), Alone(p, SameHandset)
      PROVE  {q \in Acting' : pair'[q].handset = pair[p].handset} = {p}
  <2>1. HasRevoked(p) /\ p \notin Paired /\ pair[p] \in Attempts
    BY <1>1, AttemptKinds DEF SeenInv, Inv, Commit, HasRevoked, Paired, Idle
  <2>2. \A q \in unrevoked :
           SameHandset(p, q) /\ DeviceOf(q) # DeviceOf(p) => q \in pair[p].revoked
    BY <1>1, <2>1, AloneIsSpared DEF SeenInv, AllRevoked
  <2>3. /\ pair'[p].code = pair[p].code /\ pair'[p].handset = pair[p].handset
        /\ \A q \in Request \ {p} : pair'[q] = pair[q]
        /\ unrevoked' = (unrevoked \ (pair[p].revoked \cup Earlier(p))) \cup {p}
        /\ row' = [row EXCEPT ![DeviceOf(p)] = "live"]
    BY <1>1 DEF Commit, SeenInv, Inv, TypeOK, Call
  <2>4. DeviceOf(p)' = DeviceOf(p) /\ DeviceOf(p) \in Device
    BY <2>1, <2>3, PairingAssumption DEF DeviceOf, Device, Attempts
  <2>5. p \in Acting'
    BY <1>1, <2>3, <2>4 DEF Acting, SeenInv, Inv, TypeOK
  <2>6. ASSUME NEW q \in Acting', pair'[q].handset = pair[p].handset, q # p
        PROVE  FALSE
    <3>1. q \in unrevoked /\ q \in Request /\ q \notin pair[p].revoked /\ q \notin Earlier(p)
      BY <1>1, <2>3, <2>6 DEF Acting, SeenInv, Inv, TypeOK
    <3>2. SameHandset(p, q) /\ DeviceOf(q) # DeviceOf(p)
      BY <2>3, <2>6, <3>1 DEF SameHandset, Earlier
    <3>3. QED
      BY <2>2, <3>1, <3>2
  <2>7. QED
    BY <2>3, <2>5, <2>6
<1>2. SeenInv => [\A p \in Request :
                      Commit(p) /\ Alone(p, SameHandset)
                        => {q \in Acting' : pair'[q].handset = pair[p].handset} = {p}]_vars
  BY <1>1
<1>3. QED
  BY <1>2, SeenInvariant, PTL DEF MovesThePhone

(* A pairing leaves the account within the limit of its plan, unless another *)
(* request for it ran at the same time.                                      *)
THEOREM WithinLimitHolds == Spec => WithinLimit
<1>1. ASSUME SeenInv, NEW p \in Request, Commit(p), Alone(p, SameAccount)
      PROVE  Cardinality(LiveDevices(DeviceOf(p)[1])') <= pair[p].limit
  <2>1. InTheLimit(p) /\ p \notin Paired /\ pair[p] \in Attempts
    BY <1>1, AttemptKinds DEF SeenInv, Inv, Commit, InTheLimit, Paired, Idle
  <2>2. Cardinality(LiveDevices(DeviceOf(p)[1]) \cup {DeviceOf(p)}) <= pair[p].limit
    BY <1>1, <2>1, AloneIsSpared DEF SeenInv, AllCounted
  <2>3. pair'[p].code = pair[p].code /\ pair'[p].handset = pair[p].handset
    BY <1>1 DEF Commit, SeenInv, Inv, TypeOK, Call
  <2>4. DeviceOf(p)' = DeviceOf(p) /\ DeviceOf(p) \in Device
    BY <2>1, <2>3, PairingAssumption DEF DeviceOf, Device, Attempts
  <2>5. LiveDevices(DeviceOf(p)[1])' = LiveDevices(DeviceOf(p)[1]) \cup {DeviceOf(p)}
    BY <1>1, <2>4 DEF Commit, LiveDevices, SeenInv, Inv, TypeOK
  <2>6. QED
    BY <2>2, <2>5
<1>2. SeenInv => [\A p \in Request :
                      Commit(p) /\ Alone(p, SameAccount)
                        => Cardinality(LiveDevices(DeviceOf(p)[1])') <= pair[p].limit]_vars
  BY <1>1
<1>3. QED
  BY <1>2, SeenInvariant, PTL DEF WithinLimit

=============================================================================
