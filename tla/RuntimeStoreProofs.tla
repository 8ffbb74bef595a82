-------------------------- MODULE RuntimeStoreProofs --------------------------
(***************************************************************************)
(* Theorems about RuntimeStore, for any number of strategies and processes *)
(* and for every bound on calls, crashes and failed upserts.               *)
(***************************************************************************)
EXTENDS RuntimeStore, StrategyRulesProofs

(* The calls about one strategy that change its health entry. *)
HealthCalls == {"quarantine", "recover", "retire", "drift"}

(* What a call has loaded when it reaches a label, so that the label can   *)
(* use it.                                                                 *)
Fits(p) ==
  pc[p] # "idle" =>
    /\ call[p] \in Calls
    /\ call[p].kind # "evolve" => outer[p] \in Contents
    /\ call[p].kind = "evolve" => pc[p] \in {"sync", "upsert"}
    /\ call[p].kind \in HealthCalls =>
         outer[p].health[call[p].s] \in HealthEntries
    /\ pc[p] \in {"decay", "inner", "innerWrite"} => call[p].kind = "cycle"
    /\ pc[p] \in {"inner", "innerWrite"} => inner[p] \in Contents
    /\ pc[p] \in {"sync", "upsert"} => call[p].kind \notin {"execution", "risk"}
    /\ pc[p] \in {"sync", "upsert"} /\ call[p].kind = "cycle" => inner[p] \in Contents
    /\ pc[p] = "upsert" => registryCopy[p] \in Registries
    /\ pc[p] = "append" => call[p].kind = "drift"

(* A copy has seen no append that has yet to return. *)
HistoryOK ==
  /\ torn \in BOOLEAN
  /\ returned \in [RecordKinds -> Nat] /\ overwritten \in [RecordKinds -> Nat]
  /\ outerSeen \in [Processes -> [RecordKinds -> Nat]]
  /\ innerSeen \in [Processes -> [RecordKinds -> Nat]]
  /\ \A p \in Processes, k \in RecordKinds :
       outerSeen[p][k] <= returned[k] /\ innerSeen[p][k] <= returned[k]

Typed == TypeOK /\ HistoryOK /\ \A p \in Processes : Fits(p)

(* q is where it was, with what it had. *)
Unmoved(q) ==
  /\ pc'[q] = pc[q] /\ call'[q] = call[q] /\ outer'[q] = outer[q]
  /\ inner'[q] = inner[q] /\ registryCopy'[q] = registryCopy[q]

LEMMA OthersFit ==
  ASSUME NEW q \in Processes, Fits(q), Unmoved(q)
  PROVE  Fits(q)'
  BY DEF Fits, Unmoved

-----------------------------------------------------------------------------
(* What the calls carry, and what they do to the copy they loaded. *)

LEMMA CallFields ==
  ASSUME NEW c \in Calls
  PROVE  /\ c.kind \in CallKinds
         /\ c.kind \in HealthCalls \cup {"evolve"} => c.s \in Strategies
         /\ c.kind = "drift" => c.verdict \in DriftVerdicts
         /\ c.kind = "evolve" => c.promotion \in Promotions
         /\ c.kind = "cycle" => c.active \subseteq Strategies
  BY DEF Calls, CallKinds, RecordKinds, HealthCalls

(* The records a call appends by its own save. *)
Own(c, k) == IF k = c.kind \/ (k = "risk" /\ c.kind = "drift") THEN 1 ELSE 0

LEMMA ContentsParts ==
  ASSUME NEW file \in Contents
  PROVE  /\ file.health \in [Strategies -> HealthEntries \cup {NoEntry}]
         /\ file.listed \in [Strategies -> Nat]
         /\ file.records \in [RecordKinds -> Nat]
         /\ file = [health |-> file.health, listed |-> file.listed,
                    records |-> file.records]
  BY DEF Contents

LEMMA AppendType ==
  ASSUME NEW file \in Contents, NEW kind \in RecordKinds
  PROVE  /\ Append(file, kind) \in Contents
         /\ Append(file, kind).health = file.health
         /\ \A k \in RecordKinds :
              Append(file, kind).records[k] =
                file.records[k] + (IF k = kind THEN 1 ELSE 0)
  <1> DEFINE records == [file.records EXCEPT ![kind] = @ + 1]
  <1>1. records \in [RecordKinds -> Nat]
    BY ContentsParts
  <1>2. \A k \in RecordKinds : records[k] = file.records[k] + (IF k = kind THEN 1 ELSE 0)
    BY ContentsParts
  <1>3. Append(file, kind) =
          [health |-> file.health, listed |-> file.listed, records |-> records]
    BY DEF Append, Contents
  <1> HIDE DEF records
  <1> QED
    BY <1>1, <1>2, <1>3, ContentsParts DEF Contents

LEMMA SetEntryType ==
  ASSUME NEW file \in Contents, NEW s \in Strategies, NEW e \in HealthEntries
  PROVE  /\ SetEntry(file, s, e) \in Contents
         /\ SetEntry(file, s, e).health[s] = e
         /\ SetEntry(file, s, e).listed = file.listed
         /\ SetEntry(file, s, e).records = file.records
  <1> DEFINE health == [file.health EXCEPT ![s] = e]
  <1>1. health \in [Strategies -> HealthEntries \cup {NoEntry}] /\ health[s] = e
    BY ContentsParts
  <1>2. SetEntry(file, s, e) =
          [health |-> health, listed |-> file.listed, records |-> file.records]
    BY DEF SetEntry, Contents
  <1> HIDE DEF health
  <1> QED
    BY <1>1, <1>2, ContentsParts DEF Contents

LEMMA SetListedType ==
  ASSUME NEW file \in Contents, NEW s \in Strategies, NEW n \in Nat
  PROVE  /\ [file EXCEPT !.listed[s] = n] \in Contents
         /\ [file EXCEPT !.listed[s] = n].health = file.health
         /\ [file EXCEPT !.listed[s] = n].records = file.records
  <1> DEFINE listed == [file.listed EXCEPT ![s] = n]
  <1>1. listed \in [Strategies -> Nat]
    BY ContentsParts
  <1>2. [file EXCEPT !.listed[s] = n] =
          [health |-> file.health, listed |-> listed, records |-> file.records]
    BY DEF Contents
  <1> HIDE DEF listed
  <1> QED
    BY <1>1, <1>2, ContentsParts DEF Contents

(* A call leaves a state file, in which the strategy it is about has an    *)
(* entry and the call's own records are the only new ones.                 *)
LEMMA ChangedType ==
  ASSUME NEW file \in Contents, NEW c \in Calls, c.kind # "evolve"
  PROVE  /\ Changed(file, c) \in Contents
         /\ c.kind \in HealthCalls => Changed(file, c).health[c.s] \in HealthEntries
         /\ \A k \in RecordKinds :
              Changed(file, c).records[k] = file.records[k] + Own(c, k)
  <1>1. file.records \in [RecordKinds -> Nat]
    BY ContentsParts
  <1>2. CASE c.kind \in RecordKinds
    <2>1. Changed(file, c) = Append(file, c.kind)
      BY <1>2 DEF Changed, RecordKinds
    <2> QED
      BY <1>2, <2>1, AppendType DEF Own, RecordKinds, HealthCalls
  <1>3. CASE c.kind \in HealthCalls
    <2> DEFINE e == HealthEntry(file.health, c.s)
    <2>1. c.s \in Strategies
      BY <1>3, CallFields
    <2>2. e \in HealthEntries
      BY <2>1, ContentsParts, HealthEntryType
    <2>3. file.listed[c.s] \in Nat
      BY <2>1, ContentsParts
    <2> HIDE DEF e
    <2>4. CASE c.kind = "quarantine"
      <3> DEFINE new == SetEntry(file, c.s, Quarantined(e))
      <3>1. /\ new \in Contents /\ new.health[c.s] \in HealthEntries
            /\ new.listed = file.listed /\ new.records = file.records
        BY <2>1, <2>2, QuarantinedType, SetEntryType
      <3>2. Changed(file, c) = [new EXCEPT !.listed[c.s] = file.listed[c.s] + 1]
        BY <2>4, <3>1 DEF Changed, RecordKinds, e
      <3> HIDE DEF new
      <3>3. file.listed[c.s] + 1 \in Nat
        BY <2>3
      <3> DEFINE n == file.listed[c.s] + 1
      <3> HIDE DEF n
      <3>4. Changed(file, c) = [new EXCEPT !.listed[c.s] = n] /\ n \in Nat
        BY <3>2, <3>3 DEF n
      <3>5. /\ Changed(file, c) \in Contents
            /\ Changed(file, c).health = new.health
            /\ Changed(file, c).records = new.records
        BY <2>1, <3>1, <3>4, SetListedType
      <3> QED
        BY <1>1, <2>4, <3>1, <3>5 DEF Own, RecordKinds
    <2>5. CASE c.kind = "recover"
      <3> DEFINE new == SetEntry(file, c.s, Recovered(e))
                 n == IF ToActive(e) THEN 0 ELSE file.listed[c.s]
      <3>1. /\ new \in Contents /\ new.health[c.s] \in HealthEntries
            /\ new.listed = file.listed /\ new.records = file.records
        BY <2>1, <2>2, RecoveredType, SetEntryType
      <3>2. Changed(file, c) = [new EXCEPT !.listed[c.s] = n]
        BY <2>5, <3>1 DEF Changed, RecordKinds, e
      <3>3. n \in Nat
        BY <2>3
      <3> HIDE DEF new, n
      <3>4. /\ Changed(file, c) \in Contents
            /\ Changed(file, c).health = new.health
            /\ Changed(file, c).records = new.records
        BY <2>1, <3>1, <3>2, <3>3, SetListedType
      <3> QED
        BY <1>1, <2>5, <3>1, <3>4 DEF Own, RecordKinds
    <2>6. CASE c.kind = "retire"
      <3>1. Changed(file, c) = SetEntry(file, c.s, RetiredEntry(e))
        BY <2>6 DEF Changed, RecordKinds, e
      <3>2. RetiredEntry(e) \in HealthEntries
        BY <2>2, RetiredEntryType
      <3> QED
        BY <1>1, <2>1, <2>6, <3>1, <3>2, SetEntryType DEF Own, RecordKinds
    <2>7. CASE c.kind = "drift"
      <3> DEFINE new == SetEntry(file, c.s, Drifted(e, c.verdict))
      <3>1. Changed(file, c) = Append(new, "risk")
        BY <2>7 DEF Changed, RecordKinds, e
      <3>2. Drifted(e, c.verdict) \in HealthEntries
        BY <2>2, <2>7, CallFields, DriftedType
      <3>3. /\ new \in Contents /\ new.health[c.s] \in HealthEntries
            /\ new.records = file.records
        BY <2>1, <3>2, SetEntryType
      <3> HIDE DEF new
      <3>4. "risk" \in RecordKinds
        BY DEF RecordKinds
      <3> QED
        BY <1>1, <2>7, <3>1, <3>3, <3>4, AppendType DEF Own, RecordKinds
    <2> QED
      BY <1>3, <2>4, <2>5, <2>6, <2>7 DEF HealthCalls
  <1> QED
    BY <1>2, <1>3, CallFields DEF CallKinds, HealthCalls

(* apply_rolling_decay leaves a state file and its records alone. *)
LEMMA WithDecayType ==
  ASSUME NEW file \in Contents, NEW active
  PROVE  /\ WithDecay(file, active) \in Contents
         /\ WithDecay(file, active).records = file.records
  <1> DEFINE health == [s \in Strategies |->
               IF s \notin Known(file) THEN NoEntry
               ELSE IF s \in active THEN Refreshed(file.health[s])
               ELSE Decayed(file.health[s])]
  <1>1. \A s \in Known(file) : file.health[s] \in HealthEntries
    BY ContentsParts DEF Known
  <1>2. health \in [Strategies -> HealthEntries \cup {NoEntry}]
    BY <1>1, RefreshedType, DecayedType
  <1>3. WithDecay(file, active) =
          [health |-> health, listed |-> file.listed, records |-> file.records]
    BY DEF WithDecay, Contents
  <1> HIDE DEF health
  <1> QED
    BY <1>2, <1>3, ContentsParts DEF Contents

(* What an upsert writes is a registry entry. *)
LEMMA MergedType ==
  ASSUME Typed, NEW p \in Processes, pc[p] = "upsert", NEW s \in Targets(p)
  PROVE  s \in Strategies /\ Merged(p, s) \in RegistryEntries
  <1> DEFINE c == call[p]
             entry == registryCopy[p][s]
             status == outer[p].health[s].status
  <1>1. /\ c \in Calls /\ registryCopy[p] \in Registries
        /\ c.kind \notin {"execution", "risk"}
        /\ c.kind \in HealthCalls => outer[p].health[c.s] \in HealthEntries
    BY DEF Typed, Fits
  <1>2. c.kind \in HealthCalls \cup {"evolve", "cycle"}
    BY <1>1, CallFields DEF CallKinds, RecordKinds, HealthCalls
  <1>3. s \in Strategies
    BY <1>1, <1>2, CallFields DEF Targets, Typed, TypeOK
  <1>4. entry \in RegistryEntries \cup {Unregistered}
    BY <1>1, <1>3 DEF Registries
  <1>5. c.kind \in HealthCalls => status \in RegistryStatuses
    BY <1>1 DEF Targets, HealthEntries, RegistryStatuses, HealthCalls
  <1>6. "retired" \in RegistryStatuses
    BY DEF RegistryStatuses, HealthStatuses
  <1>7. CASE c.kind = "evolve"
    BY <1>1, <1>3, <1>4, <1>7, CallFields, UpsertCandidateType DEF Merged
  <1>8. CASE c.kind = "drift"
    BY <1>1, <1>3, <1>4, <1>5, <1>8, CallFields, UpsertDriftType DEF Merged, HealthCalls
  <1>9. CASE c.kind = "cycle"
    BY <1>3, <1>4, <1>6, <1>9, UpsertStatusType DEF Merged
  <1>10. CASE c.kind \in {"quarantine", "recover", "retire"}
    BY <1>3, <1>4, <1>5, <1>10, UpsertStatusType DEF Merged, HealthCalls
  <1> QED
    BY <1>2, <1>7, <1>8, <1>9, <1>10 DEF HealthCalls

-----------------------------------------------------------------------------
LEMMA InitTyped == Init => Typed
  <1> SUFFICES ASSUME Init PROVE Typed
    OBVIOUS
  <1>1. DefaultContents \in Contents
    BY DEF DefaultContents, NoRecords, Contents
  <1>2. registry \in Registries
    BY DEF Init, Registries, RegistryEntries, RegistryStatuses
  <1>3. approvals \in [Strategies -> Nat]
    BY ThresholdAssumption DEF Init
  <1>4. HistoryOK
    <2>1. /\ NoRecords \in [RecordKinds -> Nat]
          /\ \A k \in RecordKinds : NoRecords[k] <= NoRecords[k]
      BY DEF NoRecords
    <2>2. /\ torn = FALSE /\ returned = NoRecords /\ overwritten = NoRecords
          /\ outerSeen = [p \in Processes |-> NoRecords]
          /\ innerSeen = [p \in Processes |-> NoRecords]
      BY DEF Init
    <2> QED
      BY <2>1, <2>2 DEF HistoryOK
  <1> QED
    BY <1>1, <1>2, <1>3, <1>4 DEF Init, Typed, TypeOK, HistoryOK, Fits, Labels

(* A readable state file is one save_state wrote. *)
LEMMA ReadableType ==
  ASSUME TypeOK, Readable(stateFile)
  PROVE  stateFile \in Contents
  BY DEF TypeOK, Readable

(* What has returned, been loaded and been put back, after every step.     *)
LEMMA HistoryTyped == Typed /\ [Next]_vars => HistoryOK'
  <1> SUFFICES ASSUME Typed, [Next]_vars PROVE HistoryOK'
    OBVIOUS
  <1> USE DEF appends, history
  <1> HistoryOK
    BY DEF Typed
  <1> /\ NoRecords \in [RecordKinds -> Nat]
      /\ \A k \in RecordKinds : NoRecords[k] <= returned[k]
    BY DEF NoRecords, HistoryOK
  <1>1. ASSUME NEW p \in Processes,
               \/ \E c \in Calls : BeginEvolve(p, c)
               \/ \E s \in Strategies : SaveRegistry(p, s) \/ SyncFails(p, s)
               \/ LoadRegistry(p) \/ Truncate(p)
        PROVE  HistoryOK'
    <2>1. UNCHANGED appends /\ torn' \in BOOLEAN
      BY <1>1 DEF BeginEvolve, LoadRegistry, SaveRegistry, SyncFails, Truncate, HistoryOK
    <2> QED
      BY <2>1 DEF HistoryOK
  <1>2. ASSUME NEW p \in Processes,
               (\E c \in Calls : BeginCall(p, c)) \/ AppendDriftEvent(p)
        PROVE  HistoryOK'
    <2>1. /\ outerSeen' = [outerSeen EXCEPT ![p] = returned]
          /\ UNCHANGED <<torn, returned, innerSeen, overwritten>>
      BY <1>2 DEF BeginCall, AppendDriftEvent
    <2> QED
      BY <2>1 DEF HistoryOK
  <1>3. ASSUME NEW p \in Processes, ApplyRollingDecay(p)
        PROVE  HistoryOK'
    <2>1. /\ innerSeen' = [innerSeen EXCEPT ![p] = returned]
          /\ UNCHANGED <<torn, returned, outerSeen, overwritten>>
      BY <1>3 DEF ApplyRollingDecay
    <2> QED
      BY <2>1 DEF HistoryOK
  <1>4. ASSUME NEW p \in Processes, WriteDecay(p)
        PROVE  HistoryOK'
    <2>1. /\ overwritten' = PutBack(innerSeen[p]) /\ torn' \in BOOLEAN
          /\ innerSeen' = [innerSeen EXCEPT ![p] = NoRecords]
          /\ UNCHANGED <<returned, outerSeen>>
      BY <1>4 DEF WriteDecay, StillTorn, HistoryOK
    <2>2. overwritten' \in [RecordKinds -> Nat]
      BY <2>1 DEF PutBack, HistoryOK
    <2> QED
      BY <2>1, <2>2 DEF HistoryOK
  <1>5. ASSUME NEW p \in Processes, WriteState(p)
        PROVE  HistoryOK'
    <2>1. /\ overwritten' = PutBack(outerSeen[p]) /\ torn' \in BOOLEAN
          /\ \/ outerSeen' = [outerSeen EXCEPT ![p] = outerSeen[p]]
             \/ outerSeen' = [outerSeen EXCEPT ![p] = NoRecords]
          /\ innerSeen' = innerSeen
      BY <1>5 DEF WriteState, StillTorn, HistoryOK
    <2>2. overwritten' \in [RecordKinds -> Nat]
      BY <2>1 DEF PutBack, HistoryOK
    <2>3. /\ returned' \in [RecordKinds -> Nat]
          /\ \A k \in RecordKinds : returned[k] <= returned'[k]
      BY <1>5 DEF WriteState, HistoryOK
    <2>4. /\ outerSeen' \in [Processes -> [RecordKinds -> Nat]]
          /\ \A q \in Processes, k \in RecordKinds : outerSeen'[q][k] <= returned[k]
      BY <2>1 DEF HistoryOK
    <2> QED
      BY <2>1, <2>2, <2>3, <2>4 DEF HistoryOK
  <1>6. ASSUME NEW p \in Processes, UpsertFails(p) \/ LoadFails(p) \/ Crash(p)
        PROVE  HistoryOK'
    <2>1. /\ outerSeen' = [outerSeen EXCEPT ![p] = NoRecords]
          /\ innerSeen' = [innerSeen EXCEPT ![p] = NoRecords]
          /\ torn' \in BOOLEAN
          /\ UNCHANGED <<returned, overwritten>>
      BY <1>6 DEF UpsertFails, LoadFails, Crash, Abandon, HistoryOK
    <2>2. /\ outerSeen' \in [Processes -> [RecordKinds -> Nat]]
          /\ innerSeen' \in [Processes -> [RecordKinds -> Nat]]
      BY <2>1 DEF HistoryOK
    <2> QED
      BY <2>1, <2>2 DEF HistoryOK
  <1>7. CASE UNCHANGED vars
    BY <1>7 DEF vars, HistoryOK
  <1> QED
    BY <1>1, <1>2, <1>3, <1>4, <1>5, <1>6, <1>7 DEF Next, Step

LEMMA NextTyped == Typed /\ [Next]_vars => Typed'
  <1> SUFFICES ASSUME Typed, [Next]_vars PROVE Typed'
    OBVIOUS
  <1> USE DEF local, appends, history
  <1> TypeOK /\ HistoryOK'
    BY HistoryTyped DEF Typed
  <1>1. ASSUME NEW p \in Processes, NEW c \in Calls, BeginCall(p, c)
        PROVE  Typed'
    <2> DEFINE label == CASE c.kind \in {"quarantine", "recover", "retire"} -> "sync"
                          [] c.kind = "cycle" -> "decay"
                          [] OTHER -> "outer"
    <2>1. stateFile \in Contents
      BY <1>1, ReadableType DEF BeginCall
    <2>2. /\ Changed(stateFile, c) \in Contents
          /\ c.kind \in HealthCalls => Changed(stateFile, c).health[c.s] \in HealthEntries
      BY <1>1, <2>1, ChangedType DEF BeginCall
    <2>3. /\ call' = [call EXCEPT ![p] = c]
          /\ outer' = [outer EXCEPT ![p] = Changed(stateFile, c)]
          /\ pc' = [pc EXCEPT ![p] = label]
          /\ calls' = calls + 1
          /\ overlapped' \in BOOLEAN /\ diverted' \subseteq Strategies
          /\ UNCHANGED <<stateFile, registry, inner, retiring, registryCopy, crashes,
                         syncFailures, returned, approvals, told, raced>>
      BY <1>1, CallFields DEF BeginCall, Goto, TypeOK, HealthCalls
    <2>4. label \in {"sync", "decay", "outer"}
      OBVIOUS
    <2>5. /\ c.kind = "cycle" <=> label = "decay"
          /\ label = "sync" => c.kind \in {"quarantine", "recover", "retire"}
      OBVIOUS
    <2>6. c.kind # "evolve"
      BY <1>1 DEF BeginCall
    <2> HIDE DEF label
    <2>7. TypeOK'
      BY <2>2, <2>3, <2>4 DEF TypeOK, HistoryOK, Labels
    <2>8. Fits(p)'
      BY <2>2, <2>3, <2>4, <2>5, <2>6 DEF Fits, TypeOK
    <2>9. \A q \in Processes \ {p} : Unmoved(q)
      BY <2>3 DEF Unmoved, TypeOK
    <2> QED
      BY <2>7, <2>8, <2>9, OthersFit DEF Typed
  <1>2. ASSUME NEW p \in Processes, NEW c \in Calls, BeginEvolve(p, c)
        PROVE  Typed'
    <2>1. /\ call' = [call EXCEPT ![p] = c] /\ c.kind = "evolve"
          /\ pc' = [pc EXCEPT ![p] = "sync"]
          /\ calls' = calls + 1
          /\ UNCHANGED <<stateFile, registry, outer, inner, retiring, registryCopy,
                         crashes, syncFailures, overlapped, returned, approvals, told,
                         diverted, raced>>
      BY <1>2 DEF BeginEvolve, Goto
    <2>2. TypeOK'
      BY <2>1 DEF TypeOK, HistoryOK, Labels
    <2>3. Fits(p)'
      BY <2>1 DEF Fits, TypeOK, HealthCalls
    <2>4. \A q \in Processes \ {p} : Unmoved(q)
      BY <2>1 DEF Unmoved, TypeOK
    <2> QED
      BY <2>2, <2>3, <2>4, OthersFit DEF Typed
  <1>3. ASSUME NEW p \in Processes, ApplyRollingDecay(p)
        PROVE  Typed'
    <2> DEFINE active  == call[p].active
               retired == RetiredByDecay(stateFile, active)
               copy    == IF DecayIsSaved(stateFile, active)
                          THEN WithDecay(stateFile, active) ELSE inner[p]
               label   == IF retired # {} THEN "sync"
                          ELSE IF DecayIsSaved(stateFile, active) THEN "inner" ELSE "outer"
    <2>1. stateFile \in Contents
      BY <1>3, ReadableType DEF ApplyRollingDecay
    <2>2. WithDecay(stateFile, active) \in Contents
      BY <2>1, WithDecayType
    <2>3. retired \subseteq Strategies
      BY DEF RetiredByDecay, Known
    <2>4. pc[p] = "decay" /\ call[p].kind = "cycle"
      BY <1>3 DEF ApplyRollingDecay, Typed, Fits
    <2>5. /\ label \in {"sync", "inner"} => copy \in Contents
          /\ label \in {"sync", "inner", "outer"}
      BY <2>2 DEF DecayIsSaved
    <2>6. copy \in Contents \cup {Nothing}
      BY <2>2 DEF TypeOK
    <2>7. /\ inner' = [inner EXCEPT ![p] = copy]
          /\ retiring' = [retiring EXCEPT ![p] = retired]
          /\ pc' = [pc EXCEPT ![p] = label]
          /\ diverted' = diverted \cup retired
          /\ UNCHANGED <<stateFile, registry, call, outer, registryCopy, calls,
                         crashes, syncFailures, overlapped, returned, approvals, told,
                         raced>>
      BY <1>3 DEF ApplyRollingDecay, Goto
    <2> HIDE DEF active, retired, copy, label
    <2>8. TypeOK'
      BY <2>3, <2>5, <2>6, <2>7 DEF TypeOK, HistoryOK, Labels
    <2>9. Fits(p)'
      BY <2>4, <2>5, <2>7 DEF Fits, TypeOK, Typed
    <2>10. \A q \in Processes \ {p} : Unmoved(q)
      BY <2>7 DEF Unmoved, TypeOK
    <2> QED
      BY <2>8, <2>9, <2>10, OthersFit DEF Typed
  <1>4. ASSUME NEW p \in Processes, LoadRegistry(p)
        PROVE  Typed'
    <2>1. /\ pc[p] = "sync"
          /\ registryCopy' = [registryCopy EXCEPT ![p] = registry]
          /\ pc' = [pc EXCEPT ![p] = "upsert"]
          /\ raced' \in BOOLEAN
          /\ UNCHANGED <<stateFile, registry, call, outer, inner, retiring, calls,
                         crashes, syncFailures, overlapped, returned, approvals, told,
                         diverted>>
      BY <1>4 DEF LoadRegistry, Goto, TypeOK
    <2>2. TypeOK'
      BY <2>1 DEF TypeOK, HistoryOK, Labels
    <2>3. Fits(p)'
      BY <2>1 DEF Fits, TypeOK, Typed
    <2>4. \A q \in Processes \ {p} : Unmoved(q)
      BY <2>1 DEF Unmoved, TypeOK
    <2> QED
      BY <2>2, <2>3, <2>4, OthersFit DEF Typed
  <1>5. ASSUME NEW p \in Processes, NEW s \in Strategies, SaveRegistry(p, s)
        PROVE  Typed'
    <2> DEFINE label == AfterSync(p, s)
    <2>1. /\ pc[p] = "upsert" /\ s \in Targets(p)
          /\ registry' = [registryCopy[p] EXCEPT ![s] = Merged(p, s)]
          /\ told' = [told EXCEPT ![s] = Merged(p, s)]
          /\ registryCopy' = [registryCopy EXCEPT ![p] = Nothing]
          /\ retiring' = [retiring EXCEPT ![p] = retiring[p] \ {s}]
          /\ pc' = [pc EXCEPT ![p] = label]
          /\ call' = [call EXCEPT ![p] = IF call[p].kind = "evolve" THEN Nothing
                                         ELSE call[p]]
          /\ UNCHANGED <<stateFile, outer, inner, calls, crashes, syncFailures,
                         overlapped, returned, approvals, diverted, raced>>
      BY <1>5 DEF SaveRegistry, ToldRegistry, Goto
    <2>2. Merged(p, s) \in RegistryEntries
      BY <2>1, MergedType
    <2>3. /\ call[p] \in Calls /\ registryCopy[p] \in Registries
          /\ call[p].kind \notin {"execution", "risk"}
      BY <2>1 DEF Typed, Fits
    <2>4. /\ call[p].kind = "evolve" <=> label = "idle"
          /\ call[p].kind = "drift" <=> label = "append"
          /\ call[p].kind = "cycle" <=> label \in {"inner", "sync"}
          /\ label \in {"idle", "append", "inner", "sync", "outer"}
      BY DEF AfterSync
    <2> HIDE DEF label
    <2>5. registry' \in Registries /\ told' \in Registries
      BY <2>1, <2>2, <2>3 DEF Registries, TypeOK
    <2>6. TypeOK'
      BY <2>1, <2>4, <2>5 DEF TypeOK, HistoryOK, Labels
    <2>7. Fits(p)'
      BY <2>1, <2>3, <2>4 DEF Fits, TypeOK, Typed
    <2>8. \A q \in Processes \ {p} : Unmoved(q)
      BY <2>1 DEF Unmoved, TypeOK
    <2> QED
      BY <2>6, <2>7, <2>8, OthersFit DEF Typed
  <1>6. ASSUME NEW p \in Processes, NEW s \in Strategies, SyncFails(p, s)
        PROVE  Typed'
    <2> DEFINE label == AfterSync(p, s)
    <2>1. /\ pc[p] \in {"sync", "upsert"} /\ call[p].kind \notin {"drift", "evolve"}
          /\ syncFailures' = syncFailures + 1
          /\ registryCopy' = [registryCopy EXCEPT ![p] = Nothing]
          /\ retiring' = [retiring EXCEPT ![p] = retiring[p] \ {s}]
          /\ pc' = [pc EXCEPT ![p] = label]
          /\ UNCHANGED <<stateFile, registry, call, outer, inner, calls, crashes,
                         overlapped, returned, approvals, told,
                         diverted, raced>>
      BY <1>6 DEF SyncFails, ToldRegistry, Goto
    <2>2. /\ call[p].kind = "cycle" <=> label \in {"inner", "sync"}
          /\ label \in {"inner", "sync", "outer"}
      BY <2>1 DEF AfterSync
    <2> HIDE DEF label
    <2>3. TypeOK'
      BY <2>1, <2>2 DEF TypeOK, HistoryOK, Labels
    <2>4. Fits(p)'
      BY <2>1, <2>2 DEF Fits, TypeOK, Typed
    <2>5. \A q \in Processes \ {p} : Unmoved(q)
      BY <2>1 DEF Unmoved, TypeOK
    <2> QED
      BY <2>3, <2>4, <2>5, OthersFit DEF Typed
  <1>7. ASSUME NEW p \in Processes, Truncate(p)
        PROVE  Typed'
    <2>1. /\ \/ pc[p] = "inner" /\ pc' = [pc EXCEPT ![p] = "innerWrite"]
             \/ pc[p] = "outer" /\ pc' = [pc EXCEPT ![p] = "outerWrite"]
          /\ stateFile' = Empty
          /\ UNCHANGED <<registry, call, outer, inner, retiring, registryCopy, calls,
                         crashes, syncFailures, overlapped, returned, approvals, told,
                         diverted, raced>>
      BY <1>7 DEF Truncate, Goto
    <2>2. TypeOK'
      BY <2>1 DEF TypeOK, HistoryOK, Labels
    <2>3. Fits(p)'
      BY <2>1 DEF Fits, TypeOK, Typed
    <2>4. \A q \in Processes \ {p} : Unmoved(q)
      BY <2>1 DEF Unmoved, TypeOK
    <2> QED
      BY <2>2, <2>3, <2>4, OthersFit DEF Typed
  <1>8. ASSUME NEW p \in Processes, WriteDecay(p)
        PROVE  Typed'
    <2>1. /\ pc[p] = "innerWrite" /\ pc' = [pc EXCEPT ![p] = "outer"]
          /\ stateFile' \in {inner[p], Garbled}
          /\ inner' = [inner EXCEPT ![p] = Nothing]
          /\ UNCHANGED <<registry, call, outer, retiring, registryCopy, calls, crashes,
                         syncFailures, overlapped, returned, approvals, told,
                         diverted, raced>>
      BY <1>8 DEF WriteDecay, WriteOutcomes, Goto
    <2>2. inner[p] \in Contents
      BY <2>1 DEF Typed, Fits
    <2>3. TypeOK'
      BY <2>1, <2>2 DEF TypeOK, HistoryOK, Labels
    <2>4. Fits(p)'
      BY <2>1 DEF Fits, TypeOK, Typed
    <2>5. \A q \in Processes \ {p} : Unmoved(q)
      BY <2>1 DEF Unmoved, TypeOK
    <2> QED
      BY <2>3, <2>4, <2>5, OthersFit DEF Typed
  <1>9. ASSUME NEW p \in Processes, WriteState(p)
        PROVE  Typed'
    <2> DEFINE drift == call[p].kind = "drift"
    <2>1. /\ pc[p] = "outerWrite"
          /\ pc' = [pc EXCEPT ![p] = IF drift THEN "sync" ELSE "idle"]
          /\ stateFile' \in {outer[p], Garbled}
          /\ outer' = [outer EXCEPT ![p] = IF drift THEN outer[p] ELSE Nothing]
          /\ call' = [call EXCEPT ![p] = IF drift THEN call[p] ELSE Nothing]
          /\ UNCHANGED <<registry, inner, retiring, registryCopy, calls, crashes,
                         syncFailures, overlapped, told, raced>>
          /\ diverted' \subseteq diverted
      BY <1>9 DEF WriteState, WriteOutcomes, Goto
    <2>2. outer[p] \in Contents
      BY <2>1 DEF Typed, Fits
    <2>4. approvals' \in [Strategies -> Nat]
      BY <1>9 DEF WriteState, TypeOK
    <2>5. TypeOK'
      BY <2>1, <2>2, <2>4 DEF TypeOK, HistoryOK, Labels
    <2>6. Fits(p)'
      BY <2>1 DEF Fits, TypeOK, Typed
    <2>7. \A q \in Processes \ {p} : Unmoved(q)
      BY <2>1 DEF Unmoved, TypeOK
    <2> QED
      BY <2>5, <2>6, <2>7, OthersFit DEF Typed
  <1>10. ASSUME NEW p \in Processes, AppendDriftEvent(p)
         PROVE  Typed'
    <2> DEFINE event == [kind |-> "risk"]
    <2>1. /\ pc[p] = "append" /\ pc' = [pc EXCEPT ![p] = "outer"]
          /\ call' = [call EXCEPT ![p] = event]
          /\ outer' = [outer EXCEPT ![p] = Append(stateFile, "risk")]
          /\ UNCHANGED <<stateFile, registry, inner, retiring, registryCopy, calls,
                         crashes, syncFailures, overlapped, returned, approvals, told,
                         diverted, raced>>
      BY <1>10 DEF AppendDriftEvent, Goto
    <2>2. Append(stateFile, "risk") \in Contents
      BY <1>10, ReadableType, AppendType DEF AppendDriftEvent, RecordKinds
    <2>3. event \in Calls /\ event.kind = "risk"
      BY DEF Calls
    <2> HIDE DEF event
    <2>4. TypeOK'
      BY <2>1, <2>2, <2>3 DEF TypeOK, HistoryOK, Labels
    <2>5. Fits(p)'
      BY <2>1, <2>2, <2>3 DEF Fits, TypeOK, HealthCalls
    <2>6. \A q \in Processes \ {p} : Unmoved(q)
      BY <2>1 DEF Unmoved, TypeOK
    <2> QED
      BY <2>4, <2>5, <2>6, OthersFit DEF Typed
  <1>11. ASSUME NEW p \in Processes, Abandon(p),
                crashes' \in Nat, syncFailures' \in Nat
         PROVE  Typed'
    <2>1. /\ pc' = [pc EXCEPT ![p] = "idle"]
          /\ outer' = [outer EXCEPT ![p] = Nothing]
          /\ inner' = [inner EXCEPT ![p] = Nothing]
          /\ retiring' = [retiring EXCEPT ![p] = {}]
          /\ registryCopy' = [registryCopy EXCEPT ![p] = Nothing]
          /\ call' = [call EXCEPT ![p] = Nothing]
          /\ UNCHANGED <<stateFile, registry, calls, overlapped, returned, approvals, told,
                         diverted, raced>>
      BY <1>11 DEF Abandon, Goto
    <2>2. TypeOK'
      BY <1>11, <2>1 DEF TypeOK, HistoryOK, Labels
    <2>3. Fits(p)'
      BY <2>1 DEF Fits, TypeOK
    <2>4. \A q \in Processes \ {p} : Unmoved(q)
      BY <2>1 DEF Unmoved, TypeOK
    <2> QED
      BY <2>2, <2>3, <2>4, OthersFit DEF Typed
  <1>12. ASSUME NEW p \in Processes, UpsertFails(p) \/ LoadFails(p) \/ Crash(p)
         PROVE  Typed'
    BY <1>11, <1>12 DEF UpsertFails, LoadFails, Crash, TypeOK
  <1>13. CASE UNCHANGED vars
    BY <1>13 DEF vars, Typed, TypeOK, Fits
  <1> QED
    BY <1>1, <1>2, <1>3, <1>4, <1>5, <1>6, <1>7, <1>8, <1>9, <1>10, <1>12, <1>13
    DEF Next, Step

(* Whatever overlaps, fails or crashes, the files and the copies in memory *)
(* are ones state.py and registry.py can produce, or the file is no JSON.  *)
THEOREM TypeCorrect == Spec => []TypeOK
  <1>1. Spec => []Typed
    BY InitTyped, NextTyped, PTL DEF Spec
  <1>2. Typed => TypeOK
    BY DEF Typed
  <1> QED
    BY <1>1, <1>2, PTL

-----------------------------------------------------------------------------
(* While no two calls on the state file have overlapped, one call at a     *)
(* time uses it, and the file is readable except inside its writes.        *)

WriteLabels == {"innerWrite", "outerWrite"}

(* p has loaded the file and has yet to save what it made of it. *)
Unsaved(p) ==
  /\ UsesStateFile(p)
  /\ call[p].kind = "drift" => pc[p] \in {"outer", "outerWrite"}

DecayUnsaved(p) ==
  \/ pc[p] \in {"inner", "innerWrite"}
  \/ pc[p] \in {"sync", "upsert"} /\ call[p].kind = "cycle"

OneAtATime ==
  \A p, q \in Processes : UsesStateFile(p) /\ UsesStateFile(q) => p = q

ReadableExceptInWrites ==
  /\ \A p \in Processes : pc[p] \in WriteLabels => stateFile = Empty
  /\ crashes = 0 => Readable(stateFile) \/ \E p \in Processes : pc[p] \in WriteLabels

TurnsTaken == ~overlapped => OneAtATime /\ ReadableExceptInWrites

LEMMA InitTurnsTaken == Init => TurnsTaken
  <1> SUFFICES ASSUME Init PROVE OneAtATime /\ ReadableExceptInWrites
    BY DEF TurnsTaken
  <1>1. \A p \in Processes : pc[p] = "idle"
    BY DEF Init
  <1>2. stateFile \in Contents
    BY DEF Init, DefaultContents, NoRecords, Contents
  <1>3. Readable(stateFile)
    BY <1>2, FileAssumption DEF Readable
  <1> QED
    BY <1>1, <1>3 DEF OneAtATime, ReadableExceptInWrites, UsesStateFile, Idle, WriteLabels

(* The steps that neither start nor end a save: they only move p on.       *)
LEMMA MovingOn ==
  ASSUME Typed, TurnsTaken, NEW p \in Processes,
         UNCHANGED <<stateFile, crashes, overlapped>>,
         \A q \in Processes \ {p} : Unmoved(q),
         pc[p] \notin WriteLabels, pc'[p] \notin WriteLabels,
         UsesStateFile(p)' => UsesStateFile(p)
  PROVE  TurnsTaken'
  <1> SUFFICES ASSUME ~overlapped PROVE OneAtATime' /\ ReadableExceptInWrites'
    BY DEF TurnsTaken
  <1> OneAtATime /\ ReadableExceptInWrites
    BY DEF TurnsTaken
  <1>1. OneAtATime'
    BY DEF OneAtATime, UsesStateFile, Idle, Unmoved
  <1>2. ReadableExceptInWrites'
    BY DEF ReadableExceptInWrites, Readable, Unmoved
  <1> QED
    BY <1>1, <1>2

(* The end of a write: the file is what p wrote, and p alone was using it. *)
LEMMA WriteEnds ==
  ASSUME Typed, TurnsTaken, ~overlapped, NEW p \in Processes, pc[p] \in WriteLabels,
         NEW content \in Contents, stateFile' \in WriteOutcomes(content)
  PROVE  /\ stateFile' = content /\ Readable(stateFile')
         /\ \A q \in Processes \ {p} : ~UsesStateFile(q)
  <1>1. UsesStateFile(p)
    BY DEF UsesStateFile, Idle, Typed, Fits, WriteLabels
  <1>2. OneAtATime /\ ReadableExceptInWrites
    BY DEF TurnsTaken
  <1>3. stateFile' = content
    BY <1>2 DEF ReadableExceptInWrites, WriteOutcomes
  <1> QED
    BY <1>1, <1>2, <1>3, FileAssumption DEF OneAtATime, Readable

(* A process that does not use the state file promises nothing about it. *)
LEMMA Bystander ==
  ASSUME Typed, NEW q \in Processes, ~UsesStateFile(q)
  PROVE  ~Unsaved(q) /\ ~DecayUnsaved(q) /\ pc[q] \notin WriteLabels
  BY DEF Typed, Fits, Unsaved, DecayUnsaved, UsesStateFile, Idle, WriteLabels

LEMMA NextTurnsTaken == Typed /\ TurnsTaken /\ [Next]_vars => TurnsTaken'
  <1> SUFFICES ASSUME Typed, TurnsTaken, [Next]_vars PROVE TurnsTaken'
    OBVIOUS
  <1> USE DEF local, appends, history
  <1> TypeOK
    BY DEF Typed
  <1>1. ASSUME NEW p \in Processes, NEW c \in Calls, BeginCall(p, c)
        PROVE  TurnsTaken'
    <2> SUFFICES ASSUME ~overlapped' PROVE OneAtATime' /\ ReadableExceptInWrites'
      BY DEF TurnsTaken
    <2>1. ~overlapped /\ \A q \in Processes : ~UsesStateFile(q)
      BY <1>1 DEF BeginCall
    <2>2. /\ call' = [call EXCEPT ![p] = c] /\ c.kind # "evolve"
          /\ outer' = [outer EXCEPT ![p] = Changed(stateFile, c)]
          /\ \E label \in {"sync", "decay", "outer"} : pc' = [pc EXCEPT ![p] = label]
          /\ UNCHANGED <<stateFile, inner, registryCopy>>
      BY <1>1 DEF BeginCall, Goto
    <2>3. \A q \in Processes \ {p} : Unmoved(q)
      BY <2>2 DEF Unmoved, TypeOK
    <2>4. \A q \in Processes \ {p} : ~UsesStateFile(q)'
      BY <2>1, <2>3 DEF UsesStateFile, Idle, Unmoved
    <2>5. pc'[p] \in {"sync", "decay", "outer"}
      BY <2>2 DEF TypeOK
    <2>6. \A q \in Processes : pc'[q] \notin WriteLabels
      BY <2>1, <2>3, <2>5, Bystander DEF Unmoved, WriteLabels
    <2>7. Readable(stateFile) /\ stateFile' = stateFile
      BY <1>1 DEF BeginCall
    <2> QED
      BY <2>4, <2>6, <2>7 DEF OneAtATime, ReadableExceptInWrites, Readable
  <1>2. ASSUME NEW p \in Processes, NEW c \in Calls, BeginEvolve(p, c)
        PROVE  TurnsTaken'
    <2>1. /\ pc[p] = "idle" /\ c.kind = "evolve"
          /\ pc' = [pc EXCEPT ![p] = "sync"] /\ call' = [call EXCEPT ![p] = c]
          /\ UNCHANGED <<stateFile, outer, inner, registryCopy, crashes, overlapped>>
      BY <1>2 DEF BeginEvolve, Goto, Idle
    <2>2. pc'[p] = "sync" /\ call'[p].kind = "evolve"
      BY <2>1 DEF TypeOK
    <2>3. ~UsesStateFile(p)'
      BY <2>2 DEF UsesStateFile
    <2>4. \A q \in Processes \ {p} : Unmoved(q)
      BY <2>1 DEF Unmoved, TypeOK
    <2> QED
      BY <2>1, <2>2, <2>3, <2>4, MovingOn DEF WriteLabels
  <1>3. ASSUME NEW p \in Processes, ApplyRollingDecay(p)
        PROVE  TurnsTaken'
    <2>1. /\ pc[p] = "decay"
          /\ \E label \in {"sync", "inner", "outer"} : pc' = [pc EXCEPT ![p] = label]
          /\ \E copy : inner' = [inner EXCEPT ![p] = copy]
          /\ UNCHANGED <<stateFile, call, outer, registryCopy, crashes, overlapped>>
      BY <1>3 DEF ApplyRollingDecay, Goto
    <2>2. pc'[p] \in {"sync", "inner", "outer"} /\ \A q \in Processes \ {p} : Unmoved(q)
      BY <2>1 DEF TypeOK, Unmoved
    <2> QED
      BY <2>1, <2>2, MovingOn DEF WriteLabels, UsesStateFile, Idle
  <1>4. ASSUME NEW p \in Processes, LoadRegistry(p)
        PROVE  TurnsTaken'
    <2>1. /\ pc[p] = "sync" /\ pc' = [pc EXCEPT ![p] = "upsert"]
          /\ registryCopy' = [registryCopy EXCEPT ![p] = registry]
          /\ UNCHANGED <<stateFile, call, outer, inner, crashes, overlapped>>
      BY <1>4 DEF LoadRegistry, Goto
    <2>2. pc'[p] = "upsert" /\ \A q \in Processes \ {p} : Unmoved(q)
      BY <2>1 DEF Unmoved, TypeOK
    <2> QED
      BY <2>1, <2>2, MovingOn DEF WriteLabels, UsesStateFile, Idle
  <1>5. ASSUME NEW p \in Processes, NEW s \in Strategies,
               SaveRegistry(p, s) \/ SyncFails(p, s)
        PROVE  TurnsTaken'
    <2>1. /\ pc[p] \in {"sync", "upsert"}
          /\ pc' = [pc EXCEPT ![p] = AfterSync(p, s)]
          /\ call' = [call EXCEPT ![p] =
                        IF call[p].kind = "evolve" THEN Nothing ELSE call[p]]
          /\ registryCopy' = [registryCopy EXCEPT ![p] = Nothing]
          /\ UNCHANGED <<stateFile, outer, inner, crashes, overlapped>>
      BY <1>5 DEF SaveRegistry, SyncFails, Goto, TypeOK
    <2>2. \A q \in Processes \ {p} : Unmoved(q)
      BY <2>1 DEF Unmoved, TypeOK
    <2>3. /\ pc'[p] = AfterSync(p, s)
          /\ call[p].kind # "evolve" => call'[p] = call[p]
      BY <2>1 DEF TypeOK
    <2>4. /\ call[p].kind = "evolve" => pc'[p] = "idle"
          /\ pc'[p] \in {"idle", "append", "inner", "sync", "outer"}
      BY <2>3 DEF AfterSync
    <2>5. UsesStateFile(p)' => UsesStateFile(p)
      BY <2>1, <2>3, <2>4 DEF UsesStateFile, Idle
    <2> QED
      BY <2>1, <2>2, <2>4, <2>5, MovingOn DEF WriteLabels
  <1>6. ASSUME NEW p \in Processes, Truncate(p)
        PROVE  TurnsTaken'
    <2> SUFFICES ASSUME ~overlapped PROVE OneAtATime' /\ ReadableExceptInWrites'
      BY <1>6 DEF TurnsTaken, Truncate
    <2>1. /\ \/ pc[p] = "inner" /\ pc' = [pc EXCEPT ![p] = "innerWrite"]
             \/ pc[p] = "outer" /\ pc' = [pc EXCEPT ![p] = "outerWrite"]
          /\ stateFile' = Empty
          /\ UNCHANGED <<call, outer, inner, registryCopy>>
      BY <1>6 DEF Truncate, Goto
    <2>2. /\ pc[p] # "idle" /\ pc'[p] \in WriteLabels
          /\ \A q \in Processes \ {p} : Unmoved(q)
      BY <2>1 DEF TypeOK, Unmoved, WriteLabels
    <2>3. OneAtATime
      BY DEF TurnsTaken
    <2>4. OneAtATime'
      BY <2>1, <2>2, <2>3 DEF OneAtATime, UsesStateFile, Idle, Unmoved
    <2> QED
      BY <2>1, <2>2, <2>4 DEF ReadableExceptInWrites
  <1>7. ASSUME NEW p \in Processes, WriteDecay(p)
        PROVE  TurnsTaken'
    <2> SUFFICES ASSUME ~overlapped PROVE OneAtATime' /\ ReadableExceptInWrites'
      BY <1>7 DEF TurnsTaken, WriteDecay
    <2>1. /\ pc[p] = "innerWrite" /\ pc' = [pc EXCEPT ![p] = "outer"]
          /\ stateFile' \in WriteOutcomes(inner[p])
          /\ inner' = [inner EXCEPT ![p] = Nothing]
          /\ UNCHANGED <<call, outer, registryCopy>>
      BY <1>7 DEF WriteDecay, Goto
    <2>2. inner[p] \in Contents
      BY <2>1 DEF Typed, Fits
    <2>3. Readable(stateFile') /\ \A q \in Processes \ {p} : ~UsesStateFile(q)
      BY <2>1, <2>2, WriteEnds DEF WriteLabels
    <2>4. pc'[p] = "outer" /\ \A q \in Processes \ {p} : Unmoved(q)
      BY <2>1 DEF TypeOK, Unmoved
    <2>5. \A q \in Processes \ {p} : ~UsesStateFile(q)' /\ pc'[q] \notin WriteLabels
      BY <2>3, <2>4, Bystander DEF UsesStateFile, Idle, Unmoved
    <2> QED
      BY <2>3, <2>4, <2>5 DEF OneAtATime, ReadableExceptInWrites, Readable, WriteLabels
  <1>8. ASSUME NEW p \in Processes, WriteState(p)
        PROVE  TurnsTaken'
    <2> SUFFICES ASSUME ~overlapped PROVE OneAtATime' /\ ReadableExceptInWrites'
      BY <1>8 DEF TurnsTaken, WriteState
    <2> DEFINE drift == call[p].kind = "drift"
    <2>1. /\ pc[p] = "outerWrite"
          /\ pc' = [pc EXCEPT ![p] = IF drift THEN "sync" ELSE "idle"]
          /\ stateFile' \in WriteOutcomes(outer[p])
          /\ call' = [call EXCEPT ![p] = IF drift THEN call[p] ELSE Nothing]
          /\ outer' = [outer EXCEPT ![p] = IF drift THEN outer[p] ELSE Nothing]
          /\ UNCHANGED <<inner, registryCopy>>
      BY <1>8 DEF WriteState, Goto
    <2>2. outer[p] \in Contents
      BY <2>1 DEF Typed, Fits
    <2>3. Readable(stateFile') /\ \A q \in Processes \ {p} : ~UsesStateFile(q)
      BY <2>1, <2>2, WriteEnds DEF WriteLabels
    <2>4. pc'[p] \notin WriteLabels /\ \A q \in Processes \ {p} : Unmoved(q)
      BY <2>1 DEF TypeOK, Unmoved, WriteLabels
    <2>5. \A q \in Processes \ {p} : ~UsesStateFile(q)' /\ pc'[q] \notin WriteLabels
      BY <2>3, <2>4, Bystander DEF UsesStateFile, Idle, Unmoved
    <2> QED
      BY <2>3, <2>4, <2>5 DEF OneAtATime, ReadableExceptInWrites, Readable
  <1>9. ASSUME NEW p \in Processes, AppendDriftEvent(p)
        PROVE  TurnsTaken'
    <2>1. /\ pc[p] = "append" /\ pc' = [pc EXCEPT ![p] = "outer"]
          /\ \E event, copy : /\ call' = [call EXCEPT ![p] = event]
                              /\ outer' = [outer EXCEPT ![p] = copy]
          /\ UNCHANGED <<stateFile, inner, registryCopy, crashes, overlapped>>
      BY <1>9 DEF AppendDriftEvent, Goto
    <2>2. UsesStateFile(p)
      BY <2>1 DEF UsesStateFile, Idle, Typed, Fits
    <2>3. pc'[p] = "outer" /\ \A q \in Processes \ {p} : Unmoved(q)
      BY <2>1 DEF TypeOK, Unmoved
    <2> QED
      BY <2>1, <2>2, <2>3, MovingOn DEF WriteLabels
  <1>10. ASSUME NEW p \in Processes, UpsertFails(p) \/ LoadFails(p) \/ Crash(p)
         PROVE  TurnsTaken'
    <2> SUFFICES ASSUME ~overlapped PROVE OneAtATime' /\ ReadableExceptInWrites'
      BY <1>10 DEF TurnsTaken, UpsertFails, LoadFails, Crash, Abandon
    <2>1. /\ pc' = [pc EXCEPT ![p] = "idle"]
          /\ call' = [call EXCEPT ![p] = Nothing]
          /\ outer' = [outer EXCEPT ![p] = Nothing]
          /\ inner' = [inner EXCEPT ![p] = Nothing]
          /\ registryCopy' = [registryCopy EXCEPT ![p] = Nothing]
          /\ UNCHANGED <<stateFile, overlapped>>
      BY <1>10 DEF UpsertFails, LoadFails, Crash, Abandon, Goto
    <2>2. pc'[p] = "idle" /\ \A q \in Processes \ {p} : Unmoved(q)
      BY <2>1 DEF TypeOK, Unmoved
    <2>3. OneAtATime /\ ReadableExceptInWrites
      BY DEF TurnsTaken
    <2>4. OneAtATime'
      BY <2>2, <2>3 DEF OneAtATime, UsesStateFile, Idle, Unmoved
    <2>5. \A q \in Processes : pc'[q] \in WriteLabels => stateFile' = Empty
      BY <2>1, <2>2, <2>3 DEF ReadableExceptInWrites, Unmoved, WriteLabels
    <2>6. ASSUME crashes' = 0
          PROVE  Readable(stateFile') \/ \E q \in Processes : pc'[q] \in WriteLabels
      <3>1. /\ crashes = 0
            /\ \/ pc[p] \in {"sync", "upsert"}
               \/ pc[p] \in {"decay", "append"} /\ ~Readable(stateFile)
        BY <1>10, <2>6 DEF UpsertFails, LoadFails, Crash, TypeOK
      <3>2. pc[p] \notin WriteLabels
        BY <3>1 DEF WriteLabels
      <3> QED
        BY <2>1, <2>2, <2>3, <3>1, <3>2 DEF ReadableExceptInWrites, Readable, Unmoved
    <2> QED
      BY <2>4, <2>5, <2>6 DEF ReadableExceptInWrites
  <1>11. CASE UNCHANGED vars
    BY <1>11
    DEF vars, TurnsTaken, OneAtATime, ReadableExceptInWrites, Readable, UsesStateFile, Idle
  <1> QED
    BY <1>1, <1>2, <1>3, <1>4, <1>5, <1>6, <1>7, <1>8, <1>9, <1>10, <1>11
    DEF Next, Step

LEMMA TurnsAreTaken == Spec => [](Typed /\ TurnsTaken)
  BY InitTyped, NextTyped, InitTurnsTaken, NextTurnsTaken, PTL DEF Spec

-----------------------------------------------------------------------------
(* With or without overlaps and kills: what is short of the appends that   *)
(* have returned has been put back by some save, in the file and in every  *)
(* copy that is yet to be saved; and unless the last write was torn, the   *)
(* file is empty while it is written and readable otherwise.               *)

FileHoldsAppends ==
  Readable(stateFile) =>
    \A k \in RecordKinds : stateFile.records[k] + overwritten[k] >= returned[k]

OuterHolds(p, k) ==
  Unsaved(p) => outer[p].records[k] + overwritten[k] >= outerSeen[p][k] + Own(call[p], k)

InnerHolds(p, k) ==
  DecayUnsaved(p) => inner[p].records[k] + overwritten[k] >= innerSeen[p][k]

CopiesHoldAppends ==
  \A p \in Processes, k \in RecordKinds : OuterHolds(p, k) /\ InnerHolds(p, k)

EmptyWhileWritten ==
  ~torn =>
    /\ \A p \in Processes : Writing(p) => stateFile = Empty
    /\ \A p, q \in Processes : Writing(p) /\ Writing(q) => p = q
    /\ Readable(stateFile) \/ \E p \in Processes : Writing(p)

AppendsKept == FileHoldsAppends /\ CopiesHoldAppends /\ EmptyWhileWritten

LEMMA InitAppendsKept == Init => AppendsKept
  <1> SUFFICES ASSUME Init PROVE AppendsKept
    OBVIOUS
  <1>1. \A p \in Processes : pc[p] = "idle"
    BY DEF Init
  <1>2. stateFile \in Contents
    BY DEF Init, DefaultContents, NoRecords, Contents
  <1>3. Readable(stateFile)
    BY <1>2, FileAssumption DEF Readable
  <1>4. FileHoldsAppends
    BY DEF FileHoldsAppends, Init, DefaultContents, NoRecords
  <1> QED
    BY <1>1, <1>3, <1>4
    DEF AppendsKept, CopiesHoldAppends, OuterHolds, InnerHolds, EmptyWhileWritten,
        UsesStateFile, Idle, Unsaved, DecayUnsaved, Writing

(* A process that has not moved holds what it held, whatever was put back. *)
LEMMA OthersHold ==
  ASSUME Typed, Typed', NEW q \in Processes, Unmoved(q), NEW k \in RecordKinds,
         outerSeen'[q] = outerSeen[q], innerSeen'[q] = innerSeen[q],
         overwritten'[k] >= overwritten[k],
         OuterHolds(q, k), InnerHolds(q, k)
  PROVE  OuterHolds(q, k)' /\ InnerHolds(q, k)'
  <1>1. /\ overwritten[k] \in Nat /\ overwritten'[k] \in Nat
        /\ outerSeen[q][k] \in Nat /\ innerSeen[q][k] \in Nat
        /\ Own(call[q], k) \in Nat
    BY DEF Typed, HistoryOK, Own
  <1>2. ASSUME Unsaved(q)' PROVE OuterHolds(q, k)'
    <2>1. Unsaved(q) /\ outer[q] \in Contents
      BY <1>2 DEF Unsaved, UsesStateFile, Idle, Unmoved, Typed, Fits
    <2>2. outer[q].records[k] \in Nat
      BY <2>1, ContentsParts
    <2>3. outer[q].records[k] + overwritten[k] >= outerSeen[q][k] + Own(call[q], k)
      BY <2>1 DEF OuterHolds
    <2>4. outer[q].records[k] + overwritten'[k] >= outerSeen[q][k] + Own(call[q], k)
      BY <1>1, <2>2, <2>3
    <2> QED
      BY <2>4 DEF OuterHolds, Unmoved
  <1>3. ASSUME DecayUnsaved(q)' PROVE InnerHolds(q, k)'
    <2>1. DecayUnsaved(q) /\ inner[q] \in Contents
      BY <1>3 DEF DecayUnsaved, Unmoved, Typed, Fits
    <2>2. inner[q].records[k] \in Nat
      BY <2>1, ContentsParts
    <2>3. inner[q].records[k] + overwritten[k] >= innerSeen[q][k]
      BY <2>1 DEF InnerHolds
    <2>4. inner[q].records[k] + overwritten'[k] >= innerSeen[q][k]
      BY <1>1, <2>2, <2>3
    <2> QED
      BY <2>4 DEF InnerHolds, Unmoved
  <1> QED
    BY <1>2, <1>3 DEF OuterHolds, InnerHolds

(* The steps that neither load the file nor start or end a save of it: the *)
(* copy p has, it had.                                                     *)
LEMMA MovingOnKeeps ==
  ASSUME Typed, Typed', AppendsKept, NEW p \in Processes,
         UNCHANGED <<stateFile, torn, returned, outerSeen, innerSeen, overwritten>>,
         \A q \in Processes \ {p} : Unmoved(q),
         ~Writing(p), ~Writing(p)',
         Unsaved(p)' => Unsaved(p) /\ outer'[p] = outer[p] /\ call'[p] = call[p],
         DecayUnsaved(p)' => DecayUnsaved(p) /\ inner'[p] = inner[p]
  PROVE  AppendsKept'
  <1>1. CopiesHoldAppends'
    <2>1. ASSUME NEW q \in Processes \ {p}, NEW k \in RecordKinds
          PROVE  OuterHolds(q, k)' /\ InnerHolds(q, k)'
      <3>1. overwritten'[k] >= overwritten[k]
        BY DEF Typed, HistoryOK
      <3> QED
        BY <3>1, OthersHold DEF AppendsKept, CopiesHoldAppends
    <2>2. ASSUME NEW k \in RecordKinds
          PROVE  OuterHolds(p, k)' /\ InnerHolds(p, k)'
      BY DEF AppendsKept, CopiesHoldAppends, OuterHolds, InnerHolds
    <2> QED
      BY <2>1, <2>2 DEF CopiesHoldAppends
  <1>2. FileHoldsAppends'
    BY DEF AppendsKept, FileHoldsAppends, Readable
  <1>3. EmptyWhileWritten'
    BY DEF AppendsKept, EmptyWhileWritten, Readable, Writing, Unmoved
  <1> QED
    BY <1>1, <1>2, <1>3 DEF AppendsKept

(* A save of a copy that holds every append but those put back since.      *)
LEMMA SaveKeeps ==
  ASSUME Typed, Typed', AppendsKept, NEW p \in Processes, Writing(p), ~Writing(p)',
         NEW content \in Contents, stateFile' \in WriteOutcomes(content),
         NEW seen \in [RecordKinds -> Nat], NEW own \in [RecordKinds -> Nat],
         \A k \in RecordKinds :
           /\ seen[k] <= returned[k]
           /\ content.records[k] + overwritten[k] >= seen[k] + own[k],
         overwritten' = PutBack(seen), torn' = StillTorn(p),
         \A k \in RecordKinds : returned'[k] = returned[k] + own[k],
         \A q \in Processes \ {p} : Unmoved(q) /\ outerSeen'[q] = outerSeen[q]
                                              /\ innerSeen'[q] = innerSeen[q],
         \A k \in RecordKinds :
           overwritten'[k] >= overwritten[k] => OuterHolds(p, k)' /\ InnerHolds(p, k)'
  PROVE  AppendsKept'
  <1>1. ASSUME NEW k \in RecordKinds
        PROVE  /\ overwritten'[k] = overwritten[k] + (returned[k] - seen[k])
               /\ overwritten'[k] >= overwritten[k]
               /\ content.records[k] + overwritten'[k] >= returned'[k]
    <2>1. /\ overwritten[k] \in Nat /\ returned[k] \in Nat /\ content.records[k] \in Nat
          /\ seen[k] \in Nat /\ own[k] \in Nat /\ returned'[k] = returned[k] + own[k]
          /\ seen[k] <= returned[k]
          /\ content.records[k] + overwritten[k] >= seen[k] + own[k]
      BY ContentsParts DEF Typed, HistoryOK
    <2>2. overwritten'[k] = overwritten[k] + (returned[k] - seen[k])
      BY DEF PutBack
    <2> QED
      BY ONLY <2>1, <2>2
  <1>2. FileHoldsAppends'
    BY <1>1 DEF FileHoldsAppends, Readable, WriteOutcomes
  <1>3. CopiesHoldAppends'
    <2>1. ASSUME NEW q \in Processes \ {p}, NEW k \in RecordKinds
          PROVE  OuterHolds(q, k)' /\ InnerHolds(q, k)'
      BY <1>1, OthersHold DEF AppendsKept, CopiesHoldAppends
    <2> QED
      BY <1>1, <2>1 DEF CopiesHoldAppends
  <1>4. EmptyWhileWritten'
    <2> SUFFICES ASSUME ~torn' PROVE Readable(stateFile') /\ \A q \in Processes : ~Writing(q)'
      BY DEF EmptyWhileWritten, Readable
    <2>1. stateFile = Empty /\ \A q \in Processes \ {p} : ~Writing(q)
      BY DEF StillTorn, AppendsKept, EmptyWhileWritten
    <2>2. stateFile' = content
      BY <2>1 DEF WriteOutcomes
    <2> QED
      BY <2>1, <2>2, FileAssumption DEF Readable, Writing, Unmoved
  <1> QED
    BY <1>2, <1>3, <1>4 DEF AppendsKept

(* A copy just loaded, and changed or not, holds what the file holds.      *)
LEMMA LoadKeeps ==
  ASSUME Typed, Typed', AppendsKept, NEW p \in Processes, Readable(stateFile),
         UNCHANGED <<stateFile, torn, returned, overwritten>>,
         \A q \in Processes \ {p} : Unmoved(q) /\ outerSeen'[q] = outerSeen[q]
                                              /\ innerSeen'[q] = innerSeen[q],
         ~Writing(p), ~Writing(p)',
         \A k \in RecordKinds :
           stateFile.records[k] + overwritten[k] >= returned[k] =>
             OuterHolds(p, k)' /\ InnerHolds(p, k)'
  PROVE  AppendsKept'
  <1>1. CopiesHoldAppends'
    <2>1. ASSUME NEW q \in Processes \ {p}, NEW k \in RecordKinds
          PROVE  OuterHolds(q, k)' /\ InnerHolds(q, k)'
      <3>1. overwritten'[k] >= overwritten[k]
        BY DEF Typed, HistoryOK
      <3> QED
        BY <3>1, OthersHold DEF AppendsKept, CopiesHoldAppends
    <2> QED
      BY <2>1 DEF AppendsKept, FileHoldsAppends, CopiesHoldAppends
  <1>2. FileHoldsAppends'
    BY DEF AppendsKept, FileHoldsAppends, Readable
  <1>3. EmptyWhileWritten'
    BY DEF AppendsKept, EmptyWhileWritten, Readable, Writing, Unmoved
  <1> QED
    BY <1>1, <1>2, <1>3 DEF AppendsKept

LEMMA NextAppendsKept == Typed /\ Typed' /\ AppendsKept /\ [Next]_vars => AppendsKept'
  <1> SUFFICES ASSUME Typed, Typed', AppendsKept, [Next]_vars PROVE AppendsKept'
    OBVIOUS
  <1> USE DEF local, appends, history
  <1> TypeOK /\ HistoryOK
    BY DEF Typed
  <1>1. ASSUME NEW p \in Processes, NEW c \in Calls, BeginCall(p, c)
        PROVE  AppendsKept'
    <2>1. /\ pc[p] = "idle" /\ c.kind # "evolve"
          /\ call' = [call EXCEPT ![p] = c]
          /\ outer' = [outer EXCEPT ![p] = Changed(stateFile, c)]
          /\ outerSeen' = [outerSeen EXCEPT ![p] = returned]
          /\ \E label \in {"sync", "decay", "outer"} :
               pc' = [pc EXCEPT ![p] = label] /\ (label = "sync" => c.kind # "cycle")
          /\ UNCHANGED <<stateFile, torn, returned, inner, innerSeen, registryCopy,
                         overwritten>>
      BY <1>1 DEF BeginCall, Goto, Idle
    <2>2. Readable(stateFile) /\ stateFile \in Contents
      BY <1>1, ReadableType DEF BeginCall
    <2>3. \A k \in RecordKinds :
            Changed(stateFile, c).records[k] = stateFile.records[k] + Own(c, k)
      BY <2>1, <2>2, ChangedType
    <2>4. /\ outer'[p] = Changed(stateFile, c) /\ call'[p] = c /\ outerSeen'[p] = returned
          /\ pc'[p] \in {"sync", "decay", "outer"} /\ ~DecayUnsaved(p)'
      BY <2>1 DEF TypeOK, HistoryOK, DecayUnsaved
    <2>5. \A q \in Processes \ {p} :
            Unmoved(q) /\ outerSeen'[q] = outerSeen[q] /\ innerSeen'[q] = innerSeen[q]
      BY <2>1 DEF Unmoved, TypeOK, HistoryOK
    <2>6. ASSUME NEW k \in RecordKinds, stateFile.records[k] + overwritten[k] >= returned[k]
          PROVE  OuterHolds(p, k)' /\ InnerHolds(p, k)'
      <3>1. /\ stateFile.records[k] \in Nat /\ overwritten[k] \in Nat /\ returned[k] \in Nat
            /\ Own(c, k) \in Nat
        BY <2>2, ContentsParts DEF HistoryOK, Own
      <3>2. (stateFile.records[k] + Own(c, k)) + overwritten[k] >= returned[k] + Own(c, k)
        BY <2>6, <3>1
      <3> QED
        BY <2>1, <2>3, <2>4, <3>2 DEF OuterHolds, InnerHolds
    <2> QED
      BY <2>1, <2>2, <2>4, <2>5, <2>6, LoadKeeps DEF Writing
  <1>2. ASSUME NEW p \in Processes, NEW c \in Calls, BeginEvolve(p, c)
        PROVE  AppendsKept'
    <2>1. /\ pc[p] = "idle" /\ c.kind = "evolve"
          /\ pc' = [pc EXCEPT ![p] = "sync"] /\ call' = [call EXCEPT ![p] = c]
          /\ UNCHANGED <<stateFile, torn, returned, outer, inner, outerSeen, innerSeen,
                         overwritten, registryCopy>>
      BY <1>2 DEF BeginEvolve, Goto, Idle
    <2>2. pc'[p] = "sync" /\ call'[p].kind = "evolve"
      BY <2>1 DEF TypeOK
    <2>3. ~Unsaved(p)' /\ ~DecayUnsaved(p)'
      BY <2>2 DEF UsesStateFile, Unsaved, DecayUnsaved
    <2>4. \A q \in Processes \ {p} : Unmoved(q)
      BY <2>1 DEF Unmoved, TypeOK
    <2> QED
      BY <2>1, <2>2, <2>3, <2>4, MovingOnKeeps DEF Writing
  <1>3. ASSUME NEW p \in Processes, ApplyRollingDecay(p)
        PROVE  AppendsKept'
    <2> DEFINE copy  == WithDecay(stateFile, call[p].active)
               saved == DecayIsSaved(stateFile, call[p].active)
    <2>1. Readable(stateFile) /\ stateFile \in Contents
      BY <1>3, ReadableType DEF ApplyRollingDecay
    <2>2. copy.records = stateFile.records
      BY <2>1, WithDecayType
    <2>3. pc[p] = "decay" /\ call[p].kind = "cycle" /\ call[p] \in Calls
      BY <1>3 DEF ApplyRollingDecay, Typed, Fits
    <2>4. /\ inner' = [inner EXCEPT ![p] = IF saved THEN copy ELSE inner[p]]
          /\ innerSeen' = [innerSeen EXCEPT ![p] = returned]
          /\ \E label \in {"sync", "inner", "outer"} :
               pc' = [pc EXCEPT ![p] = label] /\ (label # "outer" => saved)
          /\ UNCHANGED <<stateFile, torn, returned, call, outer, outerSeen, overwritten,
                         registryCopy>>
      BY <1>3 DEF ApplyRollingDecay, Goto, DecayIsSaved
    <2> HIDE DEF copy, saved
    <2>5. /\ pc'[p] \in {"sync", "inner", "outer"}
          /\ pc'[p] # "outer" => inner'[p] = copy
          /\ innerSeen'[p] = returned
      BY <2>4 DEF TypeOK, HistoryOK
    <2>6. \A q \in Processes \ {p} :
            Unmoved(q) /\ outerSeen'[q] = outerSeen[q] /\ innerSeen'[q] = innerSeen[q]
      BY <2>4 DEF Unmoved, TypeOK, HistoryOK
    <2>7. Unsaved(p)
      BY <2>3 DEF Unsaved, UsesStateFile, Idle
    <2>8. ASSUME NEW k \in RecordKinds, stateFile.records[k] + overwritten[k] >= returned[k]
          PROVE  OuterHolds(p, k)' /\ InnerHolds(p, k)'
      <3>1. outer[p].records[k] + overwritten[k] >= outerSeen[p][k] + Own(call[p], k)
        BY <2>7 DEF AppendsKept, CopiesHoldAppends, OuterHolds
      <3> QED
        BY <2>2, <2>4, <2>5, <2>8, <3>1 DEF OuterHolds, InnerHolds, DecayUnsaved
    <2> QED
      BY <2>1, <2>3, <2>4, <2>5, <2>6, <2>8, LoadKeeps DEF Writing
  <1>4. ASSUME NEW p \in Processes, LoadRegistry(p)
        PROVE  AppendsKept'
    <2>1. /\ pc[p] = "sync" /\ pc' = [pc EXCEPT ![p] = "upsert"]
          /\ registryCopy' = [registryCopy EXCEPT ![p] = registry]
          /\ UNCHANGED <<stateFile, torn, returned, call, outer, inner, outerSeen,
                         innerSeen, overwritten>>
      BY <1>4 DEF LoadRegistry, Goto
    <2>2. pc'[p] = "upsert" /\ \A q \in Processes \ {p} : Unmoved(q)
      BY <2>1 DEF Unmoved, TypeOK
    <2> QED
      BY <2>1, <2>2, MovingOnKeeps DEF Writing, UsesStateFile, Idle, Unsaved, DecayUnsaved
  <1>5. ASSUME NEW p \in Processes, NEW s \in Strategies,
               SaveRegistry(p, s) \/ SyncFails(p, s)
        PROVE  AppendsKept'
    <2>1. /\ pc[p] \in {"sync", "upsert"}
          /\ pc' = [pc EXCEPT ![p] = AfterSync(p, s)]
          /\ call' = [call EXCEPT ![p] =
                        IF call[p].kind = "evolve" THEN Nothing ELSE call[p]]
          /\ registryCopy' = [registryCopy EXCEPT ![p] = Nothing]
          /\ UNCHANGED <<stateFile, torn, returned, outer, inner, outerSeen, innerSeen,
                         overwritten>>
      BY <1>5 DEF SaveRegistry, SyncFails, Goto, TypeOK
    <2>2. \A q \in Processes \ {p} : Unmoved(q)
      BY <2>1 DEF Unmoved, TypeOK
    <2>3. /\ pc'[p] = AfterSync(p, s)
          /\ call[p].kind # "evolve" => call'[p] = call[p]
      BY <2>1 DEF TypeOK
    <2>4. /\ call[p].kind = "evolve" => pc'[p] = "idle"
          /\ call[p].kind = "drift" => pc'[p] = "append"
          /\ call[p].kind = "cycle" <=> pc'[p] \in {"inner", "sync"}
          /\ pc'[p] \in {"idle", "append", "inner", "sync", "outer"}
      BY <2>3 DEF AfterSync
    <2>5. /\ Unsaved(p)' => Unsaved(p) /\ outer'[p] = outer[p] /\ call'[p] = call[p]
          /\ DecayUnsaved(p)' => DecayUnsaved(p) /\ inner'[p] = inner[p]
      BY <2>1, <2>3, <2>4 DEF UsesStateFile, Idle, Unsaved, DecayUnsaved
    <2> QED
      BY <2>1, <2>2, <2>4, <2>5, MovingOnKeeps DEF Writing
  <1>6. ASSUME NEW p \in Processes, Truncate(p)
        PROVE  AppendsKept'
    <2>1. /\ \/ pc[p] = "inner" /\ pc' = [pc EXCEPT ![p] = "innerWrite"]
             \/ pc[p] = "outer" /\ pc' = [pc EXCEPT ![p] = "outerWrite"]
          /\ stateFile' = Empty
          /\ torn' = (torn \/ \E q \in Processes : Writing(q))
          /\ UNCHANGED <<returned, call, outer, inner, outerSeen, innerSeen, overwritten,
                         registryCopy>>
      BY <1>6 DEF Truncate, Goto
    <2>2. /\ Writing(p)'
          /\ \/ pc[p] = "inner" /\ pc'[p] = "innerWrite"
             \/ pc[p] = "outer" /\ pc'[p] = "outerWrite"
          /\ \A q \in Processes \ {p} : Unmoved(q)
      BY <2>1 DEF TypeOK, Unmoved, Writing
    <2>3. \A q \in Processes : (Unsaved(q)' => Unsaved(q)) /\ (DecayUnsaved(q)' => DecayUnsaved(q))
      BY <2>1, <2>2 DEF Unsaved, DecayUnsaved, UsesStateFile, Idle, Unmoved
    <2>4. CopiesHoldAppends'
      BY <2>1, <2>3 DEF AppendsKept, CopiesHoldAppends, OuterHolds, InnerHolds
    <2>5. FileHoldsAppends'
      BY <2>1 DEF FileHoldsAppends, Readable
    <2>6. EmptyWhileWritten'
      BY <2>1, <2>2 DEF EmptyWhileWritten, Writing, Unmoved
    <2> QED
      BY <2>4, <2>5, <2>6 DEF AppendsKept
  <1>7. ASSUME NEW p \in Processes, WriteDecay(p)
        PROVE  AppendsKept'
    <2>1. /\ pc[p] = "innerWrite" /\ pc' = [pc EXCEPT ![p] = "outer"]
          /\ stateFile' \in WriteOutcomes(inner[p])
          /\ inner' = [inner EXCEPT ![p] = Nothing]
          /\ torn' = StillTorn(p) /\ overwritten' = PutBack(innerSeen[p])
          /\ innerSeen' = [innerSeen EXCEPT ![p] = NoRecords]
          /\ UNCHANGED <<returned, call, outer, outerSeen, registryCopy>>
      BY <1>7 DEF WriteDecay, Goto
    <2>2. inner[p] \in Contents /\ call[p].kind = "cycle" /\ outer[p] \in Contents
      BY <2>1 DEF Typed, Fits
    <2>3. /\ pc'[p] = "outer"
          /\ \A q \in Processes \ {p} :
               Unmoved(q) /\ outerSeen'[q] = outerSeen[q] /\ innerSeen'[q] = innerSeen[q]
      BY <2>1 DEF TypeOK, HistoryOK, Unmoved
    <2>4. Unsaved(p) /\ DecayUnsaved(p) /\ ~DecayUnsaved(p)'
      BY <2>1, <2>2, <2>3 DEF Unsaved, DecayUnsaved, UsesStateFile, Idle
    <2> DEFINE own == [k \in RecordKinds |-> 0]
    <2>5. ASSUME NEW k \in RecordKinds
          PROVE  /\ returned'[k] = returned[k] + own[k]
                 /\ innerSeen[p][k] <= returned[k]
                 /\ inner[p].records[k] + overwritten[k] >= innerSeen[p][k] + own[k]
      BY <2>1, <2>4 DEF AppendsKept, CopiesHoldAppends, InnerHolds, HistoryOK
    <2>6. ASSUME NEW k \in RecordKinds, overwritten'[k] >= overwritten[k]
          PROVE  OuterHolds(p, k)' /\ InnerHolds(p, k)'
      <3>1. outer[p].records[k] + overwritten[k] >= outerSeen[p][k] + Own(call[p], k)
        BY <2>4 DEF AppendsKept, CopiesHoldAppends, OuterHolds
      <3>2. /\ outer[p].records[k] \in Nat /\ overwritten[k] \in Nat
            /\ outerSeen[p][k] \in Nat /\ Own(call[p], k) \in Nat /\ overwritten'[k] \in Nat
        BY <2>2, ContentsParts DEF HistoryOK, Own, Typed
      <3>3. outer[p].records[k] + overwritten'[k] >= outerSeen[p][k] + Own(call[p], k)
        BY <2>6, <3>1, <3>2
      <3> QED
        BY <2>1, <2>4, <3>3 DEF OuterHolds, InnerHolds
    <2>7. /\ own \in [RecordKinds -> Nat] /\ innerSeen[p] \in [RecordKinds -> Nat]
          /\ Writing(p) /\ ~Writing(p)'
      BY <2>1, <2>3 DEF HistoryOK, Writing
    <2> HIDE DEF own
    <2> QED
      BY <2>1, <2>2, <2>3, <2>5, <2>6, <2>7, SaveKeeps
  <1>8. ASSUME NEW p \in Processes, WriteState(p)
        PROVE  AppendsKept'
    <2> DEFINE drift == call[p].kind = "drift"
               own == [k \in RecordKinds |-> Own(call[p], k)]
    <2>1. /\ pc[p] = "outerWrite"
          /\ pc' = [pc EXCEPT ![p] = IF drift THEN "sync" ELSE "idle"]
          /\ stateFile' \in WriteOutcomes(outer[p])
          /\ call' = [call EXCEPT ![p] = IF drift THEN call[p] ELSE Nothing]
          /\ outer' = [outer EXCEPT ![p] = IF drift THEN outer[p] ELSE Nothing]
          /\ torn' = StillTorn(p) /\ overwritten' = PutBack(outerSeen[p])
          /\ outerSeen' = [outerSeen EXCEPT ![p] = IF drift THEN outerSeen[p] ELSE NoRecords]
          /\ UNCHANGED <<inner, innerSeen, registryCopy>>
      BY <1>8 DEF WriteState, Goto
    <2>2. \A k \in RecordKinds : returned'[k] = returned[k] + Own(call[p], k)
      BY <1>8 DEF WriteState, Own, HistoryOK
    <2>3. outer[p] \in Contents
      BY <2>1 DEF Typed, Fits
    <2>4. /\ pc'[p] = (IF drift THEN "sync" ELSE "idle")
          /\ drift => call'[p].kind = "drift"
          /\ \A q \in Processes \ {p} :
               Unmoved(q) /\ outerSeen'[q] = outerSeen[q] /\ innerSeen'[q] = innerSeen[q]
      BY <2>1 DEF TypeOK, HistoryOK, Unmoved
    <2>5. ~Unsaved(p)' /\ ~DecayUnsaved(p)'
      BY <2>4 DEF Unsaved, DecayUnsaved, UsesStateFile, Idle
    <2>6. Unsaved(p)
      BY <2>1 DEF Unsaved, UsesStateFile, Idle, Typed, Fits
    <2>7. /\ own \in [RecordKinds -> Nat] /\ outerSeen[p] \in [RecordKinds -> Nat]
          /\ Writing(p) /\ ~Writing(p)'
          /\ \A k \in RecordKinds : OuterHolds(p, k)' /\ InnerHolds(p, k)'
      BY <2>1, <2>4, <2>5 DEF HistoryOK, Writing, Own, OuterHolds, InnerHolds
    <2>8. ASSUME NEW k \in RecordKinds
          PROVE  /\ returned'[k] = returned[k] + own[k]
                 /\ outerSeen[p][k] <= returned[k]
                 /\ outer[p].records[k] + overwritten[k] >= outerSeen[p][k] + own[k]
      BY <2>2, <2>6 DEF AppendsKept, CopiesHoldAppends, OuterHolds, HistoryOK
    <2> HIDE DEF own, drift
    <2> QED
      BY <2>1, <2>3, <2>4, <2>7, <2>8, SaveKeeps
  <1>9. ASSUME NEW p \in Processes, AppendDriftEvent(p)
        PROVE  AppendsKept'
    <2> DEFINE event == [kind |-> "risk"]
    <2>1. /\ pc[p] = "append" /\ pc' = [pc EXCEPT ![p] = "outer"]
          /\ call' = [call EXCEPT ![p] = event]
          /\ outer' = [outer EXCEPT ![p] = Append(stateFile, "risk")]
          /\ outerSeen' = [outerSeen EXCEPT ![p] = returned]
          /\ UNCHANGED <<stateFile, torn, returned, inner, innerSeen, registryCopy,
                         overwritten>>
      BY <1>9 DEF AppendDriftEvent, Goto
    <2>2. Readable(stateFile) /\ stateFile \in Contents
      BY <1>9, ReadableType DEF AppendDriftEvent
    <2>3. /\ pc'[p] = "outer" /\ call'[p] = event /\ outerSeen'[p] = returned
          /\ outer'[p] = Append(stateFile, "risk") /\ ~DecayUnsaved(p)'
          /\ \A q \in Processes \ {p} :
               Unmoved(q) /\ outerSeen'[q] = outerSeen[q] /\ innerSeen'[q] = innerSeen[q]
      BY <2>1 DEF TypeOK, HistoryOK, Unmoved, DecayUnsaved
    <2>4. "risk" \in RecordKinds
      BY DEF RecordKinds
    <2>5. ASSUME NEW k \in RecordKinds, stateFile.records[k] + overwritten[k] >= returned[k]
          PROVE  OuterHolds(p, k)' /\ InnerHolds(p, k)'
      <3>1. outer'[p].records[k] = stateFile.records[k] + (IF k = "risk" THEN 1 ELSE 0)
        BY <2>2, <2>3, <2>4, AppendType
      <3>2. Own(call'[p], k) = IF k = "risk" THEN 1 ELSE 0
        BY <2>3 DEF Own
      <3>3. stateFile.records[k] \in Nat /\ overwritten[k] \in Nat /\ returned[k] \in Nat
        BY <2>2, ContentsParts DEF HistoryOK
      <3>4. outer'[p].records[k] + overwritten[k] >= returned[k] + Own(call'[p], k)
        BY <2>5, <3>1, <3>2, <3>3
      <3> QED
        BY <2>1, <2>3, <3>4 DEF OuterHolds, InnerHolds
    <2> QED
      BY <2>1, <2>2, <2>3, <2>5, LoadKeeps DEF Writing
  <1>10. ASSUME NEW p \in Processes, UpsertFails(p) \/ LoadFails(p) \/ Crash(p)
         PROVE  AppendsKept'
    <2>1. /\ pc' = [pc EXCEPT ![p] = "idle"]
          /\ call' = [call EXCEPT ![p] = Nothing]
          /\ outer' = [outer EXCEPT ![p] = Nothing]
          /\ inner' = [inner EXCEPT ![p] = Nothing]
          /\ registryCopy' = [registryCopy EXCEPT ![p] = Nothing]
          /\ outerSeen' = [outerSeen EXCEPT ![p] = NoRecords]
          /\ innerSeen' = [innerSeen EXCEPT ![p] = NoRecords]
          /\ torn' = (torn \/ Writing(p))
          /\ UNCHANGED <<stateFile, returned, overwritten>>
      BY <1>10 DEF UpsertFails, LoadFails, Crash, Abandon, Goto
    <2>2. /\ pc'[p] = "idle"
          /\ \A q \in Processes \ {p} :
               Unmoved(q) /\ outerSeen'[q] = outerSeen[q] /\ innerSeen'[q] = innerSeen[q]
      BY <2>1 DEF TypeOK, HistoryOK, Unmoved
    <2>3. ASSUME NEW q \in Processes \ {p}, NEW k \in RecordKinds
          PROVE  OuterHolds(q, k)' /\ InnerHolds(q, k)'
      <3>1. overwritten'[k] >= overwritten[k]
        BY <2>1 DEF HistoryOK
      <3> QED
        BY <2>2, <3>1, OthersHold DEF AppendsKept, CopiesHoldAppends
    <2>4. CopiesHoldAppends'
      BY <2>2, <2>3
      DEF CopiesHoldAppends, OuterHolds, InnerHolds, Unsaved, DecayUnsaved, UsesStateFile, Idle
    <2>5. FileHoldsAppends'
      BY <2>1 DEF AppendsKept, FileHoldsAppends, Readable
    <2>6. EmptyWhileWritten'
      BY <2>1, <2>2 DEF AppendsKept, EmptyWhileWritten, Readable, Writing, Unmoved
    <2> QED
      BY <2>4, <2>5, <2>6 DEF AppendsKept
  <1>11. CASE UNCHANGED vars
    BY <1>11
    DEF vars, AppendsKept, FileHoldsAppends, CopiesHoldAppends, OuterHolds, InnerHolds,
        EmptyWhileWritten, Readable, Writing, Unsaved, DecayUnsaved, UsesStateFile, Idle
  <1> QED
    BY <1>1, <1>2, <1>3, <1>4, <1>5, <1>6, <1>7, <1>8, <1>9, <1>10, <1>11
    DEF Next, Step

(* However many processes overlap, are killed or fail in their upserts, a  *)
(* record whose append has returned is missing from the state file only if *)
(* a copy loaded before that was saved after it, or while the last write   *)
(* of the file is torn or in progress.                                     *)
THEOREM StaleOrTornSavesAloneLoseAppends == Spec => []AppendsLostOnlyByStaleOrTornSaves
  <1>1. Spec => [](Typed /\ AppendsKept)
    BY InitTyped, NextTyped, InitAppendsKept, NextAppendsKept, PTL DEF Spec
  <1>2. Typed /\ AppendsKept => AppendsLostOnlyByStaleOrTornSaves
    BY DEF AppendsKept, FileHoldsAppends, EmptyWhileWritten,
           AppendsLostOnlyByStaleOrTornSaves, Typed, HistoryOK
  <1> QED
    BY <1>1, <1>2, PTL

-----------------------------------------------------------------------------
(* While no two upserts have raced, at most one is in progress and it      *)
(* holds the registry as it is.                                            *)

NoRace ==
  ~raced =>
    /\ registry = told
    /\ \A p \in Processes : pc[p] = "upsert" =>
         /\ registryCopy[p] = registry
         /\ \A q \in Processes : pc[q] = "upsert" => q = p

LEMMA NextNoRace == Typed /\ NoRace /\ [Next]_vars => NoRace'
  <1> SUFFICES ASSUME Typed, NoRace, [Next]_vars PROVE NoRace'
    OBVIOUS
  <1> USE DEF local, appends, history, NoRace
  <1> TypeOK
    BY DEF Typed
  <1>1. ASSUME NEW p \in Processes, LoadRegistry(p)
        PROVE  NoRace'
    <2>1. /\ registryCopy' = [registryCopy EXCEPT ![p] = registry]
          /\ pc' = [pc EXCEPT ![p] = "upsert"]
          /\ raced' = (raced \/ Races(p))
          /\ UNCHANGED <<registry, told>>
      BY <1>1 DEF LoadRegistry, Goto
    <2> SUFFICES ASSUME ~raced, ~Races(p)
                 PROVE  NoRace'
      BY <2>1 DEF TypeOK
    <2>2. ASSUME NEW q \in Processes, pc[q] = "upsert"
          PROVE  FALSE
      <3>1. p \in Threads /\ q \in Threads
        BY <2>2 DEF Races
      <3> QED
        BY <1>1, <2>2, <3>1 DEF LoadRegistry, LockHeld
    <2> QED
      BY <2>1, <2>2 DEF TypeOK
  <1>2. ASSUME NEW p \in Processes, NEW s \in Strategies, SaveRegistry(p, s)
        PROVE  NoRace'
    <2>1. /\ pc[p] = "upsert" /\ UNCHANGED raced
          /\ registry' = [registryCopy[p] EXCEPT ![s] = Merged(p, s)]
          /\ told' = [told EXCEPT ![s] = Merged(p, s)]
          /\ pc' = [pc EXCEPT ![p] = AfterSync(p, s)]
      BY <1>2 DEF SaveRegistry, Goto
    <2>2. AfterSync(p, s) # "upsert"
      BY DEF AfterSync
    <2> SUFFICES ASSUME ~raced
                 PROVE  NoRace'
      BY <2>1
    <2>3. registryCopy[p] = told
      BY <2>1
    <2>4. \A q \in Processes : pc'[q] # "upsert"
      BY <2>1, <2>2 DEF TypeOK
    <2> QED
      BY <2>1, <2>3, <2>4
  <1>3. ASSUME NEW p \in Processes, NEW label \in Labels, label # "upsert",
               pc' = [pc EXCEPT ![p] = label],
               \A q \in Processes \ {p} : registryCopy'[q] = registryCopy[q],
               UNCHANGED <<registry, told, raced>>
        PROVE  NoRace'
    BY <1>3 DEF TypeOK
  <1>4. ASSUME NEW p \in Processes, NEW c \in Calls, BeginCall(p, c) \/ BeginEvolve(p, c)
        PROVE  NoRace'
    <2>1. /\ \E label \in {"sync", "decay", "outer"} : pc' = [pc EXCEPT ![p] = label]
          /\ UNCHANGED <<registry, registryCopy, told, raced>>
      BY <1>4 DEF BeginCall, BeginEvolve, Goto
    <2> QED
      BY <1>3, <2>1 DEF Labels
  <1>5. ASSUME NEW p \in Processes,
               \/ ApplyRollingDecay(p) \/ Truncate(p) \/ WriteDecay(p)
               \/ WriteState(p) \/ AppendDriftEvent(p)
        PROVE  NoRace'
    <2>1. /\ \E label \in Labels \ {"upsert"} : pc' = [pc EXCEPT ![p] = label]
          /\ UNCHANGED <<registry, registryCopy, told, raced>>
      BY <1>5 DEF ApplyRollingDecay, Truncate, WriteDecay, WriteState,
                  AppendDriftEvent, Goto, Labels
    <2> QED
      BY <1>3, <2>1
  <1>6. ASSUME NEW p \in Processes, NEW s \in Strategies, SyncFails(p, s)
        PROVE  NoRace'
    <2>1. /\ AfterSync(p, s) \in Labels \ {"upsert"}
          /\ pc' = [pc EXCEPT ![p] = AfterSync(p, s)]
          /\ registryCopy' = [registryCopy EXCEPT ![p] = Nothing]
          /\ UNCHANGED <<registry, told, raced>>
      BY <1>6 DEF SyncFails, Goto, AfterSync, Labels
    <2>2. \A q \in Processes \ {p} : registryCopy'[q] = registryCopy[q]
      BY <2>1 DEF TypeOK
    <2> QED
      BY <1>3, <2>1, <2>2
  <1>7. ASSUME NEW p \in Processes, UpsertFails(p) \/ LoadFails(p) \/ Crash(p)
        PROVE  NoRace'
    <2>1. /\ pc' = [pc EXCEPT ![p] = "idle"]
          /\ registryCopy' = [registryCopy EXCEPT ![p] = Nothing]
          /\ UNCHANGED <<registry, told, raced>>
      BY <1>7 DEF UpsertFails, LoadFails, Crash, Abandon, Goto
    <2>2. \A q \in Processes \ {p} : registryCopy'[q] = registryCopy[q]
      BY <2>1 DEF TypeOK
    <2> QED
      BY <1>3, <2>1, <2>2 DEF Labels
  <1>8. CASE UNCHANGED vars
    BY <1>8 DEF vars
  <1> QED
    BY <1>1, <1>2, <1>4, <1>5, <1>6, <1>7, <1>8 DEF Next, Step

LEMMA NoRaceHolds == Spec => [](Typed /\ NoRace)
  <1>1. Init => NoRace
    BY DEF Init, NoRace
  <1> QED
    BY <1>1, InitTyped, NextTyped, NextNoRace, PTL DEF Spec

(* Upserts are lost only when two of them have been in progress together   *)
(* without the lock, for any number of threads, processes and strategies.  *)
THEOREM RacesAloneLoseUpserts == Spec => []OnlyRacesLoseUpserts
  <1>1. NoRace => OnlyRacesLoseUpserts
    BY DEF NoRace, OnlyRacesLoseUpserts
  <1> QED
    BY <1>1, NoRaceHolds, PTL

(* Where all writers of the registry are threads of one process, as in     *)
(* distributed.py, REGISTRY_LOCK makes every upsert survive.               *)
THEOREM LockKeepsUpserts ==
  ASSUME Threads = Processes
  PROVE  Spec => [](registry = told)
  <1>1. Init => ~raced
    BY DEF Init
  <1>2. Typed /\ ~raced /\ [Next]_vars => ~raced'
    <2> SUFFICES ASSUME Typed, ~raced, [Next]_vars PROVE ~raced'
      OBVIOUS
    <2>1. \A p \in Processes : ~Races(p)
      BY DEF Races
    <2>2. CASE UNCHANGED vars
      BY <2>2 DEF vars
    <2> QED
      BY <2>1, <2>2 DEF Next, Step, BeginCall, BeginEvolve, ApplyRollingDecay,
         LoadRegistry, SaveRegistry, SyncFails, UpsertFails, Truncate, WriteDecay,
         WriteState, AppendDriftEvent, LoadFails, Crash, Abandon, history
  <1>3. Spec => []~raced
    BY <1>1, <1>2, InitTyped, NextTyped, PTL DEF Spec
  <1>4. NoRace /\ ~raced => registry = told
    BY DEF NoRace
  <1> QED
    BY <1>3, <1>4, NoRaceHolds, PTL
-----------------------------------------------------------------------------
(* While no two calls on the state file have overlapped, the streaks in    *)
(* the file and in the copies to be saved are what approvals counts.       *)

(* A strategy that no drift verdict and no retirement has claimed: its     *)
(* health entry in a file, after n approvals.                              *)
Earned(file, s, n) ==
  LET e == HealthEntry(file.health, s) IN
  /\ e.status # "retired"
  /\ e.status = "quarantined"  => n = e.recovery /\ e.recovery < RecoveryThreshold
  /\ e.status = "probationary" => n = RecoveryThreshold + e.recovery
  /\ e.status = "active"       => n >= RecoveryThreshold + ActiveRecoveryThreshold
  /\ file.listed[s] > 0 <=> UnderRecovery(e)

(* The approvals of s once the call c is saved. *)
ApprovalsAfter(c, s) ==
  IF c.kind = "quarantine" /\ s = c.s THEN 0
  ELSE IF c.kind = "recover" /\ s = c.s THEN approvals[s] + 1
  ELSE approvals[s]

(* The strategies of which Earned holds once c is saved. *)
CountedAfter(c) ==
  (Strategies \ diverted) \cup (IF c.kind = "quarantine" THEN {c.s} ELSE {})

StreaksEarned ==
  ~overlapped =>
    /\ Readable(stateFile) => \A s \in Strategies \ diverted : Earned(stateFile, s, approvals[s])
    /\ \A p \in Processes : Unsaved(p) =>
         \A s \in CountedAfter(call[p]) : Earned(outer[p], s, ApprovalsAfter(call[p], s))
    /\ \A p \in Processes : DecayUnsaved(p) =>
         \A s \in Strategies \ diverted : Earned(inner[p], s, approvals[s])

(* What a call makes of the health entries and of the list. *)
LEMMA ChangedHealth ==
  ASSUME NEW file \in Contents, NEW c \in Calls, c.kind # "evolve"
  PROVE  /\ \A s \in Strategies : c.kind \in RecordKinds \/ s # c.s =>
              /\ Changed(file, c).health[s] = file.health[s]
              /\ Changed(file, c).listed[s] = file.listed[s]
         /\ c.kind = "quarantine" =>
              /\ Changed(file, c).health[c.s] = Quarantined(HealthEntry(file.health, c.s))
              /\ Changed(file, c).listed[c.s] = file.listed[c.s] + 1
         /\ c.kind = "recover" =>
              /\ Changed(file, c).health[c.s] = Recovered(HealthEntry(file.health, c.s))
              /\ Changed(file, c).listed[c.s] =
                   IF ToActive(HealthEntry(file.health, c.s)) THEN 0 ELSE file.listed[c.s]
         /\ c.kind = "retire" =>
              Changed(file, c).health[c.s] = RetiredEntry(HealthEntry(file.health, c.s))
         /\ c.kind = "drift" =>
              Changed(file, c).health[c.s] = Drifted(HealthEntry(file.health, c.s), c.verdict)
  <1> DEFINE e == HealthEntry(file.health, c.s)
  <1>1. /\ file.health \in [Strategies -> HealthEntries \cup {NoEntry}]
        /\ file.listed \in [Strategies -> Nat] /\ file.records \in [RecordKinds -> Nat]
        /\ file = [health |-> file.health, listed |-> file.listed, records |-> file.records]
    BY ContentsParts
  <1>2. CASE c.kind \in RecordKinds
    <2>1. Changed(file, c) = Append(file, c.kind)
      BY <1>2 DEF Changed, RecordKinds
    <2>2. Append(file, c.kind).health = file.health /\ Append(file, c.kind).listed = file.listed
      BY <1>1 DEF Append
    <2> QED
      BY <1>2, <2>1, <2>2 DEF RecordKinds
  <1>3. CASE c.kind \in HealthCalls
    <2>1. c.s \in Strategies /\ c.kind \notin RecordKinds
      BY <1>3, CallFields DEF HealthCalls, RecordKinds
    <2> HIDE DEF e
    <2>2. ASSUME NEW h
          PROVE  /\ SetEntry(file, c.s, h).health = [file.health EXCEPT ![c.s] = h]
                 /\ SetEntry(file, c.s, h).listed = file.listed
                 /\ DOMAIN SetEntry(file, c.s, h) = {"health", "listed", "records"}
      BY <1>1 DEF SetEntry
    <2>3. ASSUME NEW h, NEW n
          PROVE  /\ [SetEntry(file, c.s, h) EXCEPT !.listed[c.s] = n].health
                    = [file.health EXCEPT ![c.s] = h]
                 /\ [SetEntry(file, c.s, h) EXCEPT !.listed[c.s] = n].listed
                    = [file.listed EXCEPT ![c.s] = n]
      BY <1>1, <2>2
    <2>4. CASE c.kind = "quarantine"
      <3>1. Changed(file, c) = [SetEntry(file, c.s, Quarantined(e))
                                  EXCEPT !.listed[c.s] = file.listed[c.s] + 1]
        BY <2>1, <2>2, <2>4 DEF Changed, e
      <3>2. /\ Changed(file, c).health = [file.health EXCEPT ![c.s] = Quarantined(e)]
            /\ Changed(file, c).listed = [file.listed EXCEPT ![c.s] = file.listed[c.s] + 1]
        BY <2>3, <3>1
      <3> QED
        BY <1>1, <2>1, <2>4, <3>2 DEF e
    <2>5. CASE c.kind = "recover"
      <3> DEFINE n == IF ToActive(e) THEN 0 ELSE file.listed[c.s]
      <3>1. Changed(file, c) = [SetEntry(file, c.s, Recovered(e)) EXCEPT !.listed[c.s] = n]
        BY <2>1, <2>2, <2>5 DEF Changed, e
      <3> HIDE DEF n
      <3>2. /\ Changed(file, c).health = [file.health EXCEPT ![c.s] = Recovered(e)]
            /\ Changed(file, c).listed = [file.listed EXCEPT ![c.s] = n]
        BY <2>3, <3>1
      <3> QED
        BY <1>1, <2>1, <2>5, <3>2 DEF e, n
    <2>6. CASE c.kind = "retire"
      <3>1. Changed(file, c) = SetEntry(file, c.s, RetiredEntry(e))
        BY <2>1, <2>6 DEF Changed, e
      <3>2. /\ Changed(file, c).health = [file.health EXCEPT ![c.s] = RetiredEntry(e)]
            /\ Changed(file, c).listed = file.listed
        BY <2>2, <3>1
      <3> QED
        BY <1>1, <2>1, <2>6, <3>2 DEF e
    <2>7. CASE c.kind = "drift"
      <3> DEFINE new == SetEntry(file, c.s, Drifted(e, c.verdict))
      <3>1. Changed(file, c) = Append(new, "risk")
        BY <2>1, <2>7 DEF Changed, e
      <3>2. Append(new, "risk").health = new.health /\ Append(new, "risk").listed = new.listed
        BY <2>2 DEF Append
      <3>3. /\ Changed(file, c).health = [file.health EXCEPT ![c.s] = Drifted(e, c.verdict)]
            /\ Changed(file, c).listed = file.listed
        BY <2>2, <3>1, <3>2
      <3> QED
        BY <1>1, <2>1, <2>7, <3>3 DEF e
    <2> QED
      BY <1>3, <2>4, <2>5, <2>6, <2>7 DEF HealthCalls
  <1> QED
    BY <1>2, <1>3, CallFields DEF CallKinds, HealthCalls

(* What a cycle's decay makes of them. *)
LEMMA WithDecayHealth ==
  ASSUME NEW file \in Contents, NEW active
  PROVE  /\ WithDecay(file, active).listed = file.listed
         /\ \A s \in Strategies : WithDecay(file, active).health[s] =
              IF file.health[s] = NoEntry THEN NoEntry
              ELSE IF s \in active THEN Refreshed(file.health[s]) ELSE Decayed(file.health[s])
  BY ContentsParts DEF WithDecay, Known

LEMMA EntryOf ==
  ASSUME NEW file \in Contents, NEW s \in Strategies
  PROVE  /\ HealthEntry(file.health, s) \in HealthEntries
         /\ file.listed[s] \in Nat
         /\ file.health[s] # NoEntry => /\ file.health[s] \in HealthEntries
                                        /\ HealthEntry(file.health, s) = file.health[s]
         /\ file.health[s] \in HealthEntries => file.health[s] # NoEntry
  BY ContentsParts, HealthEntryType, AbsenceAssumption DEF HealthEntry

(* Two files that have the same of s. *)
LEMMA SameEarned ==
  ASSUME NEW file \in Contents, NEW new, NEW s \in Strategies, NEW n,
         new.health[s] = file.health[s], new.listed[s] = file.listed[s], Earned(file, s, n)
  PROVE  Earned(new, s, n)
  BY DEF Earned, HealthEntry

LEMMA QuarantineEarned ==
  ASSUME NEW file \in Contents, NEW new \in Contents, NEW s \in Strategies,
         new.health[s] = Quarantined(HealthEntry(file.health, s)),
         new.listed[s] = file.listed[s] + 1
  PROVE  Earned(new, s, 0)
  <1> DEFINE h == HealthEntry(file.health, s)
             e == Quarantined(h)
  <1>0. h \in HealthEntries
    BY EntryOf
  <1> HIDE DEF h
  <1>1. e \in HealthEntries /\ e.status = "quarantined" /\ e.recovery = 0
    BY <1>0, QuarantinedType DEF Quarantined, HealthEntries
  <1> HIDE DEF e
  <1>2. HealthEntry(new.health, s) = e
    <2>1. new.health[s] = e
      BY DEF e, h
    <2> QED
      BY <1>1, <2>1, EntryOf
  <1> QED
    BY <1>1, <1>2, EntryOf, ThresholdAssumption DEF Earned, UnderRecovery

LEMMA RecoverEarned ==
  ASSUME NEW file \in Contents, NEW new \in Contents, NEW s \in Strategies, NEW n \in Nat,
         Earned(file, s, n),
         new.health[s] = Recovered(HealthEntry(file.health, s)),
         new.listed[s] = IF ToActive(HealthEntry(file.health, s)) THEN 0 ELSE file.listed[s]
  PROVE  Earned(new, s, n + 1)
  <1> DEFINE e == HealthEntry(file.health, s)
             r == Recovered(e)
  <1>1. e \in HealthEntries /\ r \in HealthEntries /\ file.listed[s] \in Nat
        /\ e.recovery \in Nat /\ e.status \in HealthStatuses
    BY EntryOf, RecoveredType DEF HealthEntries
  <1>2. HealthEntry(new.health, s) = r
    BY <1>1, EntryOf
  <1>3. /\ r.recovery = IF UnderRecovery(e) /\ ~CompletesRecovery(e) THEN e.recovery + 1 ELSE 0
        /\ r.status = IF CompletesRecovery(e) THEN Promoted(e.status) ELSE e.status
    BY <1>1 DEF Recovered, HealthEntries
  <1>4. /\ e.status # "retired"
        /\ e.status = "quarantined"  => n = e.recovery /\ e.recovery < RecoveryThreshold
        /\ e.status = "probationary" => n = RecoveryThreshold + e.recovery
        /\ e.status = "active"       => n >= RecoveryThreshold + ActiveRecoveryThreshold
        /\ file.listed[s] > 0 <=> UnderRecovery(e)
    BY DEF Earned
  <1> HIDE DEF e, r
  <1> USE ThresholdAssumption
  <1>5. CASE e.status = "quarantined" /\ CompletesRecovery(e)
    <2>1. r.recovery = 0 /\ r.status = "probationary" /\ n + 1 = RecoveryThreshold
      BY <1>1, <1>3, <1>4, <1>5 DEF CompletesRecovery, Needed, Promoted
    <2>2. new.listed[s] = file.listed[s]
      BY <1>5 DEF ToActive, Promoted, e
    <2> QED
      BY <1>1, <1>2, <1>4, <1>5, <2>1, <2>2 DEF Earned, UnderRecovery
  <1>6. CASE e.status = "probationary" /\ CompletesRecovery(e)
    <2>1. r.status = "active" /\ n + 1 >= RecoveryThreshold + ActiveRecoveryThreshold
      BY <1>1, <1>3, <1>4, <1>6 DEF CompletesRecovery, Needed, Promoted
    <2>2. new.listed[s] = 0
      BY <1>6 DEF ToActive, Promoted, e
    <2> QED
      BY <1>2, <2>1, <2>2 DEF Earned, UnderRecovery
  <1>7. CASE ~CompletesRecovery(e)
    <2>1. r.status = e.status /\ new.listed[s] = file.listed[s]
      BY <1>3, <1>7 DEF ToActive, e
    <2>2. UnderRecovery(e) => r.recovery = e.recovery + 1
      BY <1>3, <1>7
    <2>3. e.status = "quarantined" => e.recovery + 1 < RecoveryThreshold
      BY <1>1, <1>7 DEF CompletesRecovery, Needed, UnderRecovery
    <2> QED
      BY <1>1, <1>2, <1>4, <2>1, <2>2, <2>3 DEF Earned, UnderRecovery
  <1> QED
    BY <1>5, <1>6, <1>7 DEF CompletesRecovery, UnderRecovery

(* A cycle that does not retire s leaves its streak alone. *)
LEMMA DecayEarned ==
  ASSUME NEW file \in Contents, NEW active, NEW s \in Strategies, NEW n, Earned(file, s, n),
         s \notin RetiredByDecay(file, active)
  PROVE  Earned(WithDecay(file, active), s, n)
  <1> DEFINE new == WithDecay(file, active)
             e == file.health[s]
  <1>1. new \in Contents /\ new.listed[s] = file.listed[s]
    BY WithDecayType, WithDecayHealth
  <1>2. CASE e = NoEntry
    <2>1. new.health[s] = NoEntry
      BY <1>2, WithDecayHealth
    <2> QED
      BY <1>1, <1>2, <2>1 DEF Earned, HealthEntry
  <1>3. CASE e # NoEntry
    <2>1. e \in HealthEntries /\ HealthEntry(file.health, s) = e
      BY <1>3, EntryOf
    <2>2. e.status # "retired"
      BY <2>1 DEF Earned
    <2>3. CASE s \in active
      <3>1. new.health[s] = Refreshed(e)
        BY <1>3, <2>3, WithDecayHealth
      <3>2. Refreshed(e) \in HealthEntries /\ Refreshed(e).status = e.status
              /\ Refreshed(e).recovery = e.recovery
        BY <2>1, <2>2, RefreshedType DEF Refreshed, HealthEntries
      <3>3. HealthEntry(new.health, s) = Refreshed(e)
        BY <1>1, <3>1, <3>2, EntryOf
      <3> QED
        BY <1>1, <2>1, <3>2, <3>3 DEF Earned, UnderRecovery
    <2>4. CASE s \notin active
      <3>1. new.health[s] = Decayed(e)
        BY <1>3, <2>4, WithDecayHealth
      <3>2. ~RetiresByDecay(e)
        BY <1>3, <2>4 DEF RetiredByDecay, Known
      <3>3. Decayed(e) \in HealthEntries /\ Decayed(e).status = e.status
              /\ Decayed(e).recovery = e.recovery
        BY <2>1, <3>2, DecayedType DEF Decayed, HealthEntries
      <3>4. HealthEntry(new.health, s) = Decayed(e)
        BY <1>1, <3>1, <3>3, EntryOf
      <3> QED
        BY <1>1, <2>1, <3>3, <3>4 DEF Earned, UnderRecovery
    <2> QED
      BY <2>3, <2>4
  <1> QED
    BY <1>2, <1>3

LEMMA InitStreaks == Init => StreaksEarned
  <1> SUFFICES ASSUME Init, NEW s \in Strategies PROVE Earned(stateFile, s, approvals[s])
    BY DEF Init, StreaksEarned, Unsaved, DecayUnsaved, UsesStateFile, Idle
  <1>1. HealthEntry(stateFile.health, s) = DefaultEntry /\ stateFile.listed[s] = 0
    BY DEF Init, DefaultContents, HealthEntry
  <1>2. approvals[s] = RecoveryThreshold + ActiveRecoveryThreshold
    BY DEF Init
  <1> QED
    BY <1>1, <1>2, ThresholdAssumption DEF Earned, DefaultEntry, UnderRecovery

(* The steps that save nothing and load nothing. *)
LEMMA StreaksMoveOn ==
  ASSUME Typed, StreaksEarned, NEW p \in Processes,
         UNCHANGED <<overlapped, approvals, diverted>>,
         Readable(stateFile)' => UNCHANGED stateFile,
         \A q \in Processes \ {p} : Unmoved(q),
         Unsaved(p)' => Unsaved(p) /\ outer'[p] = outer[p] /\ call'[p] = call[p],
         DecayUnsaved(p)' => DecayUnsaved(p) /\ inner'[p] = inner[p]
  PROVE  StreaksEarned'
  <1>1. ASSUME NEW q \in Processes
        PROVE  /\ Unsaved(q)' => Unsaved(q) /\ outer'[q] = outer[q] /\ call'[q] = call[q]
               /\ DecayUnsaved(q)' => DecayUnsaved(q) /\ inner'[q] = inner[q]
    <2>1. CASE q = p
      BY <2>1
    <2>2. CASE q # p
      BY <2>2 DEF Unsaved, DecayUnsaved, UsesStateFile, Idle, Unmoved
    <2> QED
      BY <2>1, <2>2
  <1>2. ASSUME NEW q \in Processes, Unsaved(q)'
        PROVE  /\ CountedAfter(call[q])' = CountedAfter(call[q])
               /\ \A s : ApprovalsAfter(call[q], s)' = ApprovalsAfter(call[q], s)
    BY <1>1, <1>2 DEF CountedAfter, ApprovalsAfter
  <1>3. ASSUME ~overlapped, NEW q \in Processes, Unsaved(q)', NEW s \in CountedAfter(call[q])'
        PROVE  Earned(outer[q], s, ApprovalsAfter(call[q], s))'
    <2>1. Earned(outer[q], s, ApprovalsAfter(call[q], s))
      BY <1>1, <1>2, <1>3 DEF StreaksEarned
    <2> QED
      BY <1>1, <1>2, <1>3, <2>1 DEF Earned
  <1>4. ASSUME ~overlapped, NEW q \in Processes, DecayUnsaved(q)', NEW s \in Strategies \ diverted'
        PROVE  Earned(inner[q], s, approvals[s])'
    BY <1>1, <1>4 DEF StreaksEarned, Earned
  <1>5. ASSUME ~overlapped, Readable(stateFile)', NEW s \in Strategies \ diverted'
        PROVE  Earned(stateFile, s, approvals[s])'
    BY <1>5 DEF StreaksEarned, Earned, Readable
  <1> QED
    BY <1>3, <1>4, <1>5 DEF StreaksEarned

(* Where p alone uses the state file, only p's copies matter. *)
LEMMA StreaksOfOne ==
  ASSUME Typed, NEW p \in Processes, UNCHANGED overlapped,
         ~overlapped => \A q \in Processes \ {p} : ~UsesStateFile(q) /\ Unmoved(q),
         ~overlapped =>
           /\ Readable(stateFile)' =>
                \A s \in Strategies \ diverted' : Earned(stateFile, s, approvals[s])'
           /\ Unsaved(p)' =>
                \A s \in CountedAfter(call[p])' : Earned(outer[p], s, ApprovalsAfter(call[p], s))'
           /\ DecayUnsaved(p)' =>
                \A s \in Strategies \ diverted' : Earned(inner[p], s, approvals[s])'
  PROVE  StreaksEarned'
  <1>1. ASSUME ~overlapped, NEW q \in Processes \ {p} PROVE ~Unsaved(q)' /\ ~DecayUnsaved(q)'
    <2>1. ~Unsaved(q) /\ ~DecayUnsaved(q)
      BY <1>1, Bystander
    <2> QED
      BY <1>1, <2>1 DEF Unsaved, DecayUnsaved, UsesStateFile, Idle, Unmoved
  <1> QED
    BY <1>1 DEF StreaksEarned

LEMMA NextStreaks == Typed /\ TurnsTaken /\ StreaksEarned /\ [Next]_vars => StreaksEarned'
  <1> SUFFICES ASSUME Typed, TurnsTaken, StreaksEarned, [Next]_vars PROVE StreaksEarned'
    OBVIOUS
  <1> USE DEF local, appends, history
  <1> TypeOK
    BY DEF Typed
  <1>0. ~overlapped => OneAtATime
    BY DEF TurnsTaken
  <1>1. ASSUME NEW p \in Processes, NEW c \in Calls, BeginCall(p, c) PROVE StreaksEarned'
    <2> SUFFICES ASSUME ~overlapped' PROVE StreaksEarned'
      BY DEF StreaksEarned
    <2>1. UNCHANGED overlapped /\ \A q \in Processes : ~UsesStateFile(q)
      BY <1>1 DEF BeginCall, TypeOK
    <2>2. /\ call' = [call EXCEPT ![p] = c] /\ c.kind # "evolve"
          /\ outer' = [outer EXCEPT ![p] = Changed(stateFile, c)]
          /\ \E label \in {"sync", "decay", "outer"} :
               pc' = [pc EXCEPT ![p] = label] /\ (label = "sync" => c.kind # "cycle")
          /\ diverted' = diverted \cup (IF c.kind \in {"drift", "retire"} THEN {c.s} ELSE {})
          /\ UNCHANGED <<stateFile, inner, registryCopy, approvals>>
      BY <1>1 DEF BeginCall, Goto
    <2>3. Readable(stateFile) /\ stateFile \in Contents
      BY <1>1, ReadableType DEF BeginCall
    <2>4. call'[p] = c /\ outer'[p] = Changed(stateFile, c) /\ ~DecayUnsaved(p)'
          /\ \A q \in Processes \ {p} : Unmoved(q)
      BY <2>2 DEF DecayUnsaved, TypeOK, Unmoved
    <2>5. \A s \in Strategies \ diverted : Earned(stateFile, s, approvals[s])
      BY <2>1, <2>3 DEF StreaksEarned
    <2>6. \A s \in Strategies \ diverted' : Earned(stateFile, s, approvals[s])'
      BY <2>2, <2>5 DEF Earned
    <2>7. ASSUME NEW s \in CountedAfter(c)'
          PROVE  Earned(Changed(stateFile, c), s, ApprovalsAfter(c, s))
      <3>1. /\ s \in Strategies /\ Changed(stateFile, c) \in Contents /\ approvals[s] \in Nat
            /\ (s \in Strategies \ diverted \/ (c.kind = "quarantine" /\ s = c.s))
            /\ ~(c.kind \in {"drift", "retire"} /\ s = c.s)
        BY <2>2, <2>3, <2>7, CallFields, ChangedType DEF CountedAfter, HealthCalls, TypeOK
      <3>2. CASE c.kind = "quarantine" /\ s = c.s
        BY <2>2, <2>3, <3>1, <3>2, ChangedHealth, QuarantineEarned DEF ApprovalsAfter
      <3>3. CASE c.kind = "recover" /\ s = c.s
        <4>1. Earned(stateFile, s, approvals[s])
          BY <2>5, <3>1, <3>3
        <4>2. Earned(Changed(stateFile, c), s, approvals[s] + 1)
          BY <2>2, <2>3, <3>1, <3>3, <4>1, ChangedHealth, RecoverEarned
        <4> QED
          BY <3>3, <4>2 DEF ApprovalsAfter
      <3>4. CASE c.kind \in RecordKinds \/ s # c.s
        <4>1. Earned(stateFile, s, approvals[s])
          BY <2>5, <3>1, <3>4 DEF RecordKinds
        <4>2. Earned(Changed(stateFile, c), s, approvals[s])
          BY <2>2, <2>3, <3>1, <3>4, <4>1, ChangedHealth, SameEarned
        <4> QED
          BY <3>4, <4>2 DEF ApprovalsAfter, RecordKinds
      <3> QED
        BY <2>2, <3>1, <3>2, <3>3, <3>4, CallFields DEF CallKinds
    <2>8. \A s \in CountedAfter(call[p])' : Earned(outer[p], s, ApprovalsAfter(call[p], s))'
      <3>1. CountedAfter(call[p])' = CountedAfter(c)'
        BY <2>4 DEF CountedAfter
      <3>2. \A s : ApprovalsAfter(call[p], s)' = ApprovalsAfter(c, s)
        BY <2>2, <2>4 DEF ApprovalsAfter
      <3> QED
        BY <2>4, <2>7, <3>1, <3>2 DEF Earned
    <2> QED
      BY <2>1, <2>4, <2>6, <2>8, StreaksOfOne
  <1>2. ASSUME NEW p \in Processes, NEW c \in Calls, BeginEvolve(p, c) PROVE StreaksEarned'
    <2>1. /\ pc[p] = "idle" /\ c.kind = "evolve"
          /\ pc' = [pc EXCEPT ![p] = "sync"] /\ call' = [call EXCEPT ![p] = c]
          /\ UNCHANGED <<stateFile, outer, inner, registryCopy, overlapped, approvals, diverted>>
      BY <1>2 DEF BeginEvolve, Goto, Idle
    <2>2. pc'[p] = "sync" /\ call'[p].kind = "evolve" /\ \A q \in Processes \ {p} : Unmoved(q)
      BY <2>1 DEF TypeOK, Unmoved
    <2>3. ~Unsaved(p)' /\ ~DecayUnsaved(p)'
      BY <2>2 DEF UsesStateFile, Unsaved, DecayUnsaved
    <2> QED
      BY <2>1, <2>2, <2>3, StreaksMoveOn
  <1>3. ASSUME NEW p \in Processes, ApplyRollingDecay(p) PROVE StreaksEarned'
    <2> DEFINE active == call[p].active
    <2>1. Readable(stateFile) /\ stateFile \in Contents
      BY <1>3, ReadableType DEF ApplyRollingDecay
    <2>2. pc[p] = "decay" /\ call[p].kind = "cycle" /\ UsesStateFile(p) /\ Unsaved(p)
      BY <1>3 DEF ApplyRollingDecay, Typed, Fits, UsesStateFile, Unsaved, Idle
    <2>3. /\ inner' = [inner EXCEPT ![p] = IF DecayIsSaved(stateFile, active)
                                           THEN WithDecay(stateFile, active) ELSE inner[p]]
          /\ \E label \in {"sync", "inner", "outer"} :
               pc' = [pc EXCEPT ![p] = label]
                 /\ (label # "outer" => DecayIsSaved(stateFile, active))
          /\ diverted' = diverted \cup RetiredByDecay(stateFile, active)
          /\ UNCHANGED <<stateFile, call, outer, registryCopy, overlapped, approvals>>
      BY <1>3 DEF ApplyRollingDecay, Goto, DecayIsSaved
    <2> HIDE DEF active
    <2>4. /\ pc'[p] # "outer" => inner'[p] = WithDecay(stateFile, active)
          /\ \A q \in Processes \ {p} : Unmoved(q)
      BY <2>3 DEF TypeOK, Unmoved
    <2>5. ~overlapped => \A q \in Processes \ {p} : ~UsesStateFile(q) /\ Unmoved(q)
      BY <1>0, <2>2, <2>4 DEF OneAtATime
    <2>6. ASSUME ~overlapped, NEW s \in Strategies \ diverted'
          PROVE  Earned(stateFile, s, approvals[s])
                   /\ Earned(WithDecay(stateFile, active), s, approvals[s])
      <3>1. Earned(stateFile, s, approvals[s]) /\ s \notin RetiredByDecay(stateFile, active)
        BY <2>1, <2>3, <2>6 DEF StreaksEarned
      <3> QED
        BY <2>1, <3>1, DecayEarned
    <2>7. ASSUME ~overlapped, NEW s \in CountedAfter(call[p])'
          PROVE  Earned(outer[p], s, ApprovalsAfter(call[p], s))'
      <3>1. s \in CountedAfter(call[p]) /\ ApprovalsAfter(call[p], s)' = ApprovalsAfter(call[p], s)
        BY <2>3, <2>7 DEF CountedAfter, ApprovalsAfter
      <3>2. Earned(outer[p], s, ApprovalsAfter(call[p], s))
        BY <2>2, <2>7, <3>1 DEF StreaksEarned
      <3> QED
        BY <2>3, <3>1, <3>2 DEF Earned
    <2>8. ~overlapped =>
            \A s \in Strategies \ diverted' : Earned(stateFile, s, approvals[s])'
      BY <2>3, <2>6 DEF Earned
    <2>9. ~overlapped /\ DecayUnsaved(p)' =>
            \A s \in Strategies \ diverted' : Earned(inner[p], s, approvals[s])'
      BY <2>3, <2>4, <2>6 DEF Earned, DecayUnsaved
    <2> QED
      BY <2>3, <2>5, <2>7, <2>8, <2>9, StreaksOfOne
  <1>4. ASSUME NEW p \in Processes, LoadRegistry(p) PROVE StreaksEarned'
    <2>1. /\ pc[p] = "sync" /\ pc' = [pc EXCEPT ![p] = "upsert"]
          /\ registryCopy' = [registryCopy EXCEPT ![p] = registry]
          /\ UNCHANGED <<stateFile, call, outer, inner, overlapped, approvals, diverted>>
      BY <1>4 DEF LoadRegistry, Goto
    <2>2. pc'[p] = "upsert" /\ \A q \in Processes \ {p} : Unmoved(q)
      BY <2>1 DEF Unmoved, TypeOK
    <2>3. (Unsaved(p)' => Unsaved(p)) /\ (DecayUnsaved(p)' => DecayUnsaved(p))
      BY <2>1, <2>2 DEF UsesStateFile, Idle, Unsaved, DecayUnsaved
    <2> QED
      BY <2>1, <2>2, <2>3, StreaksMoveOn
  <1>5. ASSUME NEW p \in Processes, NEW s \in Strategies, SaveRegistry(p, s) \/ SyncFails(p, s)
        PROVE  StreaksEarned'
    <2>1. /\ pc[p] \in {"sync", "upsert"}
          /\ pc' = [pc EXCEPT ![p] = AfterSync(p, s)]
          /\ call' = [call EXCEPT ![p] = IF call[p].kind = "evolve" THEN Nothing ELSE call[p]]
          /\ registryCopy' = [registryCopy EXCEPT ![p] = Nothing]
          /\ UNCHANGED <<stateFile, outer, inner, overlapped, approvals, diverted>>
      BY <1>5 DEF SaveRegistry, SyncFails, Goto, TypeOK
    <2>2. \A q \in Processes \ {p} : Unmoved(q)
      BY <2>1 DEF Unmoved, TypeOK
    <2>3. /\ pc'[p] = AfterSync(p, s)
          /\ call[p].kind # "evolve" => call'[p] = call[p]
      BY <2>1 DEF TypeOK
    <2>4. /\ call[p].kind = "evolve" => pc'[p] = "idle"
          /\ call[p].kind = "drift" => pc'[p] = "append"
          /\ call[p].kind = "cycle" <=> pc'[p] \in {"inner", "sync"}
          /\ pc'[p] \in {"idle", "append", "inner", "sync", "outer"}
      BY <2>3 DEF AfterSync
    <2>5. /\ Unsaved(p)' => Unsaved(p) /\ outer'[p] = outer[p] /\ call'[p] = call[p]
          /\ DecayUnsaved(p)' => DecayUnsaved(p) /\ inner'[p] = inner[p]
      BY <2>1, <2>3, <2>4 DEF UsesStateFile, Idle, Unsaved, DecayUnsaved
    <2> QED
      BY <2>1, <2>2, <2>5, StreaksMoveOn
  <1>6. ASSUME NEW p \in Processes, Truncate(p) PROVE StreaksEarned'
    <2>1. /\ \/ pc[p] = "inner" /\ pc' = [pc EXCEPT ![p] = "innerWrite"]
             \/ pc[p] = "outer" /\ pc' = [pc EXCEPT ![p] = "outerWrite"]
          /\ stateFile' = Empty
          /\ UNCHANGED <<call, outer, inner, registryCopy, overlapped, approvals, diverted>>
      BY <1>6 DEF Truncate, Goto
    <2>2. /\ \/ pc[p] = "inner" /\ pc'[p] = "innerWrite"
             \/ pc[p] = "outer" /\ pc'[p] = "outerWrite"
          /\ \A q \in Processes \ {p} : Unmoved(q)
      BY <2>1 DEF TypeOK, Unmoved
    <2>3. ~Readable(stateFile)'
      BY <2>1 DEF Readable
    <2>4. (Unsaved(p)' => Unsaved(p)) /\ (DecayUnsaved(p)' => DecayUnsaved(p))
      BY <2>1, <2>2 DEF UsesStateFile, Idle, Unsaved, DecayUnsaved
    <2> QED
      BY <2>1, <2>2, <2>3, <2>4, StreaksMoveOn
  <1>7. ASSUME NEW p \in Processes, WriteDecay(p) PROVE StreaksEarned'
    <2>1. /\ pc[p] = "innerWrite" /\ pc' = [pc EXCEPT ![p] = "outer"]
          /\ stateFile' \in WriteOutcomes(inner[p])
          /\ inner' = [inner EXCEPT ![p] = Nothing]
          /\ UNCHANGED <<call, outer, registryCopy, overlapped, approvals, diverted>>
      BY <1>7 DEF WriteDecay, Goto
    <2>2. inner[p] \in Contents /\ call[p].kind = "cycle"
      BY <2>1 DEF Typed, Fits
    <2>3. ~overlapped => stateFile' = inner[p] /\ \A q \in Processes \ {p} : ~UsesStateFile(q)
      BY <2>1, <2>2, WriteEnds DEF WriteLabels
    <2>4. pc'[p] = "outer" /\ \A q \in Processes \ {p} : Unmoved(q)
      BY <2>1 DEF TypeOK, Unmoved
    <2>5. Unsaved(p) /\ DecayUnsaved(p)
      BY <2>1, <2>2 DEF Unsaved, DecayUnsaved, UsesStateFile, Idle
    <2>6. ~overlapped => \A s \in Strategies \ diverted' : Earned(stateFile, s, approvals[s])'
      BY <2>1, <2>3, <2>5 DEF StreaksEarned, Earned
    <2>7. ASSUME ~overlapped, NEW s \in CountedAfter(call[p])'
          PROVE  Earned(outer[p], s, ApprovalsAfter(call[p], s))'
      <3>1. s \in CountedAfter(call[p]) /\ ApprovalsAfter(call[p], s)' = ApprovalsAfter(call[p], s)
        BY <2>1, <2>7 DEF CountedAfter, ApprovalsAfter
      <3>2. Earned(outer[p], s, ApprovalsAfter(call[p], s))
        BY <2>5, <2>7, <3>1 DEF StreaksEarned
      <3> QED
        BY <2>1, <3>1, <3>2 DEF Earned
    <2>8. ~DecayUnsaved(p)'
      BY <2>4 DEF DecayUnsaved
    <2> QED
      BY <2>1, <2>3, <2>4, <2>6, <2>7, <2>8, StreaksOfOne
  <1>8. ASSUME NEW p \in Processes, WriteState(p) PROVE StreaksEarned'
    <2> DEFINE c == call[p]
    <2>1. /\ pc[p] = "outerWrite"
          /\ pc' = [pc EXCEPT ![p] = IF c.kind = "drift" THEN "sync" ELSE "idle"]
          /\ stateFile' \in WriteOutcomes(outer[p])
          /\ call' = [call EXCEPT ![p] = IF c.kind = "drift" THEN c ELSE Nothing]
          /\ outer' = [outer EXCEPT ![p] = IF c.kind = "drift" THEN outer[p] ELSE Nothing]
          /\ approvals' = [s \in Strategies |-> ApprovalsAfter(c, s)]
          /\ diverted' = diverted \ (IF c.kind = "quarantine" THEN {c.s} ELSE {})
          /\ UNCHANGED <<inner, registryCopy, overlapped>>
      BY <1>8 DEF WriteState, Goto, ApprovalsAfter
    <2>2. outer[p] \in Contents /\ c \in Calls /\ c.kind # "evolve"
      BY <2>1 DEF Typed, Fits
    <2>3. ~overlapped => stateFile' = outer[p] /\ \A q \in Processes \ {p} : ~UsesStateFile(q)
      BY <2>1, <2>2, WriteEnds DEF WriteLabels
    <2>4. /\ pc'[p] = (IF c.kind = "drift" THEN "sync" ELSE "idle")
          /\ c.kind = "drift" => call'[p].kind = "drift"
          /\ \A q \in Processes \ {p} : Unmoved(q)
      BY <2>1 DEF TypeOK, Unmoved
    <2>5. Unsaved(p) /\ ~Unsaved(p)' /\ ~DecayUnsaved(p)'
      BY <2>1, <2>2, <2>4 DEF Unsaved, DecayUnsaved, UsesStateFile, Idle
    <2>6. ASSUME ~overlapped, NEW s \in Strategies \ diverted'
          PROVE  Earned(stateFile, s, approvals[s])'
      <3>1. s \in CountedAfter(c) /\ approvals'[s] = ApprovalsAfter(c, s)
        BY <2>1, <2>6 DEF CountedAfter
      <3>2. Earned(outer[p], s, ApprovalsAfter(c, s))
        BY <2>5, <2>6, <3>1 DEF StreaksEarned
      <3> QED
        BY <2>3, <2>6, <3>1, <3>2 DEF Earned
    <2> QED
      BY <2>1, <2>3, <2>4, <2>5, <2>6, StreaksOfOne
  <1>9. ASSUME NEW p \in Processes, AppendDriftEvent(p) PROVE StreaksEarned'
    <2> DEFINE event == [kind |-> "risk"]
    <2>1. /\ pc[p] = "append" /\ pc' = [pc EXCEPT ![p] = "outer"]
          /\ call' = [call EXCEPT ![p] = event]
          /\ outer' = [outer EXCEPT ![p] = Append(stateFile, "risk")]
          /\ UNCHANGED <<stateFile, inner, registryCopy, overlapped, approvals, diverted>>
      BY <1>9 DEF AppendDriftEvent, Goto
    <2>2. Readable(stateFile) /\ stateFile \in Contents
      BY <1>9, ReadableType DEF AppendDriftEvent
    <2>3. UsesStateFile(p)
      BY <2>1 DEF UsesStateFile, Idle, Typed, Fits
    <2>4. /\ pc'[p] = "outer" /\ call'[p] = event
          /\ outer'[p] = Append(stateFile, "risk")
          /\ \A q \in Processes \ {p} : Unmoved(q)
      BY <2>1 DEF TypeOK, Unmoved
    <2>5. ~overlapped => \A q \in Processes \ {p} : ~UsesStateFile(q) /\ Unmoved(q)
      BY <1>0, <2>3, <2>4 DEF OneAtATime
    <2>6. ~overlapped => \A s \in Strategies \ diverted : Earned(stateFile, s, approvals[s])
      BY <2>2 DEF StreaksEarned
    <2>7. Append(stateFile, "risk").health = stateFile.health
            /\ Append(stateFile, "risk").listed = stateFile.listed
      BY <2>2, ContentsParts DEF Append
    <2>8. ASSUME ~overlapped, NEW s \in CountedAfter(call[p])'
          PROVE  Earned(outer[p], s, ApprovalsAfter(call[p], s))'
      <3>1. s \in Strategies \ diverted /\ ApprovalsAfter(call[p], s)' = approvals[s]
        BY <2>1, <2>4, <2>8 DEF CountedAfter, ApprovalsAfter
      <3> QED
        BY <2>4, <2>6, <2>7, <2>8, <3>1 DEF Earned
    <2>9. ~DecayUnsaved(p)'
      BY <2>4 DEF DecayUnsaved
    <2>10. ~overlapped => \A s \in Strategies \ diverted' : Earned(stateFile, s, approvals[s])'
      BY <2>1, <2>6 DEF Earned
    <2> QED
      BY <2>1, <2>5, <2>8, <2>9, <2>10, StreaksOfOne
  <1>10. ASSUME NEW p \in Processes, UpsertFails(p) \/ LoadFails(p) \/ Crash(p)
         PROVE  StreaksEarned'
    <2>1. /\ pc' = [pc EXCEPT ![p] = "idle"]
          /\ call' = [call EXCEPT ![p] = Nothing]
          /\ outer' = [outer EXCEPT ![p] = Nothing]
          /\ inner' = [inner EXCEPT ![p] = Nothing]
          /\ registryCopy' = [registryCopy EXCEPT ![p] = Nothing]
          /\ UNCHANGED <<stateFile, overlapped, approvals, diverted>>
      BY <1>10 DEF UpsertFails, LoadFails, Crash, Abandon, Goto
    <2>2. pc'[p] = "idle" /\ \A q \in Processes \ {p} : Unmoved(q)
      BY <2>1 DEF TypeOK, Unmoved
    <2>3. ~Unsaved(p)' /\ ~DecayUnsaved(p)'
      BY <2>2 DEF Unsaved, DecayUnsaved, UsesStateFile, Idle
    <2> QED
      BY <2>1, <2>2, <2>3, StreaksMoveOn
  <1>11. CASE UNCHANGED vars
    BY <1>11
    DEF vars, StreaksEarned, Earned, Unsaved, DecayUnsaved, UsesStateFile, Idle, Readable,
        CountedAfter, ApprovalsAfter
  <1> QED
    BY <1>1, <1>2, <1>3, <1>4, <1>5, <1>6, <1>7, <1>8, <1>9, <1>10, <1>11 DEF Next, Step

LEMMA StreaksAreEarned == Spec => [](Typed /\ TurnsTaken /\ StreaksEarned)
  BY InitTyped, NextTyped, InitTurnsTaken, NextTurnsTaken, InitStreaks, NextStreaks, PTL DEF Spec

(* A strategy leaves quarantine and probation by the approvals             *)
(* recover_strategy of ver9/state.py asks for and by no others: crashes,   *)
(* failed upserts and the two rewrites of every cycle never add one to its *)
(* streak nor take one away, for any thresholds.                           *)
THEOREM ProbationTakesItsApprovals == Spec => []ProbationIsEarned
  <1>1. Typed /\ StreaksEarned => ProbationIsEarned
    <2> SUFFICES ASSUME Typed, StreaksEarned, Serial, NEW s \in Known(stateFile) \ diverted
                 PROVE  LET e == stateFile.health[s] IN
                        CASE e.status = "quarantined"  -> approvals[s] = e.recovery
                          [] e.status = "probationary" -> approvals[s] = RecoveryThreshold + e.recovery
                          [] OTHER -> approvals[s] >= RecoveryThreshold + ActiveRecoveryThreshold
      BY DEF ProbationIsEarned
    <2>1. s \in Strategies /\ stateFile \in Contents /\ Earned(stateFile, s, approvals[s])
      BY ReadableType DEF Serial, StreaksEarned, Typed, Known
    <2>2. stateFile.health[s] \in HealthEntries
            /\ HealthEntry(stateFile.health, s) = stateFile.health[s]
      BY <2>1, EntryOf DEF Known
    <2> QED
      BY <2>1, <2>2 DEF Earned, HealthEntries, HealthStatuses
  <1> QED
    BY <1>1, StreaksAreEarned, PTL

(* quarantined_strategies lists a strategy exactly from its quarantine     *)
(* until its last approval: quarantine_strategy and the "Recovery cleanup" *)
(* of recover_strategy in ver9/state.py.                                   *)
THEOREM ListFollowsRecovery == Spec => []ListedWhileUnderRecovery
  <1>1. Typed /\ StreaksEarned => ListedWhileUnderRecovery
    <2> SUFFICES ASSUME Typed, StreaksEarned, Serial, NEW s \in Strategies \ diverted
                 PROVE  stateFile.listed[s] > 0 <=>
                          (stateFile.health[s] # NoEntry /\ UnderRecovery(stateFile.health[s]))
      BY DEF ListedWhileUnderRecovery
    <2>1. stateFile \in Contents /\ Earned(stateFile, s, approvals[s])
      BY ReadableType DEF Serial, StreaksEarned, Typed
    <2>2. CASE stateFile.health[s] = NoEntry
      BY <2>1, <2>2 DEF Earned, HealthEntry, DefaultEntry, UnderRecovery
    <2>3. CASE stateFile.health[s] # NoEntry
      BY <2>1, <2>3, EntryOf DEF Earned
    <2> QED
      BY <2>2, <2>3
  <1> QED
    BY <1>1, StreaksAreEarned, PTL
-----------------------------------------------------------------------------
(* While nobody evolves, no two calls overlap and no upsert fails, the     *)
(* registry follows the health entries, in the file and in every copy.     *)

NobodyEvolves == \A p \in Processes : "evolve" \notin Kinds[p]

NoneEvolves == \A p \in Processes : pc[p] # "idle" => call[p].kind # "evolve"

(* A health entry h (or none) and the registry entry r of a strategy.      *)
TellsRetirement(h, r) ==
  h # NoEntry /\ h.status = "retired" =>
    r # Unregistered /\ r.status \in {"retired", "quarantined"}

OneCallAhead(h, r) ==
  h # NoEntry =>
    r # Unregistered /\ r.status \in {h.status, "quarantined", Recovered(h).status}

Agrees(h, r) ==
  h # NoEntry =>
    /\ r # Unregistered
    /\ r.status = h.status \/ (r.status = "retired" /\ RetiresByDecay(h))

(* p has yet to tell the registry of s, by its call or by its decay. *)
Untold(p, s) ==
  /\ pc[p] # "idle" /\ call[p].kind \in HealthCalls /\ s = call[p].s
  /\ pc[p] \in {"sync", "upsert"} \/ (call[p].kind = "drift" /\ pc[p] # "append")

UntoldDecay(p, s) ==
  pc[p] \in {"sync", "upsert"} /\ call[p].kind = "cycle" /\ s \in retiring[p]

(* What p knows of the two files. *)
UpToDate(p) ==
  /\ pc[p] \in {"sync", "upsert"} =>
       /\ Readable(stateFile)
       /\ call[p].kind \in {"quarantine", "recover", "retire"} =>
            outer[p] = Changed(stateFile, call[p])
       /\ call[p].kind = "drift" => outer[p] = stateFile
       /\ call[p].kind = "cycle" =>
            /\ outer[p].health = stateFile.health
            /\ retiring[p] \subseteq diverted
            /\ \A s \in retiring[p] :
                 s \in Known(stateFile) /\ RetiresByDecay(stateFile.health[s])
  /\ pc[p] = "upsert" => registryCopy[p] = registry
  /\ pc[p] = "decay" => outer[p].health = stateFile.health
  /\ call[p].kind \in {"drift", "retire"} => call[p].s \in diverted
  /\ call[p].kind = "drift" =>
       outer[p].health[call[p].s].status \in {"quarantined", "probationary"}

CopyInStep(p) ==
  Unsaved(p) => \A s \in Strategies : ~Untold(p, s) =>
    /\ TellsRetirement(outer[p].health[s], registry[s])
    /\ s \in CountedAfter(call[p]) => OneCallAhead(outer[p].health[s], registry[s])

DecayInStep(p) ==
  DecayUnsaved(p) => \A s \in Strategies : ~UntoldDecay(p, s) =>
    /\ TellsRetirement(inner[p].health[s], registry[s])
    /\ s \notin diverted => OneCallAhead(inner[p].health[s], registry[s])

CallInStep(p) == pc[p] # "idle" => UpToDate(p) /\ CopyInStep(p) /\ DecayInStep(p)

FileInStep ==
  Readable(stateFile) => \A s \in Strategies :
    /\ TellsRetirement(stateFile.health[s], registry[s])
    /\ s \notin diverted => OneCallAhead(stateFile.health[s], registry[s])

FileAgrees ==
  (\A p \in Processes : ~Unsaved(p)) =>
    \A s \in Strategies :
      Agrees(stateFile.health[s], registry[s]) \/ \E p \in Processes : Untold(p, s)

CopyAgrees(p) ==
  Unsaved(p) => \A s \in Strategies : ~Untold(p, s) => Agrees(outer[p].health[s], registry[s])

Story ==
  /\ FileInStep /\ \A p \in Processes : CallInStep(p)
  /\ crashes = 0 => FileAgrees /\ \A p \in Processes : CopyAgrees(p)

RegistryInStep == NoneEvolves /\ (~overlapped /\ syncFailures = 0 => Story)

-----------------------------------------------------------------------------
(* Who is in a call uses the state file, so nobody else is in one. *)
LEMMA Alone ==
  ASSUME TurnsTaken, NoneEvolves, ~overlapped, NEW p \in Processes, pc[p] # "idle"
  PROVE  UsesStateFile(p) /\ \A q \in Processes \ {p} : pc[q] = "idle"
  BY DEF TurnsTaken, NoneEvolves, OneAtATime, UsesStateFile, Idle

LEMMA StoryOfOne ==
  ASSUME NEW p \in Processes, \A q \in Processes \ {p} : pc'[q] = "idle",
         FileInStep', pc'[p] # "idle" => CallInStep(p)',
         crashes' = 0 => FileAgrees' /\ CopyAgrees(p)'
  PROVE  Story'
  <1>1. \A q \in Processes \ {p} : CallInStep(q)' /\ CopyAgrees(q)'
    BY DEF CallInStep, CopyAgrees, Unsaved, UsesStateFile, Idle
  <1> QED
    BY <1>1 DEF Story, CallInStep

LEMMA BeginKeepsStory ==
  ASSUME Typed, NoneEvolves, Story, NEW p \in Processes, NEW c \in Calls, BeginCall(p, c),
         ~overlapped'
  PROVE  Story'
  <1> TypeOK
    BY DEF Typed
  <1>1. /\ call' = [call EXCEPT ![p] = c] /\ c.kind # "evolve"
        /\ outer' = [outer EXCEPT ![p] = Changed(stateFile, c)]
        /\ diverted' = diverted \cup (IF c.kind \in {"drift", "retire"} THEN {c.s} ELSE {})
        /\ Readable(stateFile) /\ stateFile \in Contents
        /\ \A q \in Processes : ~UsesStateFile(q)
        /\ UNCHANGED <<stateFile, registry, crashes>>
    BY ReadableType DEF BeginCall
  <1>2. \E label \in {"sync", "decay", "outer"} :
          /\ pc' = [pc EXCEPT ![p] = label]
          /\ label = "sync" => c.kind \in {"quarantine", "recover", "retire"}
          /\ label = "decay" => c.kind = "cycle"
          /\ label = "outer" => c.kind \in {"execution", "risk", "drift"}
    BY <1>1, CallFields DEF BeginCall, Goto, CallKinds, RecordKinds
  <1>3. \A q \in Processes : pc[q] = "idle"
    BY <1>1 DEF NoneEvolves, UsesStateFile, Idle
  <1>4. /\ call'[p] = c /\ outer'[p] = Changed(stateFile, c)
        /\ pc'[p] \in {"sync", "decay", "outer"}
        /\ pc'[p] = "sync" => c.kind \in {"quarantine", "recover", "retire"}
        /\ pc'[p] = "decay" => c.kind = "cycle"
        /\ pc'[p] = "outer" => c.kind \in {"execution", "risk", "drift"}
        /\ \A q \in Processes \ {p} : pc'[q] = "idle"
    BY <1>1, <1>2, <1>3 DEF TypeOK
  <1>5. Unsaved(p)' /\ ~DecayUnsaved(p)'
    BY <1>1, <1>4 DEF Unsaved, DecayUnsaved, UsesStateFile, Idle
  <1>6. FileInStep'
    BY <1>1 DEF Story, FileInStep
  <1>7. c.kind \in HealthCalls => c.s \in Strategies
    BY CallFields
  <1>8. UpToDate(p)'
    <2>1. c.kind = "cycle" => Changed(stateFile, c).health = stateFile.health
      <3>1. c.kind = "cycle" => Changed(stateFile, c) = Append(stateFile, "cycle")
        BY DEF Changed, RecordKinds
      <3> QED
        BY <1>1, <3>1, AppendType DEF RecordKinds
    <2>2. c.kind = "drift" =>
            Changed(stateFile, c).health[c.s].status \in {"quarantined", "probationary"}
      <3> SUFFICES ASSUME c.kind = "drift"
                   PROVE  Changed(stateFile, c).health[c.s].status \in {"quarantined", "probationary"}
        OBVIOUS
      <3>1. HealthEntry(stateFile.health, c.s) \in HealthEntries
        BY <1>1, <1>7, EntryOf DEF HealthCalls
      <3>2. Changed(stateFile, c).health[c.s] = Drifted(HealthEntry(stateFile.health, c.s), c.verdict)
        BY <1>1, ChangedHealth
      <3> QED
        BY <3>1, <3>2 DEF Drifted, HealthEntries
    <2> QED
      BY <1>1, <1>4, <2>1, <2>2 DEF UpToDate, Readable
  <1>9. ASSUME NEW s \in Strategies, ~Untold(p, s)'
        PROVE  /\ outer'[p].health[s] = stateFile.health[s]
               /\ s \in CountedAfter(call[p])' => s \notin diverted
    <2>1. c.kind \in RecordKinds \/ (c.kind \in HealthCalls /\ s # c.s)
      BY <1>1, <1>4, <1>9, CallFields DEF Untold, CallKinds, HealthCalls, RecordKinds
    <2> QED
      BY <1>1, <1>4, <2>1, ChangedHealth DEF CountedAfter, RecordKinds
  <1>10. CopyInStep(p)'
    BY <1>1, <1>9 DEF CopyInStep, Story, FileInStep
  <1>11. ASSUME crashes' = 0 PROVE FileAgrees' /\ CopyAgrees(p)'
    <2>1. \A s \in Strategies : Agrees(stateFile.health[s], registry[s])
      BY <1>1, <1>3, <1>11 DEF Story, FileAgrees, Unsaved, UsesStateFile, Idle, Untold
    <2> QED
      BY <1>1, <1>5, <1>9, <2>1 DEF FileAgrees, CopyAgrees
  <1> QED
    BY <1>4, <1>5, <1>6, <1>8, <1>10, <1>11, StoryOfOne DEF CallInStep, DecayInStep

(* An entry whose status and streak a cycle leaves alone. *)
LEMMA SameStatusAhead ==
  ASSUME NEW h \in HealthEntries, NEW k \in HealthEntries, NEW r,
         k.status = h.status, k.recovery = h.recovery, OneCallAhead(h, r)
  PROVE  OneCallAhead(k, r)
  <1>1. Recovered(k).status = Recovered(h).status
    BY RecoveredStatus DEF CompletesRecovery, UnderRecovery, Needed
  <1> QED
    BY <1>1, AbsenceAssumption DEF OneCallAhead

LEMMA DecayKeepsStory ==
  ASSUME Typed, TurnsTaken, StreaksEarned, NoneEvolves, Story, NEW p \in Processes,
         ApplyRollingDecay(p), ~overlapped
  PROVE  Story'
  <1> DEFINE active == call[p].active
             retired == RetiredByDecay(stateFile, active)
  <1> TypeOK
    BY DEF Typed
  <1>1. /\ pc[p] = "decay" /\ call[p].kind = "cycle" /\ outer[p] \in Contents
        /\ Readable(stateFile) /\ stateFile \in Contents
    BY ReadableType DEF ApplyRollingDecay, Typed, Fits
  <1>2. /\ inner' = [inner EXCEPT ![p] = IF DecayIsSaved(stateFile, active)
                                         THEN WithDecay(stateFile, active) ELSE inner[p]]
        /\ retiring' = [retiring EXCEPT ![p] = retired]
        /\ pc' = [pc EXCEPT ![p] = IF retired # {} THEN "sync"
                                   ELSE IF DecayIsSaved(stateFile, active) THEN "inner" ELSE "outer"]
        /\ retired # {} => DecayIsSaved(stateFile, active)
        /\ diverted' = diverted \cup retired
        /\ UNCHANGED <<stateFile, registry, call, outer, registryCopy, crashes>>
    BY DEF ApplyRollingDecay, Goto, DecayIsSaved
  <1>3. \A s \in Strategies : s \in retired <=>
          s \notin active /\ s \in Known(stateFile) /\ RetiresByDecay(stateFile.health[s])
    BY DEF RetiredByDecay, Known
  <1>4. retired \subseteq Strategies
    BY DEF RetiredByDecay, Known
  <1> HIDE DEF active, retired
  <1>5. /\ pc'[p] \in {"sync", "inner", "outer"} /\ retiring'[p] = retired
        /\ pc'[p] = "sync" <=> retired # {}
        /\ pc'[p] # "outer" => inner'[p] = WithDecay(stateFile, active)
        /\ \A q \in Processes \ {p} : pc'[q] = pc[q]
    BY <1>2, <1>4 DEF TypeOK
  <1>6. \A q \in Processes \ {p} : pc'[q] = "idle"
    BY <1>1, <1>5, Alone
  <1>7. UsesStateFile(p) /\ Unsaved(p) /\ Unsaved(p)'
    BY <1>1, <1>2, <1>5 DEF Unsaved, UsesStateFile, Idle
  <1>8. CallInStep(p) /\ UpToDate(p) /\ CopyInStep(p) /\ FileInStep
    BY <1>1 DEF Story, CallInStep
  <1>9. FileInStep'
    BY <1>2, <1>8 DEF FileInStep
  <1>10. UpToDate(p)'
    BY <1>1, <1>2, <1>3, <1>4, <1>5, <1>8 DEF UpToDate, Known, Readable
  <1>11. \A s : ~Untold(p, s) /\ ~Untold(p, s)'
    BY <1>1, <1>2 DEF Untold, HealthCalls
  <1>12. CopyInStep(p)'
    BY <1>1, <1>2, <1>7, <1>8, <1>11 DEF CopyInStep, CountedAfter
  <1>13. ASSUME NEW s \in Strategies, DecayUnsaved(p)', ~UntoldDecay(p, s)'
         PROVE  /\ TellsRetirement(inner'[p].health[s], registry'[s])
                /\ s \notin diverted' => OneCallAhead(inner'[p].health[s], registry'[s])
    <2> DEFINE h == stateFile.health[s]
               k == WithDecay(stateFile, active).health[s]
    <2>1. s \notin retired /\ inner'[p].health[s] = k
      BY <1>1, <1>2, <1>5, <1>13 DEF UntoldDecay, DecayUnsaved
    <2>2. /\ TellsRetirement(h, registry[s])
          /\ s \notin diverted => OneCallAhead(h, registry[s]) /\ Earned(stateFile, s, approvals[s])
      BY <1>1, <1>8 DEF FileInStep, StreaksEarned
    <2>3. k = IF h = NoEntry THEN NoEntry ELSE IF s \in active THEN Refreshed(h) ELSE Decayed(h)
      BY <1>1, WithDecayHealth
    <2>4. h # NoEntry => h \in HealthEntries /\ HealthEntry(stateFile.health, s) = h
      BY <1>1, EntryOf
    <2>5. CASE h = NoEntry
      BY <1>2, <2>1, <2>3, <2>5 DEF TellsRetirement, OneCallAhead
    <2>6. CASE h # NoEntry
      <3>1. k \in HealthEntries /\ k.recovery = h.recovery
              /\ (k.status = h.status \/ (h.status = "retired" /\ k.status = "active"))
        <4>1. CASE s \in active
          BY <2>3, <2>4, <2>6, <4>1, RefreshedType DEF Refreshed, HealthEntries
        <4>2. CASE s \notin active
          <5>1. ~RetiresByDecay(h)
            BY <1>3, <2>1, <2>6, <4>2 DEF Known
          <5> QED
            BY <2>3, <2>4, <2>6, <4>2, <5>1, DecayedType DEF Decayed, HealthEntries
        <4> QED
          BY <4>1, <4>2
      <3>2. TellsRetirement(k, registry[s])
        BY <2>2, <2>6, <3>1 DEF TellsRetirement
      <3>3. s \notin diverted => h.status # "retired"
        BY <2>2, <2>4, <2>6 DEF Earned
      <3>4. s \notin diverted => OneCallAhead(k, registry[s])
        BY <2>2, <2>4, <2>6, <3>1, <3>3, SameStatusAhead
      <3> QED
        BY <1>2, <2>1, <3>2, <3>4
    <2> QED
      BY <2>5, <2>6
  <1>14. ASSUME crashes' = 0 PROVE FileAgrees' /\ CopyAgrees(p)'
    BY <1>2, <1>7, <1>11, <1>14 DEF Story, CopyAgrees, FileAgrees
  <1> QED
    BY <1>6, <1>9, <1>10, <1>12, <1>13, <1>14, StoryOfOne DEF CallInStep, DecayInStep

LEMMA LoadKeepsStory ==
  ASSUME Typed, TurnsTaken, NoneEvolves, Story, NEW p \in Processes, LoadRegistry(p), ~overlapped
  PROVE  Story'
  <1> TypeOK
    BY DEF Typed
  <1>1. /\ pc[p] = "sync" /\ pc' = [pc EXCEPT ![p] = "upsert"]
        /\ registryCopy' = [registryCopy EXCEPT ![p] = registry]
        /\ UNCHANGED <<stateFile, registry, call, outer, inner, retiring, crashes, diverted>>
    BY DEF LoadRegistry, Goto
  <1>2. /\ pc'[p] = "upsert" /\ registryCopy'[p] = registry
        /\ \A q \in Processes \ {p} : pc'[q] = pc[q]
    BY <1>1 DEF TypeOK
  <1>3. \A q \in Processes \ {p} : pc[q] = "idle"
    BY <1>1, Alone
  <1>4. /\ Unsaved(p)' <=> Unsaved(p)
        /\ DecayUnsaved(p)' <=> DecayUnsaved(p)
        /\ \A s : (Untold(p, s)' <=> Untold(p, s)) /\ (UntoldDecay(p, s)' <=> UntoldDecay(p, s))
    BY <1>1, <1>2 DEF Unsaved, DecayUnsaved, UsesStateFile, Idle, Untold, UntoldDecay
  <1>5. \A q \in Processes \ {p} : ~Unsaved(q) /\ ~Unsaved(q)' /\ \A s : ~Untold(q, s)
    BY <1>1, <1>2, <1>3 DEF Unsaved, UsesStateFile, Idle, Untold
  <1>6. CallInStep(p) /\ UpToDate(p) /\ CopyInStep(p) /\ DecayInStep(p)
    BY <1>1 DEF Story, CallInStep
  <1>7. UpToDate(p)'
    BY <1>1, <1>2, <1>6 DEF UpToDate, Known, Readable
  <1>8. CopyInStep(p)'
    BY <1>1, <1>4, <1>6 DEF CopyInStep, CountedAfter
  <1>9. DecayInStep(p)'
    BY <1>1, <1>4, <1>6 DEF DecayInStep
  <1>10. FileInStep'
    BY <1>1 DEF Story, FileInStep
  <1>11. ASSUME crashes' = 0 PROVE FileAgrees' /\ CopyAgrees(p)'
    <2>1. CopyAgrees(p) /\ FileAgrees
      BY <1>1, <1>11 DEF Story
    <2>2. CopyAgrees(p)'
      BY <1>1, <1>4, <2>1 DEF CopyAgrees
    <2>3. FileAgrees'
      BY <1>1, <1>4, <1>5, <2>1 DEF FileAgrees
    <2> QED
      BY <2>2, <2>3
  <1> QED
    BY <1>2, <1>3, <1>7, <1>8, <1>9, <1>10, <1>11, StoryOfOne DEF CallInStep

(* What an upsert by status puts into the registry. *)
LEMMA UpsertedStatus ==
  ASSUME NEW entry \in RegistryEntries \cup {Unregistered}, NEW status \in RegistryStatuses,
         NEW verdict
  PROVE  /\ UpsertStatus(entry, status).status = status
         /\ UpsertDrift(entry, verdict, status).status = status
  BY CurrentType DEF UpsertStatus, UpsertDrift, RegistryEntries

LEMMA SaveKeepsStory ==
  ASSUME Typed, TurnsTaken, NoneEvolves, Story, NEW p \in Processes, NEW s \in Strategies,
         SaveRegistry(p, s), ~overlapped
  PROVE  Story'
  <1> DEFINE c == call[p]
             r == Merged(p, s)
  <1> TypeOK
    BY DEF Typed
  <1>1. /\ pc[p] = "upsert" /\ s \in Targets(p) /\ c \in Calls /\ c.kind # "evolve"
        /\ c.kind \in HealthCalls \cup {"cycle"} /\ registryCopy[p] \in Registries
        /\ outer[p] \in Contents
        /\ c.kind \in HealthCalls => outer[p].health[c.s] \in HealthEntries
    BY CallFields DEF SaveRegistry, NoneEvolves, Typed, Fits, CallKinds, RecordKinds, HealthCalls
  <1>2. CallInStep(p) /\ UpToDate(p) /\ CopyInStep(p) /\ DecayInStep(p)
    BY <1>1 DEF Story, CallInStep
  <1>3. /\ registry' = [registry EXCEPT ![s] = r]
        /\ retiring' = [retiring EXCEPT ![p] = retiring[p] \ {s}]
        /\ pc' = [pc EXCEPT ![p] = AfterSync(p, s)]
        /\ UNCHANGED <<stateFile, call, outer, inner, crashes, diverted>>
    BY <1>1, <1>2 DEF SaveRegistry, Goto, ToldRegistry, UpToDate, TypeOK
  <1>4. r \in RegistryEntries /\ r # Unregistered /\ Readable(stateFile) /\ stateFile \in Contents
    BY <1>1, <1>2, MergedType, AbsenceAssumption, ReadableType DEF UpToDate
  <1>5. /\ registry'[s] = r /\ \A t \in Strategies \ {s} : registry'[t] = registry[t]
        /\ retiring'[p] = retiring[p] \ {s} /\ pc'[p] = AfterSync(p, s)
        /\ \A q \in Processes \ {p} : pc'[q] = pc[q]
    BY <1>3 DEF TypeOK, Registries
  <1>6. \A q \in Processes \ {p} : pc[q] = "idle"
    BY <1>1, Alone
  <1>7. /\ c.kind \in {"quarantine", "recover", "retire"} => s = c.s /\ pc'[p] = "outer"
        /\ c.kind = "drift" => s = c.s /\ pc'[p] = "append"
        /\ c.kind = "cycle" => s \in retiring[p] /\ pc'[p] \in {"inner", "sync"}
                                 /\ (pc'[p] = "inner" => retiring[p] = {s})
    BY <1>1, <1>5 DEF AfterSync, Targets, HealthCalls
  <1>8. /\ c.kind \in HealthCalls => r.status = outer[p].health[s].status
        /\ c.kind = "cycle" => r.status = "retired"
    <2>1. registryCopy[p][s] \in RegistryEntries \cup {Unregistered}
      BY <1>1 DEF Registries
    <2>2. c.kind \in HealthCalls => outer[p].health[s].status \in RegistryStatuses
      BY <1>1, <1>7 DEF HealthCalls, HealthEntries, RegistryStatuses
    <2>3. "retired" \in RegistryStatuses
      BY DEF RegistryStatuses, HealthStatuses
    <2> QED
      BY <2>1, <2>2, <2>3, UpsertedStatus DEF Merged, HealthCalls
  <1> HIDE DEF r, c
  <1>9. ASSUME NEW h, r.status = h.status
        PROVE  TellsRetirement(h, r) /\ OneCallAhead(h, r) /\ Agrees(h, r)
    BY <1>4, <1>9 DEF TellsRetirement, OneCallAhead, Agrees
  <1>10. \A t \in Strategies :
           /\ TellsRetirement(stateFile.health[t], registry[t])
           /\ t \notin diverted => OneCallAhead(stateFile.health[t], registry[t])
    BY <1>4 DEF Story, FileInStep
  <1>11. CASE c.kind \in {"quarantine", "recover", "retire"}
    <2>1. outer[p] = Changed(stateFile, c) /\ s = c.s /\ pc'[p] = "outer"
          /\ r.status = outer[p].health[s].status
      BY <1>1, <1>2, <1>7, <1>8, <1>11 DEF UpToDate, c, HealthCalls
    <2> DEFINE h == stateFile.health[s]
    <2>2. /\ TellsRetirement(h, r)
          /\ s \notin diverted => OneCallAhead(h, r)
      <3>1. CASE h = NoEntry
        BY <3>1 DEF TellsRetirement, OneCallAhead
      <3>2. CASE h # NoEntry
        <4>1. h \in HealthEntries /\ HealthEntry(stateFile.health, s) = h
          BY <1>4, <3>2, EntryOf
        <4>2. c.kind = "quarantine" => r.status = "quarantined"
          BY <1>1, <1>4, <2>1, <4>1, ChangedHealth, QuarantinedType
        <4>3. c.kind = "recover" => r.status = Recovered(h).status
          BY <1>1, <1>4, <2>1, <4>1, ChangedHealth
        <4>4. c.kind = "retire" => r.status = "retired" /\ s \in diverted
          <5>1. RetiredEntry(h).status = "retired"
            BY <4>1 DEF RetiredEntry, HealthEntries
          <5> QED
            BY <1>1, <1>2, <1>4, <2>1, <4>1, <5>1, ChangedHealth DEF UpToDate, c
        <4>5. h.status = "retired" => Recovered(h).status = "retired"
          BY <4>1, RecoveredStatus DEF CompletesRecovery, UnderRecovery
        <4> QED
          BY <1>4, <1>11, <4>2, <4>3, <4>4, <4>5 DEF TellsRetirement, OneCallAhead
      <3> QED
        BY <3>1, <3>2
    <2>3. FileInStep'
      BY <1>3, <1>5, <1>10, <2>2 DEF FileInStep
    <2>4. Unsaved(p) /\ Unsaved(p)' /\ ~DecayUnsaved(p)'
      BY <1>1, <1>3, <1>11, <2>1 DEF Unsaved, DecayUnsaved, UsesStateFile, Idle, c
    <2>5. \A t \in Strategies \ {s} : ~Untold(p, t)
      BY <2>1 DEF Untold, c
    <2>6. CopyInStep(p)'
      <3>1. \A t \in Strategies \ {s} :
              /\ TellsRetirement(outer[p].health[t], registry[t])
              /\ t \in CountedAfter(call[p]) => OneCallAhead(outer[p].health[t], registry[t])
        BY <1>2, <2>4, <2>5 DEF CopyInStep
      <3>2. CountedAfter(call[p])' = CountedAfter(call[p])
        BY <1>3 DEF CountedAfter
      <3> QED
        BY <1>3, <1>5, <1>9, <2>1, <3>1, <3>2 DEF CopyInStep
    <2>7. UpToDate(p)'
      BY <1>2, <1>3, <1>11, <2>1 DEF UpToDate, c
    <2>8. ASSUME crashes' = 0 PROVE FileAgrees' /\ CopyAgrees(p)'
      <3>1. \A t \in Strategies \ {s} : Agrees(outer[p].health[t], registry[t])
        BY <1>3, <2>4, <2>5, <2>8 DEF Story, CopyAgrees
      <3> QED
        BY <1>3, <1>5, <1>9, <2>1, <2>4, <3>1 DEF FileAgrees, CopyAgrees
    <2> QED
      BY <1>5, <1>6, <2>3, <2>4, <2>6, <2>7, <2>8, StoryOfOne DEF CallInStep, DecayInStep
  <1>12. CASE c.kind = "drift"
    <2>1. outer[p] = stateFile /\ s = c.s /\ pc'[p] = "append" /\ s \in diverted
          /\ r.status = stateFile.health[s].status
          /\ stateFile.health[s].status \in {"quarantined", "probationary"}
      BY <1>1, <1>2, <1>7, <1>8, <1>12 DEF UpToDate, c, HealthCalls
    <2>2. FileInStep'
      BY <1>3, <1>5, <1>9, <1>10, <2>1 DEF FileInStep
    <2>3. ~Unsaved(p) /\ ~Unsaved(p)' /\ ~DecayUnsaved(p)'
      BY <1>1, <1>3, <1>12, <2>1 DEF Unsaved, DecayUnsaved, c
    <2>4. UpToDate(p)'
      BY <1>2, <1>3, <1>12, <2>1 DEF UpToDate, c
    <2>5. ASSUME crashes' = 0 PROVE FileAgrees' /\ CopyAgrees(p)'
      <3>1. \A q \in Processes : ~Unsaved(q)
        BY <1>6, <2>3 DEF Unsaved, UsesStateFile, Idle
      <3>2. \A t \in Strategies \ {s} : ~\E q \in Processes : Untold(q, t)
        BY <1>6, <2>1 DEF Untold, c
      <3>3. \A t \in Strategies \ {s} : Agrees(stateFile.health[t], registry[t])
        BY <1>3, <2>5, <3>1, <3>2 DEF Story, FileAgrees
      <3>4. \A t \in Strategies : Agrees(stateFile.health[t], registry'[t])
        BY <1>5, <1>9, <2>1, <3>3
      <3> QED
        BY <1>3, <2>3, <3>4 DEF FileAgrees, CopyAgrees
    <2> QED
      BY <1>5, <1>6, <2>2, <2>3, <2>4, <2>5, StoryOfOne DEF CallInStep, DecayInStep, CopyInStep
  <1>13. CASE c.kind = "cycle"
    <2>1. /\ s \in retiring[p] /\ s \in diverted /\ r.status = "retired"
          /\ outer[p].health = stateFile.health
          /\ s \in Known(stateFile) /\ RetiresByDecay(stateFile.health[s])
          /\ pc'[p] \in {"inner", "sync"} /\ (pc'[p] = "inner" => retiring[p] = {s})
      BY <1>1, <1>2, <1>7, <1>8, <1>13 DEF UpToDate, c
    <2>2. \A h : TellsRetirement(h, r)
      BY <1>4, <2>1 DEF TellsRetirement
    <2>3. FileInStep'
      BY <1>3, <1>5, <1>10, <2>1, <2>2 DEF FileInStep
    <2>4. /\ Unsaved(p) /\ Unsaved(p)' /\ DecayUnsaved(p)
          /\ \A t : ~Untold(p, t) /\ ~Untold(p, t)'
      BY <1>1, <1>3, <1>13, <2>1 DEF Unsaved, DecayUnsaved, UsesStateFile, Idle, Untold, c, HealthCalls
    <2>5. UpToDate(p)'
      BY <1>2, <1>1, <1>3, <1>5, <1>13, <2>1 DEF UpToDate, c, Known, Readable
    <2>6. CopyInStep(p)'
      <3>1. \A t \in Strategies :
              /\ TellsRetirement(outer[p].health[t], registry[t])
              /\ t \in CountedAfter(call[p]) => OneCallAhead(outer[p].health[t], registry[t])
        BY <1>2, <2>4 DEF CopyInStep
      <3>2. CountedAfter(call[p])' = CountedAfter(call[p]) /\ s \notin CountedAfter(call[p])
        BY <1>3, <1>13, <2>1 DEF CountedAfter, c
      <3> QED
        BY <1>3, <1>5, <2>2, <3>1, <3>2 DEF CopyInStep
    <2>7. DecayInStep(p)'
      <3>1. ASSUME NEW t \in Strategies \ {s}, ~UntoldDecay(p, t)' PROVE ~UntoldDecay(p, t)
        BY <1>1, <1>3, <1>5, <1>13, <2>1, <3>1 DEF UntoldDecay, c
      <3>2. \A t \in Strategies \ {s} : ~UntoldDecay(p, t)' =>
              /\ TellsRetirement(inner[p].health[t], registry[t])
              /\ t \notin diverted => OneCallAhead(inner[p].health[t], registry[t])
        BY <1>2, <2>4, <3>1 DEF DecayInStep
      <3> QED
        BY <1>3, <1>5, <2>1, <2>2, <3>2 DEF DecayInStep
    <2>8. ASSUME crashes' = 0 PROVE FileAgrees' /\ CopyAgrees(p)'
      <3>1. \A t \in Strategies : Agrees(outer[p].health[t], registry[t])
        BY <1>3, <2>4, <2>8 DEF Story, CopyAgrees
      <3>2. Agrees(outer[p].health[s], r)
        BY <1>4, <2>1 DEF Agrees
      <3> QED
        BY <1>3, <1>5, <2>4, <3>1, <3>2 DEF FileAgrees, CopyAgrees
    <2> QED
      BY <1>5, <1>6, <2>3, <2>5, <2>6, <2>7, <2>8, StoryOfOne DEF CallInStep
  <1> QED
    BY <1>1, <1>11, <1>12, <1>13 DEF HealthCalls

LEMMA TruncateKeepsStory ==
  ASSUME Typed, TurnsTaken, NoneEvolves, Story, NEW p \in Processes, Truncate(p), ~overlapped
  PROVE  Story'
  <1> TypeOK
    BY DEF Typed
  <1>1. /\ \/ pc[p] = "inner" /\ pc' = [pc EXCEPT ![p] = "innerWrite"]
           \/ pc[p] = "outer" /\ pc' = [pc EXCEPT ![p] = "outerWrite"]
        /\ stateFile' = Empty
        /\ UNCHANGED <<registry, call, outer, inner, crashes, diverted>>
    BY DEF Truncate, Goto, local, history
  <1>2. /\ \/ pc[p] = "inner" /\ pc'[p] = "innerWrite" /\ call[p].kind = "cycle"
           \/ pc[p] = "outer" /\ pc'[p] = "outerWrite"
        /\ call[p].kind # "evolve"
        /\ \A q \in Processes \ {p} : pc'[q] = pc[q]
    BY <1>1 DEF TypeOK, Typed, Fits, NoneEvolves
  <1>3. \A q \in Processes \ {p} : pc[q] = "idle"
    BY <1>2, Alone
  <1>4. /\ Unsaved(p) /\ Unsaved(p)'
        /\ DecayUnsaved(p)' => DecayUnsaved(p)
        /\ \A t : (Untold(p, t)' <=> Untold(p, t)) /\ ~UntoldDecay(p, t)
    BY <1>1, <1>2 DEF Unsaved, DecayUnsaved, UsesStateFile, Idle, Untold, UntoldDecay
  <1>5. UpToDate(p) /\ CopyInStep(p) /\ DecayInStep(p)
    BY <1>2 DEF Story, CallInStep
  <1>6. UpToDate(p)'
    BY <1>1, <1>2, <1>5 DEF UpToDate
  <1>7. CopyInStep(p)'
    BY <1>1, <1>4, <1>5 DEF CopyInStep, CountedAfter
  <1>8. DecayInStep(p)'
    BY <1>1, <1>4, <1>5 DEF DecayInStep
  <1>9. FileInStep'
    BY <1>1 DEF FileInStep, Readable
  <1>10. ASSUME crashes' = 0 PROVE FileAgrees' /\ CopyAgrees(p)'
    BY <1>1, <1>4, <1>10 DEF Story, FileAgrees, CopyAgrees
  <1> QED
    BY <1>2, <1>3, <1>6, <1>7, <1>8, <1>9, <1>10, StoryOfOne DEF CallInStep

LEMMA WriteDecayKeepsStory ==
  ASSUME Typed, TurnsTaken, NoneEvolves, Story, NEW p \in Processes, WriteDecay(p), ~overlapped
  PROVE  Story'
  <1> TypeOK
    BY DEF Typed
  <1>1. /\ pc[p] = "innerWrite" /\ pc' = [pc EXCEPT ![p] = "outer"]
        /\ stateFile' \in WriteOutcomes(inner[p])
        /\ UNCHANGED <<registry, call, outer, crashes, diverted>>
    BY DEF WriteDecay, Goto, history
  <1>2. inner[p] \in Contents /\ call[p].kind = "cycle"
    BY <1>1 DEF Typed, Fits
  <1>3. stateFile' = inner[p]
    BY <1>1, <1>2, WriteEnds DEF WriteLabels
  <1>4. pc'[p] = "outer" /\ \A q \in Processes \ {p} : pc'[q] = pc[q]
    BY <1>1 DEF TypeOK
  <1>5. \A q \in Processes \ {p} : pc[q] = "idle"
    BY <1>1, Alone
  <1>6. /\ Unsaved(p) /\ Unsaved(p)' /\ DecayUnsaved(p) /\ ~DecayUnsaved(p)'
        /\ \A t : ~Untold(p, t) /\ ~Untold(p, t)' /\ ~UntoldDecay(p, t)
    BY <1>1, <1>2, <1>4 DEF Unsaved, DecayUnsaved, UsesStateFile, Idle, Untold, UntoldDecay, HealthCalls
  <1>7. UpToDate(p) /\ CopyInStep(p) /\ DecayInStep(p)
    BY <1>1 DEF Story, CallInStep
  <1>8. UpToDate(p)'
    BY <1>1, <1>2, <1>4, <1>7 DEF UpToDate
  <1>9. CopyInStep(p)'
    BY <1>1, <1>6, <1>7 DEF CopyInStep, CountedAfter
  <1>10. FileInStep'
    BY <1>1, <1>3, <1>6, <1>7 DEF FileInStep, DecayInStep
  <1>11. ASSUME crashes' = 0 PROVE FileAgrees' /\ CopyAgrees(p)'
    BY <1>1, <1>6, <1>11 DEF Story, FileAgrees, CopyAgrees
  <1> QED
    BY <1>4, <1>5, <1>6, <1>8, <1>9, <1>10, <1>11, StoryOfOne DEF CallInStep, DecayInStep

LEMMA WriteStateKeepsStory ==
  ASSUME Typed, TurnsTaken, NoneEvolves, Story, NEW p \in Processes, WriteState(p), ~overlapped
  PROVE  Story'
  <1> DEFINE c == call[p]
  <1> TypeOK
    BY DEF Typed
  <1>1. /\ pc[p] = "outerWrite"
        /\ pc' = [pc EXCEPT ![p] = IF c.kind = "drift" THEN "sync" ELSE "idle"]
        /\ stateFile' \in WriteOutcomes(outer[p])
        /\ call' = [call EXCEPT ![p] = IF c.kind = "drift" THEN c ELSE Nothing]
        /\ outer' = [outer EXCEPT ![p] = IF c.kind = "drift" THEN outer[p] ELSE Nothing]
        /\ diverted' = diverted \ (IF c.kind = "quarantine" THEN {c.s} ELSE {})
        /\ UNCHANGED <<registry, crashes>>
    BY DEF WriteState, Goto
  <1>2. outer[p] \in Contents /\ c \in Calls /\ c.kind # "evolve"
    BY <1>1 DEF Typed, Fits, NoneEvolves
  <1>3. stateFile' = outer[p] /\ Readable(stateFile')
    BY <1>1, <1>2, WriteEnds DEF WriteLabels
  <1>4. /\ pc'[p] = (IF c.kind = "drift" THEN "sync" ELSE "idle")
        /\ c.kind = "drift" => call'[p] = c /\ outer'[p] = outer[p]
        /\ \A q \in Processes \ {p} : pc'[q] = pc[q]
    BY <1>1 DEF TypeOK
  <1>5. \A q \in Processes \ {p} : pc[q] = "idle"
    BY <1>1, Alone
  <1>6. /\ Unsaved(p) /\ ~Unsaved(p)' /\ ~DecayUnsaved(p)'
        /\ \A t : Untold(p, t) => c.kind = "drift" /\ t = c.s
        /\ \A t : Untold(p, t) => Untold(p, t)'
    BY <1>1, <1>2, <1>4 DEF Unsaved, DecayUnsaved, UsesStateFile, Idle, Untold
  <1>7. UpToDate(p) /\ CopyInStep(p)
    BY <1>1 DEF Story, CallInStep
  <1>8. Strategies \ diverted' = CountedAfter(c) \cap Strategies
    BY <1>1 DEF CountedAfter
  <1>9. pc'[p] # "idle" => UpToDate(p)'
    BY <1>1, <1>3, <1>4, <1>7 DEF UpToDate
  <1>10. FileInStep'
    <2> SUFFICES ASSUME NEW t \in Strategies
                 PROVE  /\ TellsRetirement(outer[p].health[t], registry[t])
                        /\ t \notin diverted' => OneCallAhead(outer[p].health[t], registry[t])
      BY <1>1, <1>3 DEF FileInStep
    <2>1. CASE ~Untold(p, t)
      BY <1>6, <1>7, <1>8, <2>1 DEF CopyInStep
    <2>2. CASE Untold(p, t)
      <3>1. c.kind = "drift" /\ t = c.s
        BY <1>6, <2>2
      <3>2. t \in diverted' /\ outer[p].health[t].status \in {"quarantined", "probationary"}
        BY <1>1, <1>7, <3>1 DEF UpToDate
      <3> QED
        BY <3>2 DEF TellsRetirement
    <2> QED
      BY <2>1, <2>2
  <1>11. ASSUME crashes' = 0 PROVE FileAgrees' /\ CopyAgrees(p)'
    <2>1. \A t \in Strategies : Untold(p, t) \/ Agrees(outer[p].health[t], registry[t])
      BY <1>1, <1>6, <1>11 DEF Story, CopyAgrees
    <2>2. FileAgrees'
      BY <1>1, <1>3, <1>6, <2>1 DEF FileAgrees
    <2> QED
      BY <1>6, <2>2 DEF CopyAgrees
  <1> QED
    BY <1>4, <1>5, <1>6, <1>9, <1>10, <1>11, StoryOfOne DEF CallInStep, DecayInStep, CopyInStep

LEMMA AppendKeepsStory ==
  ASSUME Typed, TurnsTaken, NoneEvolves, Story, NEW p \in Processes, AppendDriftEvent(p),
         ~overlapped
  PROVE  Story'
  <1> DEFINE event == [kind |-> "risk"]
  <1> TypeOK
    BY DEF Typed
  <1>1. /\ pc[p] = "append" /\ pc' = [pc EXCEPT ![p] = "outer"]
        /\ call' = [call EXCEPT ![p] = event]
        /\ outer' = [outer EXCEPT ![p] = Append(stateFile, "risk")]
        /\ call[p].kind = "drift"
        /\ UNCHANGED <<stateFile, registry, crashes, diverted>>
        /\ Readable(stateFile) /\ stateFile \in Contents
    BY ReadableType DEF AppendDriftEvent, Goto, history, Typed, Fits
  <1>2. /\ pc'[p] = "outer" /\ call'[p] = event /\ outer'[p] = Append(stateFile, "risk")
        /\ \A q \in Processes \ {p} : pc'[q] = pc[q]
    BY <1>1 DEF TypeOK
  <1>3. \A q \in Processes \ {p} : pc[q] = "idle"
    BY <1>1, Alone
  <1>4. outer'[p].health = stateFile.health
    BY <1>1, <1>2, AppendType DEF RecordKinds
  <1>5. /\ Unsaved(p)' /\ ~DecayUnsaved(p)' /\ \A q \in Processes : ~Unsaved(q)
        /\ \A q \in Processes : \A t : ~Untold(q, t)
    BY <1>1, <1>2, <1>3 DEF Unsaved, DecayUnsaved, UsesStateFile, Idle, Untold
  <1>6. UpToDate(p)'
    BY <1>2 DEF UpToDate
  <1>7. FileInStep /\ FileInStep'
    BY <1>1 DEF Story, FileInStep
  <1>8. CountedAfter(call[p])' = Strategies \ diverted
    BY <1>1, <1>2 DEF CountedAfter
  <1>9. CopyInStep(p)'
    BY <1>1, <1>4, <1>7, <1>8 DEF CopyInStep, FileInStep
  <1>10. ASSUME crashes' = 0 PROVE FileAgrees' /\ CopyAgrees(p)'
    <2>1. \A t \in Strategies : Agrees(stateFile.health[t], registry[t])
      BY <1>1, <1>5, <1>10 DEF Story, FileAgrees
    <2> QED
      BY <1>1, <1>4, <1>5, <2>1 DEF FileAgrees, CopyAgrees
  <1> QED
    BY <1>2, <1>3, <1>5, <1>6, <1>7, <1>9, <1>10, StoryOfOne DEF CallInStep, DecayInStep

LEMMA AbandonKeepsStory ==
  ASSUME Typed, TurnsTaken, NoneEvolves, Story, NEW p \in Processes, LoadFails(p) \/ Crash(p),
         ~overlapped
  PROVE  Story'
  <1> TypeOK
    BY DEF Typed
  <1>1. /\ pc[p] # "idle" /\ pc' = [pc EXCEPT ![p] = "idle"]
        /\ UNCHANGED <<stateFile, registry, diverted>>
    BY DEF LoadFails, Crash, Abandon, Goto, Idle, history
  <1>2. pc'[p] = "idle" /\ \A q \in Processes \ {p} : pc'[q] = pc[q]
    BY <1>1 DEF TypeOK
  <1>3. \A q \in Processes \ {p} : pc[q] = "idle"
    BY <1>1, Alone
  <1>4. crashes' # 0
    <2>1. CASE Crash(p)
      BY <2>1 DEF Crash, TypeOK
    <2>2. CASE LoadFails(p)
      <3>1. pc[p] \in {"decay", "append"} /\ ~Readable(stateFile) /\ crashes' = crashes
        BY <2>2 DEF LoadFails, Abandon
      <3>2. \A q \in Processes : pc[q] \notin WriteLabels
        BY <1>3, <3>1 DEF WriteLabels
      <3> QED
        BY <3>1, <3>2 DEF TurnsTaken, ReadableExceptInWrites
    <2> QED
      BY <2>1, <2>2
  <1>5. FileInStep'
    BY <1>1 DEF Story, FileInStep
  <1> QED
    BY <1>2, <1>3, <1>4, <1>5, StoryOfOne

LEMMA NoneBegins ==
  ASSUME NobodyEvolves, Typed, NoneEvolves, [Next]_vars
  PROVE  NoneEvolves'
  <1> USE DEF local, appends, history
  <1> TypeOK
    BY DEF Typed
  <1>1. ASSUME NEW p \in Processes, \A q \in Processes \ {p} : pc'[q] = pc[q] /\ call'[q] = call[q],
               pc'[p] # "idle" => call'[p].kind # "evolve"
        PROVE  NoneEvolves'
    BY <1>1 DEF NoneEvolves
  <1>2. ASSUME NEW p \in Processes, NEW c \in Calls, BeginCall(p, c) PROVE NoneEvolves'
    BY <1>1, <1>2 DEF BeginCall, Goto, TypeOK
  <1>3. ASSUME NEW p \in Processes, NEW c \in Calls, BeginEvolve(p, c) PROVE NoneEvolves'
    BY <1>3 DEF BeginEvolve, NobodyEvolves
  <1>4. ASSUME NEW p \in Processes,
               \/ ApplyRollingDecay(p) \/ LoadRegistry(p) \/ Truncate(p) \/ WriteDecay(p)
               \/ \E s \in Strategies : SyncFails(p, s)
        PROVE  NoneEvolves'
    <2>1. /\ pc[p] # "idle" /\ UNCHANGED call
          /\ \A q \in Processes \ {p} : pc'[q] = pc[q]
      BY <1>4 DEF ApplyRollingDecay, LoadRegistry, Truncate, WriteDecay, SyncFails, Goto, TypeOK
    <2> QED
      BY <1>1, <2>1 DEF NoneEvolves
  <1>5. ASSUME NEW p \in Processes, NEW s \in Strategies, SaveRegistry(p, s) PROVE NoneEvolves'
    <2>1. /\ pc[p] # "idle" /\ call[p].kind # "evolve"
      BY <1>5 DEF SaveRegistry, NoneEvolves
    <2> QED
      BY <1>1, <1>5, <2>1 DEF SaveRegistry, Goto, TypeOK
  <1>6. ASSUME NEW p \in Processes, WriteState(p) PROVE NoneEvolves'
    BY <1>1, <1>6 DEF WriteState, Goto, TypeOK
  <1>7. ASSUME NEW p \in Processes, AppendDriftEvent(p) PROVE NoneEvolves'
    BY <1>1, <1>7 DEF AppendDriftEvent, Goto, TypeOK
  <1>8. ASSUME NEW p \in Processes, UpsertFails(p) \/ LoadFails(p) \/ Crash(p) PROVE NoneEvolves'
    BY <1>1, <1>8 DEF UpsertFails, LoadFails, Crash, Abandon, Goto, TypeOK
  <1>9. CASE UNCHANGED vars
    BY <1>9 DEF vars, NoneEvolves
  <1> QED
    BY <1>2, <1>3, <1>4, <1>5, <1>6, <1>7, <1>8, <1>9 DEF Next, Step

LEMMA NextInStep ==
  ASSUME NobodyEvolves, Typed, TurnsTaken, StreaksEarned, RegistryInStep, [Next]_vars
  PROVE  RegistryInStep'
  <1> NoneEvolves /\ NoneEvolves'
    BY NoneBegins DEF RegistryInStep
  <1> SUFFICES ASSUME ~overlapped', syncFailures' = 0 PROVE Story'
    BY DEF RegistryInStep
  <1> USE DEF history, local
  <1> TypeOK
    BY DEF Typed
  <1>1. CASE UNCHANGED vars
    <2>1. Story
      BY <1>1 DEF vars, RegistryInStep
    <2> QED
      BY <1>1, <2>1
      DEF vars, Story, FileInStep, CallInStep, UpToDate, CopyInStep, DecayInStep, FileAgrees,
          CopyAgrees, Untold, UntoldDecay, Unsaved, DecayUnsaved, UsesStateFile, Idle, Readable,
          CountedAfter, Known
  <1>2. ASSUME NEW p \in Processes, Step(p) PROVE Story'
    <2>1. ~overlapped
      BY <1>2
      DEF Step, BeginCall, BeginEvolve, ApplyRollingDecay, LoadRegistry, SaveRegistry, SyncFails,
          UpsertFails, Truncate, WriteDecay, WriteState, AppendDriftEvent, LoadFails, Crash, Abandon
    <2>2. syncFailures = 0 /\ ~UpsertFails(p) /\ \A s \in Strategies : ~SyncFails(p, s)
      BY <1>2
      DEF Step, BeginCall, BeginEvolve, ApplyRollingDecay, LoadRegistry, SaveRegistry, SyncFails,
          UpsertFails, Truncate, WriteDecay, WriteState, AppendDriftEvent, LoadFails, Crash, Abandon,
          TypeOK
    <2>3. Story
      BY <2>1, <2>2 DEF RegistryInStep
    <2>4. \A c \in Calls : ~BeginEvolve(p, c)
      BY DEF BeginEvolve, NobodyEvolves
    <2>5. ASSUME NEW c \in Calls, BeginCall(p, c) PROVE Story'
      BY <2>3, <2>5, BeginKeepsStory
    <2>6. CASE ApplyRollingDecay(p)
      BY <2>1, <2>3, <2>6, DecayKeepsStory
    <2>7. CASE LoadRegistry(p)
      BY <2>1, <2>3, <2>7, LoadKeepsStory
    <2>8. ASSUME NEW s \in Strategies, SaveRegistry(p, s) PROVE Story'
      BY <2>1, <2>3, <2>8, SaveKeepsStory
    <2>9. CASE Truncate(p)
      BY <2>1, <2>3, <2>9, TruncateKeepsStory
    <2>10. CASE WriteDecay(p)
      BY <2>1, <2>3, <2>10, WriteDecayKeepsStory
    <2>11. CASE WriteState(p)
      BY <2>1, <2>3, <2>11, WriteStateKeepsStory
    <2>12. CASE AppendDriftEvent(p)
      BY <2>1, <2>3, <2>12, AppendKeepsStory
    <2>13. CASE LoadFails(p) \/ Crash(p)
      BY <2>1, <2>3, <2>13, AbandonKeepsStory
    <2> QED
      BY <1>2, <2>2, <2>4, <2>5, <2>6, <2>7, <2>8, <2>9, <2>10, <2>11, <2>12, <2>13 DEF Step
  <1> QED
    BY <1>1, <1>2 DEF Next

LEMMA InitInStep == Init => RegistryInStep
  <1> SUFFICES ASSUME Init PROVE RegistryInStep
    OBVIOUS
  <1>1. \A p \in Processes : pc[p] = "idle"
    BY DEF Init
  <1>2. \A s \in Strategies : stateFile.health[s] = NoEntry
    BY DEF Init, DefaultContents
  <1> QED
    BY <1>1, <1>2
    DEF RegistryInStep, NoneEvolves, Story, FileInStep, CallInStep, FileAgrees, CopyAgrees,
        Unsaved, UsesStateFile, Idle, TellsRetirement, OneCallAhead, Agrees

LEMMA RegistryKeepsStep ==
  ASSUME NobodyEvolves
  PROVE  Spec => [](Typed /\ StreaksEarned /\ RegistryInStep)
  <1>1. Typed /\ TurnsTaken /\ StreaksEarned /\ RegistryInStep /\ [Next]_vars => RegistryInStep'
    BY NextInStep
  <1>2. Typed /\ TurnsTaken /\ StreaksEarned /\ RegistryInStep /\ [Next]_vars
          => (Typed /\ TurnsTaken /\ StreaksEarned /\ RegistryInStep)'
    BY <1>1, NextTyped, NextTurnsTaken, NextStreaks
  <1>3. Init => Typed /\ TurnsTaken /\ StreaksEarned /\ RegistryInStep
    BY InitTyped, InitTurnsTaken, InitStreaks, InitInStep
  <1> QED
    BY <1>2, <1>3, PTL DEF Spec

(* The registry is at most one call ahead of the health entries, within a  *)
(* call and across crashes, and agrees with them between uncrashed calls   *)
(* but for a decay that append_cycle has overwritten: the order of         *)
(* _sync_registry_status and save_state in ver9/state.py and ver9/risk.py. *)
(* Nobody evolves: auto_promote writes statuses of its own.                *)
THEOREM RegistryKeepsUp ==
  ASSUME NobodyEvolves
  PROVE  Spec => []RegistryFollowsHealth
  <1>1. Typed /\ RegistryInStep => RegistryFollowsHealth
    <2> SUFFICES ASSUME Typed, RegistryInStep PROVE RegistryFollowsHealth
      OBVIOUS
    <2>1. ASSUME Serial, syncFailures = 0, NEW s \in Known(stateFile) \ diverted
          PROVE  /\ registry[s] # Unregistered
                 /\ registry[s].status \in {stateFile.health[s].status, "quarantined",
                                            Recovered(stateFile.health[s]).status}
      BY <2>1 DEF Serial, RegistryInStep, Story, FileInStep, OneCallAhead, Known
    <2>2. ASSUME Serial, AllIdle, crashes = 0, syncFailures = 0, NEW s \in Known(stateFile)
          PROVE  \/ registry[s].status = stateFile.health[s].status
                 \/ registry[s].status = "retired" /\ RetiresByDecay(stateFile.health[s])
      BY <2>2
      DEF Serial, AllIdle, Idle, RegistryInStep, Story, FileAgrees, Unsaved, UsesStateFile, Untold,
          Agrees, Known
    <2> QED
      BY <2>1, <2>2 DEF RegistryFollowsHealth, RegistryAtMostOneCallAhead, AgreementAtRest
  <1> QED
    BY <1>1, RegistryKeepsStep, PTL

(* A strategy the state file calls retired is retired or quarantined in    *)
(* the registry, from which the daemon selects: retire_strategy and        *)
(* apply_rolling_decay of ver9/state.py.  Nobody evolves.                  *)
THEOREM RetirementIsTold ==
  ASSUME NobodyEvolves
  PROVE  Spec => []RetirementReachesRegistry
  <1>1. Typed /\ RegistryInStep => RetirementReachesRegistry
    BY DEF RetirementReachesRegistry, Serial, RegistryInStep, Story, FileInStep, TellsRetirement, Known
  <1> QED
    BY <1>1, RegistryKeepsStep, PTL
=============================================================================
