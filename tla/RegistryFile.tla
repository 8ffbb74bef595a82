----------------------------- MODULE RegistryFile -----------------------------
(***************************************************************************)
(* What a load of ver9/registry.py makes of the file it finds, and when it *)
(* writes it back.  Every load migrates old records, and saves the result  *)
(* if the migration reports a change or the file once had trailing data;   *)
(* REGISTRY_LOCK keeps the threads of one process apart, nothing keeps two *)
(* processes apart.  RuntimeStore has the upserts of a sound registry.     *)
(***************************************************************************)
EXTENDS Naturals, FiniteSets

CONSTANTS
  Names,          \* keys of the registry
  NormalName,     \* _normalize_strategy_id: "x_adaptive_3" becomes "x_3"
  Processes,      \* programs that use the registry
  StartFiles,     \* the files they may find
  MaxCalls        \* bound: calls of upsert_candidate and of the readers

(* A record that is no object; one without strategy_id; one of regime      *)
(* adaptive last updated 21 days ago, its family known to                  *)
(* REGIME_BY_FAMILY (old) or not (stale); one without a default field or a *)
(* status (bare); one that normalization leaves alone.                     *)
Kinds == {"unsafe", "incomplete", "old", "stale", "bare", "sound"}

Nothing == [kind |-> "none"]
Records == [kind : Kinds, retired : BOOLEAN, marks : SUBSET (1 .. MaxCalls)]

(* json: an object; trailing: an object and more; broken: anything else    *)
Forms == {"absent", "json", "trailing", "broken"}

Contents ==
  [form : Forms, recovered : BOOLEAN, entries : [Names -> Records \cup {Nothing}],
   quarantined : SUBSET Names]

ASSUME RegistryAssumption ==
  /\ NormalName \in [Names -> Names]
  /\ \A n \in Names : NormalName[NormalName[n]] = NormalName[n]
  /\ MaxCalls \in Nat
  /\ StartFiles \subseteq Contents

VARIABLES
  registryFile,
  held,         \* the registry a process has in memory
  doing,        \* its call: the name it upserts, or a reader
  stage,        \* idle, or before the save of the load or of the upsert
  outdated,     \* history: another process has saved since it read
  calls,        \* counter for MaxCalls
  completed,    \* history: the upserts that have returned
  saved,        \* history: somebody has saved
  clobbers      \* history: the stages at which an outdated copy was saved

registryVars ==
  <<registryFile, held, doing, stage, outdated, calls, completed, saved, clobbers>>

Reader == "reader"

DefaultState ==
  [form |-> "json", recovered |-> FALSE, entries |-> [n \in Names |-> Nothing],
   quarantined |-> {}]

-----------------------------------------------------------------------------
Recoverable(e) == e.kind \notin {"none", "unsafe", "incomplete"}

(* _normalize_record *)
Normalized(e) ==
  CASE e.kind = "old"   -> [e EXCEPT !.kind = "sound", !.retired = TRUE]
    [] e.kind = "stale" -> [e EXCEPT !.retired = TRUE]
    [] e.kind = "bare"  -> [e EXCEPT !.kind = "sound"]
    [] OTHER            -> e

(* The keys whose record moves to n.  They sort after n ("_adaptive_3"     *)
(* after "_3"), so what they hold replaces what n holds.                   *)
MovedTo(n, entries) ==
  {m \in Names \ {n} : NormalName[m] = n /\ Recoverable(entries[m])}

MovedEntry(n, entries) == entries[CHOOSE m \in MovedTo(n, entries) : TRUE]

(* _migrate_legacy_entries: the entries it leaves ... *)
Migrated(entries) ==
  [n \in Names |->
     IF MovedTo(n, entries) # {} THEN Normalized(MovedEntry(n, entries))
     ELSE CASE entries[n].kind \in {"none", "unsafe"} -> Nothing
            [] entries[n].kind = "incomplete" -> entries[n]
            [] OTHER -> IF NormalName[n] = n THEN Normalized(entries[n]) ELSE Nothing]

(* Faulty: the quarantine is keyed by the records. *)
QuarantinedRecords(entries) == {entries[n] : n \in {m \in Names : entries[m].kind = "unsafe"}}

(* ... what it puts in quarantine ... *)
Quarantined(entries) == {n \in Names : entries[n].kind \in {"unsafe", "incomplete"}}

(* Faulty: a sound record is rewritten too. *)
AlwaysChanged(entries) == \E n \in Names : entries[n] # Nothing

(* ... and whether it reports a change: for an incomplete record, and for  *)
(* a stale one, whose retired_at is set to now, at every load.             *)
Changed(entries) ==
  \E n \in Names :
    /\ entries[n] # Nothing
    /\ \/ entries[n].kind # "sound"
       \/ NormalName[n] # n

(* load_registry: what it returns ... *)
Loaded(f) ==
  CASE f.form \in {"absent", "broken"} -> DefaultState
    [] OTHER ->
       [form |-> "json", recovered |-> f.recovered \/ f.form = "trailing",
        entries |-> Migrated(f.entries),
        quarantined |-> f.quarantined \cup Quarantined(f.entries)]

(* ... and whether it saves that.  Nothing ever takes back the mark of a   *)
(* recovered file.                                                         *)
LoadSaves(f) ==
  \/ f.form \in {"trailing", "broken"}
  \/ f.form = "json" /\ (f.recovered \/ Changed(f.entries))

(* What the record of an upsert says: a candidate has its own regime,      *)
(* _sync_registry_status tells whether the strategy is retired, the signal *)
(* of a drift neither.                                                     *)
Sayings == {"candidate", "retired", "not_retired", "drift"}

(* Faulty: the record replaces the entry. *)
Replaced(f, n, mark, says) ==
  [f EXCEPT !.entries[n] = Nothing,
            !.entries[NormalName[n]] =
              [kind |-> "sound", retired |-> says = "retired", marks |-> {mark}]]

(* upsert_candidate merges the record over the entry of that very name,    *)
(* and normalizes the two before it renews updated_at: an entry that is    *)
(* stale comes out retired, unless the record replaces its regime.         *)
Upserted(f, n, mark, says) ==
  LET current == f.entries[n]
      retired == \/ current.kind = "stale" /\ says # "candidate"
                 \/ says = "retired"
                 \/ current # Nothing /\ current.retired /\ says # "not_retired"
  IN
  [f EXCEPT !.entries[n] = Nothing,
            !.entries[NormalName[n]] =
              [kind |-> "sound", retired |-> retired,
               marks |-> {mark} \cup (IF current = Nothing THEN {} ELSE current.marks)]]

-----------------------------------------------------------------------------
RegistryInit ==
  /\ registryFile \in StartFiles
  /\ held = [p \in Processes |-> DefaultState]
  /\ doing = [p \in Processes |-> [name |-> Reader, mark |-> 0]]
  /\ stage = [p \in Processes |-> "idle"]
  /\ outdated = [p \in Processes |-> FALSE]
  /\ calls = 0 /\ completed = {} /\ saved = FALSE /\ clobbers = {}

(* Where a call goes on after its load. *)
AfterLoad(p, call, f) ==
  IF call.name = Reader
  THEN held' = [held EXCEPT ![p] = f] /\ stage' = [stage EXCEPT ![p] = "idle"]
  ELSE /\ \E says \in Sayings :
            held' = [held EXCEPT ![p] = Upserted(f, call.name, call.mark, says)]
       /\ stage' = [stage EXCEPT ![p] = "upsert"]

(* list_candidates, get_candidate, summarize_registry or upsert_candidate  *)
(* reads the file.                                                         *)
Load(p, name) ==
  LET call == [name |-> name, mark |-> calls + 1] IN
  /\ stage[p] = "idle" /\ calls < MaxCalls
  /\ calls' = calls + 1
  /\ doing' = [doing EXCEPT ![p] = call]
  /\ outdated' = [outdated EXCEPT ![p] = FALSE]
  /\ IF LoadSaves(registryFile)
     THEN /\ held' = [held EXCEPT ![p] = Loaded(registryFile)]
          /\ stage' = [stage EXCEPT ![p] = "load"]
     ELSE AfterLoad(p, call, Loaded(registryFile))
  /\ UNCHANGED <<registryFile, completed, saved, clobbers>>

(* save_registry: a file of its own, put in the place of the registry. *)
Save(p) ==
  /\ registryFile' = held[p]
  /\ saved' = TRUE
  /\ outdated' = [q \in Processes |-> q # p \/ outdated[q]]
  /\ clobbers' = clobbers \cup (IF outdated[p] THEN {stage[p]} ELSE {})

SaveLoaded(p) ==
  /\ stage[p] = "load"
  /\ Save(p)
  /\ AfterLoad(p, doing[p], held[p])
  /\ UNCHANGED <<doing, calls, completed>>

SaveUpserted(p) ==
  /\ stage[p] = "upsert"
  /\ Save(p)
  /\ completed' = completed \cup {doing[p]}
  /\ stage' = [stage EXCEPT ![p] = "idle"]
  /\ UNCHANGED <<held, doing, calls>>

(* A process is killed between its read and its write. *)
Die(p) ==
  /\ stage[p] # "idle"
  /\ stage' = [stage EXCEPT ![p] = "idle"]
  /\ UNCHANGED <<registryFile, held, doing, outdated, calls, completed, saved, clobbers>>

RegistryNext ==
  \E p \in Processes :
    \/ \E name \in Names \cup {Reader} : Load(p, name)
    \/ SaveLoaded(p)
    \/ SaveUpserted(p)
    \/ Die(p)

RegistrySpec == RegistryInit /\ [][RegistryNext]_registryVars

-----------------------------------------------------------------------------
RegistryTypeOK ==
  /\ registryFile \in Contents
  /\ held \in [Processes -> Contents]
  /\ doing \in [Processes -> [name : Names \cup {Reader}, mark : 0 .. MaxCalls]]
  /\ stage \in [Processes -> {"idle", "load", "upsert"}]
  /\ outdated \in [Processes -> BOOLEAN]
  /\ calls \in 0 .. MaxCalls
  /\ completed \subseteq [name : Names, mark : 1 .. MaxCalls]
  /\ saved \in BOOLEAN /\ clobbers \subseteq {"load", "upsert"}

(* A call is in its entry, or an outdated copy was saved over the file, or *)
(* a later call used a name the migration does not keep, and merged into   *)
(* nothing (upsert_candidate looks the entry up before it normalizes).     *)
Kept(call) ==
  LET e == registryFile.entries[NormalName[call.name]] IN
  e # Nothing /\ call.mark \in e.marks

LostUpsertsHaveACause ==
  \A call \in completed :
    \/ Kept(call)
    \/ clobbers # {}
    \/ \E other \in completed :
         /\ other.mark # call.mark
         /\ NormalName[other.name] = NormalName[call.name]
         /\ other.name # NormalName[other.name]

(* A file somebody has saved makes a load write only because of what the   *)
(* code never cleans: the mark of a recovery, an incomplete record, or a   *)
(* stale one of a family without a regime.  Only then can a command that   *)
(* merely lists candidates overwrite an upsert.                            *)
NeverCleaned(f) ==
  \/ f.recovered
  \/ \E n \in Names : f.entries[n].kind \in {"incomplete", "stale"}

LoadsSettle == saved /\ LoadSaves(registryFile) => NeverCleaned(registryFile)
=============================================================================
