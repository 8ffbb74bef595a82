-------------------------- MODULE CandidateEvolution ---------------------------
(***************************************************************************)
(* A cycle of evolution: candidates are generated, validated, promoted on  *)
(* their figures and upserted.  cmd_evolve of main.py does it one after    *)
(* another and asks of each what it adds to the ones before; the           *)
(* coordinator of distributed.py cuts the candidates into batches for a    *)
(* pool of threads, which know nothing of one another.                     *)
(***************************************************************************)
EXTENDS CandidateGeneration

CONSTANTS
  Cycles,       \* [command, iterations, history] of the calls
  Figures,      \* what a candidate may show: [passed, score, robustness, tested,
                \* factor, drawdown], in hundredths, the drawdown in tenths
  WorkerCount, BatchSize

Statuses == {"candidate", "validated", "probationary", "deployable"}

ASSUME EvolutionAssumption ==
  /\ WorkerCount \in Nat \ {0} /\ BatchSize \in Nat \ {0}
  /\ \A c \in Cycles : c.command \in {"evolve", "distributed", "generate"} /\ c.iterations \in Int
  /\ \A c \in Cycles : c.history \in Histories
  /\ \A c \in Cycles : c.command # "generate" => c.history = <<>>

VARIABLES
  cycle,
  stage,        \* "generate", "run", "select", "done", "aborted"
  generated,
  batches,      \* sequence of sequences of positions in generated
  working,      \* the batches a thread is at
  results,      \* per batch: the positions done, with their status or "failed"
  collected,    \* batches in the order their results came in
  registered,   \* what the registry says of each position
  survivors     \* the positions handed to allocate and to the artifact

evolutionVars ==
  <<cycle, stage, generated, batches, working, results, collected, registered, survivors>>

-----------------------------------------------------------------------------
(* lifecycle.py *)

Robustness(figures) == Max({figures.robustness, figures.tested})

(* _merge_validation and process_batch: only the first has a score. *)
Merged(figures) ==
  [figures EXCEPT !.robustness = Robustness(figures),
                  !.score = IF cycle.command = "evolve" THEN @ ELSE 0]

Meets(row, robustness, factor, drawdown) ==
  row.robustness >= robustness /\ row.factor >= factor /\ row.drawdown >= drawdown

Convincing(row) == row.passed \/ row.score >= 55

(* diversity_report of the rows of the cycle that are in the basket's      *)
(* states: a basket is the set of their positions, each in one row.        *)
InBasket(done) ==
  {done[k].at : k \in {k \in DOMAIN done : done[k].status \in Statuses \ {"candidate"}}}

FieldsOf(basket, field) == {generated[at][field] : at \in basket}

DiversityScore(basket) ==
  IF basket = {} THEN 0
  ELSE (140 * Cardinality(FieldsOf(basket, "symbol"))
          + 110 * Cardinality(FieldsOf(basket, "family"))
          + 90 * Cardinality(FieldsOf(basket, "regime"))) \div Cardinality(basket)

Novelty == [symbol |-> 40, family |-> 20, regime |-> 10]

NewFields(at, basket) == {x \in DOMAIN Novelty : generated[at][x] \notin FieldsOf(basket, x)}

(* Faulty: a basket that is diverse takes anything. *)
NoveltyOfBasket(at, basket) ==
  SumFunctionOnSet(Novelty, NewFields(at, basket))
    + (IF DiversityScore(basket) >= 100 THEN 40 ELSE 0)

BasketNovelty(at, basket) ==
  SumFunctionOnSet(Novelty, NewFields(at, basket))
    + (IF DiversityScore(basket) >= 100 THEN 10 ELSE 0)

(* selected_count counts every row before, in the basket or not. *)
CanEnterProbationary(row, at, done) ==
  /\ Convincing(row) /\ Meets(row, 82, 190, -85)
  /\ done = <<>> \/ BasketNovelty(at, InBasket(done)) >= 30

CanEnterDeployable(row, at, done) ==
  /\ Convincing(row) /\ Meets(row, 90, 220, -60)
  /\ \/ done = <<>>
     \/ /\ BasketNovelty(at, InBasket(done)) >= 45
        /\ DiversityScore(InBasket(done)) >= 115

AutoPromote(row, at, done) ==
  IF CanEnterDeployable(row, at, done) THEN "deployable"
  ELSE IF CanEnterProbationary(row, at, done) THEN "probationary"
  ELSE IF row.passed /\ row.score >= 55 /\ Meets(row, 75, 180, -100) THEN "validated"
  ELSE "candidate"

-----------------------------------------------------------------------------
EvolutionInit ==
  /\ cycle \in Cycles /\ stage = "generate"
  /\ generated = <<>> /\ batches = <<>> /\ working = {} /\ results = <<>>
  /\ collected = <<>> /\ registered = <<>> /\ survivors = {}

(* _chunk *)
Chunk(size) ==
  [b \in 1 .. (Len(generated') + size - 1) \div size |->
     [k \in 1 .. Min({size, Len(generated') - (b - 1) * size}) |-> (b - 1) * size + k]]

(* generate_candidates; evolve goes through them in one piece. *)
Generate ==
  /\ stage = "generate"
  /\ generated' = Generated(cycle.iterations, cycle.history)
  /\ batches' = Chunk(IF cycle.command = "distributed" THEN BatchSize ELSE Len(generated'))
  /\ results' = [b \in DOMAIN batches' |-> <<>>]
  /\ registered' = [at \in DOMAIN generated' |-> "absent"]
  /\ stage' = IF cycle.command = "generate" THEN "done" ELSE "run"
  /\ UNCHANGED <<cycle, working, collected, survivors>>

Started == working \cup Range(collected)

(* A thread of the pool takes the batch that was submitted first. *)
TakeBatch(b) ==
  /\ stage = "run" /\ b \in DOMAIN batches \ Started
  /\ \A c \in DOMAIN batches \ Started : b <= c
  /\ Cardinality(working) < (IF cycle.command = "distributed" THEN WorkerCount ELSE 1)
  /\ working' = working \cup {b}
  /\ UNCHANGED <<cycle, stage, generated, batches, results, collected, registered, survivors>>

Unfinished(b) == Len(results[b]) < Len(batches[b])

(* validate_candidate, the merge, auto_promote and the upsert, which takes *)
(* REGISTRY_LOCK: all of it is the thread's own but the last.              *)
Process(b, figures) ==
  LET at     == batches[b][Len(results[b]) + 1]
      done   == IF cycle.command = "evolve" THEN results[b] ELSE <<>>
      status == AutoPromote(Merged(figures), at, done)
  IN /\ b \in working /\ Unfinished(b) /\ stage = "run"
     /\ results' = [results EXCEPT ![b] = Append(@, [at |-> at, status |-> status])]
     /\ registered' = [registered EXCEPT ![at] = status]
     /\ UNCHANGED <<cycle, stage, generated, batches, working, collected, survivors>>

(* A validation or an upsert raises: a worker counts it and goes on, and   *)
(* evolve ends there.                                                      *)
Fail(b) ==
  LET at == batches[b][Len(results[b]) + 1]
  IN /\ b \in working /\ Unfinished(b) /\ stage = "run"
     /\ IF cycle.command = "evolve"
        THEN stage' = "aborted" /\ UNCHANGED results
        ELSE /\ results' = [results EXCEPT ![b] = Append(@, [at |-> at, status |-> "failed"])]
             /\ UNCHANGED stage
     /\ UNCHANGED <<cycle, generated, batches, working, collected, registered, survivors>>

(* as_completed yields a batch that is through; the last one ends the loop *)
Collect(b) ==
  /\ b \in working /\ ~Unfinished(b) /\ stage = "run"
  /\ working' = working \ {b}
  /\ collected' = Append(collected, b)
  /\ stage' = IF Len(collected') = Len(batches) THEN "select" ELSE "run"
  /\ UNCHANGED <<cycle, generated, batches, results, registered, survivors>>

(* Faulty: what the last batch to finish promoted is left out. *)
AllButTheLast == FlattenSeq([k \in 1 .. Len(collected) - 1 |-> results[collected[k]]])

Promoted == FlattenSeq([k \in DOMAIN collected |-> results[collected[k]]])

(* deployable, from which the portfolio and the artifact are made *)
Select ==
  /\ stage = "select" /\ stage' = "done"
  /\ survivors' = {Promoted[k].at : k \in {k \in DOMAIN Promoted :
                     Promoted[k].status \in {"validated", "probationary", "deployable"}}}
  /\ UNCHANGED <<cycle, generated, batches, working, results, collected, registered>>

EvolutionNext ==
  \/ Generate \/ Select
  \/ \E b \in DOMAIN batches :
       TakeBatch(b) \/ Collect(b) \/ Fail(b) \/ \E figures \in Figures : Process(b, figures)

EvolutionSpec == EvolutionInit /\ [][EvolutionNext]_evolutionVars

-----------------------------------------------------------------------------
EvolutionTypeOK ==
  /\ cycle \in Cycles /\ stage \in {"generate", "run", "select", "done", "aborted"}
  /\ \A at \in DOMAIN generated :
       generated[at] \in [family : Range(Families), symbol : Range(Symbols), iteration : Nat,
                          regime : DOMAIN RegimeFamilyBias]
  /\ working \subseteq DOMAIN batches /\ Range(collected) \subseteq DOMAIN batches
  /\ DOMAIN results = DOMAIN batches
  /\ \A b \in DOMAIN results : Len(results[b]) <= Len(batches[b])
  /\ registered \in [DOMAIN generated -> Statuses \cup {"absent"}]
  /\ survivors \subseteq DOMAIN generated

WithStatus(statuses) == {at \in DOMAIN registered : registered[at] \in statuses}

(* No row of the basket that comes before it has its symbol, or family.    *)
IsNew(at, field) ==
  \A before \in WithStatus(Statuses \ {"candidate"}) :
    before < at => generated[before][field] # generated[at][field]

(* What one cycle of evolve lets into the basket stays diverse however     *)
(* well its candidates do: each row promoted to probationary or deployable *)
(* brings a symbol or a family that no row of the basket before it has,    *)
(* each deployable one a symbol.  A new regime and the bonus of a diverse  *)
(* basket never add up to it.  The workers of a distributed cycle ask no   *)
(* such thing.                                                             *)
PromotionsAreNovel ==
  cycle.command = "evolve" =>
    /\ \A at \in WithStatus({"probationary", "deployable"}) :
         IsNew(at, "symbol") \/ IsNew(at, "family")
    /\ \A at \in WithStatus({"deployable"}) : IsNew(at, "symbol")

(* Whichever thread took which batch, and in whatever order the batches    *)
(* came in, a cycle that ends has dealt with every candidate once: what it *)
(* hands on is what the registry was told is worth trading, and the rows   *)
(* that failed are the ones the registry was not told of.  No family and   *)
(* no symbol is tuned out of a plan, whatever the history.                 *)
CyclesAddUp ==
  stage = "done" =>
    /\ \A f \in Range(Families), s \in Range(Symbols) :
         \E at \in DOMAIN generated : generated[at].family = f /\ generated[at].symbol = s
    /\ cycle.command # "generate" =>
         /\ survivors = WithStatus(Statuses \ {"candidate"})
         /\ Len(Promoted) = Len(generated)
         /\ {Promoted[k].at : k \in {k \in DOMAIN Promoted : Promoted[k].status = "failed"}}
              = WithStatus({"absent"})
=============================================================================
