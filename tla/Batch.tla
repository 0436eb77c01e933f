-------------------------------- MODULE Batch --------------------------------
(***************************************************************************)
(* BatchAssignmentWorkflow (workflows/batch.py), its candidate children    *)
(* (workflows/candidate.py), and the generator that starts batches         *)
(* (generator.py, batch_loop): the faults S3 and S8 travel as start-time   *)
(* flags, from the scenario map through the generator's copy of it.        *)
(*                                                                         *)
(* No call of a batch can fail for good: the activities are retried for    *)
(* ever.  An operator may still terminate a child; its batch then fails.   *)
(***************************************************************************)
EXTENDS Integers, FiniteSets, SequencesExt

CONSTANTS
  Batches,      \* BOUND: batches that are open at a time
  Settings,     \* what the page sets S8 and S3 to
  Null,         \* JSON null: a number input that was cleared
  NormalMax,    \* NORMAL_MAX_CHILDREN
  NormalSizes,  \* random.randint(5, 10)
  Score         \* Score[i]: score_candidate("c<i>"); children may tie

Numbers == Int \cup {Null}
ASSUME SettingsAssumption ==
  Settings \subseteq [storm : BOOLEAN, bloat : BOOLEAN,
                      children : Numbers, iterations : Numbers]
ASSUME NumbersAssumption ==
  /\ NormalMax \in Nat /\ NormalSizes \subseteq Nat /\ NormalSizes # {}
  /\ \A i \in DOMAIN Score : Score[i] \in Nat

\* score_candidate has a score for whatever candidate a batch may start.
ASSUME ScoreAssumption ==
  /\ 0 .. (NormalMax - 1) \subseteq DOMAIN Score
  /\ \A s \in Settings : s.children # Null => 0 .. (s.children - 1) \subseteq DOMAIN Score

Unread == [storm |-> FALSE, bloat |-> FALSE, children |-> Null, iterations |-> Null]

VARIABLES
  want,   \* demo-control's map
  seen,   \* Generator._scenarios
  gpc,    \* the generator: "up" or "down"
  batch   \* batch[b]: an open batch, or the last one with that place

batchVars == <<want, seen, gpc, batch>>

NoBatch == [place |-> "failed", mode |-> "normal", size |-> 0, stamped |-> 0,
            kids |-> {}, done |-> {}, winners |-> <<>>]
IsOpen(b) == batch[b].place \in {"accepted", "fan", "loop"}

BatchInit ==
  /\ want \in Settings
  /\ seen = Unread
  /\ gpc = "down"
  /\ batch = [b \in Batches |-> NoBatch]

\* The operator changes a scenario, or resets them all.
Operate ==
  /\ want' \in Settings
  /\ UNCHANGED <<seen, gpc, batch>>

-----------------------------------------------------------------------------
(* The generator.                                                          *)

\* Mutant: the map is read until it is there, and then kept.
RefreshOnce ==
  /\ gpc = "up"
  /\ seen' = IF seen = Unread THEN want ELSE seen
  /\ UNCHANGED <<want, gpc, batch>>

\* control_loop reads the map every three seconds; an unsuccessful read
\* leaves the copy as it is.
RefreshOk ==
  /\ gpc = "up"
  /\ seen' = want
  /\ UNCHANGED <<want, gpc, batch>>

Mode == IF seen.storm THEN "fanout_storm"
        ELSE IF seen.bloat THEN "sequential_bloat" ELSE "normal"

\* children or iterations of the input, as batch_loop computes them.
Sizes == CASE Mode = "fanout_storm" -> {seen.children}
           [] Mode = "sequential_bloat" -> {seen.iterations}
           [] OTHER -> NormalSizes

EffectiveFanout(mode, size) ==
  CASE mode = "sequential_bloat" -> 0
    [] mode = "fanout_storm" -> size
    [] OTHER -> IF size < NormalMax THEN size ELSE NormalMax

\* Mutant: the requested size is stamped.
StartBatchRequested(b) ==
  /\ gpc = "up" /\ ~IsOpen(b)
  /\ \E n \in Sizes \ {Null} :
       batch' = [batch EXCEPT ![b] =
         [NoBatch EXCEPT !.place = "accepted", !.mode = Mode, !.size = n, !.stamped = n]]
  /\ UNCHANGED <<want, seen, gpc>>

\* A batch is started with its flags and its stamped attributes.  (A start
\* that fails is logged, and changes nothing.)
StartBatch(b) ==
  /\ gpc = "up" /\ ~IsOpen(b)
  /\ \E n \in Sizes \ {Null} :
       batch' = [batch EXCEPT ![b] =
         [NoBatch EXCEPT !.place = "accepted", !.mode = Mode, !.size = n,
                         !.stamped = EffectiveFanout(Mode, n)]]
  /\ UNCHANGED <<want, seen, gpc>>

\* int(None) raises outside the try: the exception leaves gather.
NullNumber ==
  /\ gpc = "up" /\ Null \in Sizes
  /\ gpc' = "down"
  /\ UNCHANGED <<want, seen, batch>>

Crash ==
  /\ gpc = "up"
  /\ gpc' = "down"
  /\ UNCHANGED <<want, seen, batch>>

\* run: one attempt to read the map before the loops begin.
Boot ==
  /\ gpc = "down"
  /\ gpc' = "up"
  /\ seen' \in {want, Unread}
  /\ UNCHANGED <<want, batch>>

-----------------------------------------------------------------------------
(* A batch.                                                                *)

\* The first task: all children are started in it.
Begin(b) ==
  /\ batch[b].place = "accepted"
  /\ batch' = [batch EXCEPT
       ![b].place = IF batch[b].mode = "sequential_bloat" THEN "loop" ELSE "fan",
       ![b].kids = 0 .. (EffectiveFanout(batch[b].mode, batch[b].size) - 1)]
  /\ UNCHANGED <<want, seen, gpc>>

\* Mutant: candidates are numbered from one.
ChildDoneNext(b) ==
  /\ batch[b].place = "fan"
  /\ \E i \in batch[b].kids \ batch[b].done :
       batch' = [batch EXCEPT ![b].done = @ \cup {i + 1}]
  /\ UNCHANGED <<want, seen, gpc>>

\* A child returns the score of its candidate.
ChildDone(b) ==
  /\ batch[b].place = "fan"
  /\ \E i \in batch[b].kids \ batch[b].done :
       batch' = [batch EXCEPT ![b].done = @ \cup {i}]
  /\ UNCHANGED <<want, seen, gpc>>

\* A child is terminated: gather raises, the batch fails, and the server
\* terminates the other children.
ChildLost(b) ==
  /\ batch[b].place = "fan" /\ batch[b].done # batch[b].kids
  /\ batch' = [batch EXCEPT ![b] = NoBatch]
  /\ UNCHANGED <<want, seen, gpc>>

Before(i, j) == Score[i] > Score[j] \/ (Score[i] = Score[j] /\ i < j)

\* sorted(range(n), key=scores, reverse=True)[:3]; the sort is stable: at
\* place k is the candidate that k - 1 others come before.
Best(kids) ==
  LET n == Cardinality(kids) IN
  [k \in 1 .. (IF n < 3 THEN n ELSE 3) |->
     CHOOSE i \in kids : Cardinality({j \in kids : Before(j, i)}) = k - 1]

\* Mutant: gather waits for as many children as were requested.
GatherRequested(b) ==
  /\ batch[b].place = "fan" /\ Cardinality(batch[b].done) = batch[b].size
  /\ batch' = [batch EXCEPT ![b].place = "completed", ![b].winners = Best(batch[b].kids)]
  /\ UNCHANGED <<want, seen, gpc>>

\* gather returns: every child has.
Gather(b) ==
  /\ batch[b].place = "fan" /\ batch[b].done = batch[b].kids
  /\ batch' = [batch EXCEPT ![b].place = "completed", ![b].winners = Best(batch[b].kids)]
  /\ UNCHANGED <<want, seen, gpc>>

\* S3: one activity after the other, and then the return.
Iterate(b) ==
  LET i == Cardinality(batch[b].done) IN
  /\ batch[b].place = "loop"
  /\ batch' = IF i < batch[b].size
                THEN [batch EXCEPT ![b].done = @ \cup {i}]
                ELSE [batch EXCEPT ![b].place = "completed"]
  /\ UNCHANGED <<want, seen, gpc>>

Work(b) == Begin(b) \/ ChildDone(b) \/ Gather(b) \/ Iterate(b)

BatchNext ==
  \/ Operate
  \/ RefreshOk \/ NullNumber \/ Crash \/ Boot
  \/ \E b \in Batches : StartBatch(b) \/ Work(b) \/ ChildLost(b)

\* The workers of batch-tq run, and the loop of the generator goes on while
\* it is up; sooner or later a read of the map succeeds.  docker-compose
\* restarts the generator (`restart: unless-stopped`).  Nobody has to
\* change a scenario, to crash, or to start a batch.
BatchFairness ==
  /\ WF_batchVars(RefreshOk) /\ WF_batchVars(Boot)
  /\ \A b \in Batches : WF_batchVars(Work(b))

BatchSpec == BatchInit /\ [][BatchNext]_batchVars /\ BatchFairness

-----------------------------------------------------------------------------
(* Properties.                                                             *)

\* The types; a batch that has not begun has no children.
BatchTypeOK ==
  /\ want \in Settings /\ seen \in Settings \cup {Unread} /\ gpc \in {"up", "down"}
  /\ \A b \in Batches :
       /\ batch[b].place \in {"accepted", "fan", "loop", "completed", "failed"}
       /\ batch[b].mode \in {"normal", "fanout_storm", "sequential_bloat"}
       /\ batch[b].size \in Int /\ batch[b].stamped \in Int
       /\ batch[b].place = "accepted" => batch[b].kids = {}
       /\ batch[b].place = "fan" => batch[b].done \subseteq batch[b].kids
       /\ batch[b].winners \in Seq(batch[b].kids)

\* batch.py:31, "How many children this batch will actually start": the
\* stamped size is the number of results a completed batch has gathered
\* (none, for the negative size that the page lets through), a healthy batch
\* is "small and bounded regardless of the requested children" (line 25),
\* and its winners are the three best, best first, the earlier of equals.
ResultIsRight ==
  \A b \in Batches : batch[b].place = "completed" =>
    LET r == batch[b]
        w == r.winners
    IN  /\ r.mode = "sequential_bloat" =>
             r.kids = {} /\ Cardinality(r.done) = (IF r.size > 0 THEN r.size ELSE 0)
        /\ r.mode # "sequential_bloat" =>
             Cardinality(r.done) = (IF r.stamped > 0 THEN r.stamped ELSE 0)
        /\ r.mode = "normal" => Cardinality(r.kids) <= NormalMax
        /\ Len(w) = (IF Cardinality(r.kids) < 3 THEN Cardinality(r.kids) ELSE 3)
        /\ \A k \in 1 .. Len(w) :
             \A i \in r.kids : Before(i, w[k]) => \E l \in 1 .. (k - 1) : w[l] = i

\* Every batch closes, whatever the generator does meanwhile.
EveryBatchCloses == \A b \in Batches : IsOpen(b) ~> ~IsOpen(b)

\* README.md:227-229, S3 and S8 are start-time flags: the fault "stops when
\* you toggle it off".  When both stay off, in the end no batch is a faulty
\* one, although the generator acts on a copy of the map, may miss a read,
\* and may die of the parameters.
StormDrains ==
  <>[](~want.storm /\ ~want.bloat)
    => <>[](\A b \in Batches : IsOpen(b) => batch[b].mode = "normal")
=============================================================================
