----------------------------- MODULE FaultProofs -----------------------------
(***************************************************************************)
(* The two ends a scenario of the map reaches without a relay: a payment   *)
(* under S1 (Payments) and a batch under S3 or S8 (Batch).                 *)
(*                                                                         *)
(* Payments.  RecoversInOneTry alone is not inductive: a swap may come     *)
(* while an attempt is armed, and then that attempt fails late.            *)
(* ArmedIsFirst says that it is the first to do so: an attempt is only     *)
(* armed by a map that has the storm on, and such a map clears the count.  *)
(*                                                                         *)
(* Batch.  ResultIsRight speaks of completed batches only; Sound says what *)
(* a batch has at every place on the way there.  That the winners are the  *)
(* best follows from counting: the ranks of n candidates are n different   *)
(* numbers below n, so each number is the rank of one candidate.           *)
(***************************************************************************)
EXTENDS Payments, Batch, FiniteSetTheorems, FunctionTheorems, TLAPS

-----------------------------------------------------------------------------
(* Payments.                                                               *)

\* While the storm is in the cache or in an attempt, none has failed late.
ArmedIsFirst == cache.on \/ pay = "armed" => late = 0

\* A payment that has not failed has an attempt left.
AttemptLeft == pay # "failed" => tries < MaxAttempts

IInv ==
  /\ TypeOK
  /\ IsFiniteSet(answers) /\ IsFiniteSet(posts)
  /\ RecoversInOneTry
  /\ ArmedIsFirst
  /\ AttemptLeft

PageOK == PanelTypeOK /\ IsFiniteSet(answers) /\ IsFiniteSet(posts)

\* The map that nobody has changed is a map.
LEMMA DefaultType == Default \in Maps
  BY ProbsAssumption DEF Default, Maps

\* The invariant of the payments holds at first.
LEMMA InitInvariant == Init => IInv
<1> SUFFICES ASSUME Init  PROVE IInv
  OBVIOUS
<1>1. PanelTypeOK /\ IsFiniteSet(answers) /\ IsFiniteSet(posts)
  <2>1. Cardinality({}) = 0 /\ IsFiniteSet({})  BY FS_EmptySet
  <2>2. store \in Maps /\ copy \in Maps /\ answers = {} /\ posts = {}
    BY DefaultType DEF Init, PanelInit
  <2>3. failures \in 0 .. MaxFailures
    BY PanelBoundsAssumption DEF Init, PanelInit
  <2>4. cleared \in BOOLEAN  BY DEF Init, PanelInit
  <2> QED  BY <2>1, <2>2, <2>3, <2>4, PanelBoundsAssumption DEF PanelTypeOK
<1> QED
  BY <1>1, DefaultType, OutcomesAssumption
     DEF Init, IInv, TypeOK, RecoversInOneTry, ArmedIsFirst, AttemptLeft, Default

\* An answer is sent only while there is room for it.
LEMMA AnswerKeepsPage ==
  ASSUME PageOK, NEW m \in Maps, Answer(m)
  PROVE  answers' \subseteq Maps /\ IsFiniteSet(answers') /\ Cardinality(answers') <= MaxAnswers
<1>1. Cardinality(answers) \in Nat /\ IsFiniteSet(answers \cup {m})
      /\ Cardinality(answers \cup {m}) \in {Cardinality(answers), Cardinality(answers) + 1}
  BY FS_AddElement, FS_CardinalityType DEF PageOK
<1> QED  BY <1>1, PanelBoundsAssumption DEF PageOK, PanelTypeOK, Answer

\* So is a request.
LEMMA PostKeepsPage ==
  ASSUME PageOK, NEW p \in Posts, Post(p), cleared' \in BOOLEAN
  PROVE  PageOK'
<1>1. Cardinality(posts) \in Nat /\ IsFiniteSet(posts \cup {p})
      /\ Cardinality(posts \cup {p}) \in {Cardinality(posts), Cardinality(posts) + 1}
  BY FS_AddElement, FS_CardinalityType DEF PageOK
<1> QED  BY <1>1, PanelBoundsAssumption DEF PageOK, PanelTypeOK, Post

\* What the page, the dashboard and demo-control do keeps their types.
LEMMA PanelKeepsPage ==
  ASSUME PageOK, [PanelNext]_panelVars
  PROVE  PageOK'
<1>1. CASE Poll
  BY <1>1, AnswerKeepsPage DEF Poll, PageOK, PanelTypeOK
<1>2. CASE PollFails
  BY <1>2, AnswerKeepsPage, DefaultType, PanelBoundsAssumption DEF PollFails, PageOK, PanelTypeOK
<1>3. ASSUME NEW m \in Maps, Show(m)  PROVE PageOK'
  <2>1. Cardinality(answers) \in Nat /\ IsFiniteSet(answers \ {m})
        /\ Cardinality(answers \ {m}) = Cardinality(answers) - 1
    BY <1>3, FS_RemoveElement, FS_CardinalityType DEF PageOK, Show
  <2> QED  BY <1>3, <2>1, PanelBoundsAssumption DEF PageOK, PanelTypeOK, Show
<1>4. CASE Toggle
  <2>1. PICK on \in BOOLEAN : ToggleTo(on)  BY <1>4 DEF Toggle
  <2>2. [kind |-> "set", to |-> [copy EXCEPT !.on = on]] \in Posts
    BY DEF Posts, Maps, PageOK, PanelTypeOK
  <2> QED  BY <2>1, <2>2, PostKeepsPage DEF ToggleTo
<1>5. CASE Slide
  <2>1. PICK x \in Probs : Post([kind |-> "set", to |-> [copy EXCEPT !.prob = x]])
    BY <1>5 DEF Slide
  <2>2. [kind |-> "set", to |-> [copy EXCEPT !.prob = x]] \in Posts
    BY DEF Posts, Maps, PageOK, PanelTypeOK
  <2> QED  BY <1>5, <2>1, <2>2, PostKeepsPage DEF Slide, PageOK, PanelTypeOK
<1>6. CASE ResetClick
  BY <1>6, PostKeepsPage DEF ResetClick, Posts, PageOK, PanelTypeOK
<1>7. ASSUME NEW p \in Posts, Apply(p) \/ Lost(p)  PROVE PageOK'
  <2>1. Cardinality(posts) \in Nat /\ IsFiniteSet(posts \ {p})
        /\ Cardinality(posts \ {p}) = Cardinality(posts) - 1
    BY <1>7, FS_RemoveElement, FS_CardinalityType DEF PageOK, Apply, Lost
  <2>2. (IF p.kind = "set" THEN p.to ELSE Default) \in Maps
    BY DefaultType DEF Posts
  <2>3. CASE Apply(p)
    BY <2>1, <2>2, <2>3, PanelBoundsAssumption DEF PageOK, PanelTypeOK, Apply
  <2>4. CASE Lost(p)
    BY <2>1, <2>4, PanelBoundsAssumption DEF PageOK, PanelTypeOK, Lost
  <2> QED  BY <1>7, <2>3, <2>4
<1>8. CASE UNCHANGED panelVars
  BY <1>8 DEF panelVars, PageOK, PanelTypeOK
<1> QED  BY <1>1, <1>2, <1>3, <1>4, <1>5, <1>6, <1>7, <1>8 DEF PanelNext

\* A failed attempt is counted, and the last one ends the payment.
LEMMA RetryCounts ==
  ASSUME tries \in Nat, AttemptLeft, pay # "failed", Retry
  PROVE  pay' \in {"due", "failed"} /\ tries' \in 0 .. MaxAttempts /\ AttemptLeft'
  BY OutcomesAssumption DEF Retry, AttemptLeft

\* Every step of the page, the worker or the payment keeps it.
LEMMA NextInvariant ==
  ASSUME IInv, [Next]_vars
  PROVE  IInv'
<1> USE DEF IInv, TypeOK, RecoversInOneTry, ArmedIsFirst, AttemptLeft
<1>0. PageOK  BY DEF PageOK
<1>a. tries \in Nat /\ AttemptLeft  BY OutcomesAssumption
<1>1. CASE PanelNext /\ UNCHANGED <<cacheVars, payVars, late, crashes>>
  <2>1. PageOK'  BY <1>0, <1>1, PanelKeepsPage
  <2> QED  BY <1>1, <2>1 DEF PageOK, cacheVars, payVars
<1>2. CASE Fetch \/ FetchFails
  <2>1. PageOK'
    BY <1>0, <1>2, PanelBoundsAssumption DEF Fetch, FetchFails, PageOK, PanelTypeOK, panelVars
  <2>2. fetched' \in Maps \cup {NotFetched}
    BY <1>0, <1>2 DEF Fetch, FetchFails, PageOK, PanelTypeOK, cacheVars
  <2> QED  BY <1>2, <2>1, <2>2 DEF Fetch, FetchFails, PageOK, cacheVars, payVars
<1>3. CASE Swap
  <2>1. PageOK'  BY <1>0, <1>3, PanelKeepsPage DEF Swap
  <2>2. cache' \in Maps /\ cache' = fetched  BY <1>3 DEF Swap
  <2> QED  BY <1>3, <2>1, <2>2 DEF Swap, PageOK, payVars
<1>4. CASE Attempt \/ Draw \/ NextOrder
  <2>1. PageOK'  BY <1>0, <1>4, PanelKeepsPage DEF Attempt, Draw, NextOrder
  <2>2. CASE Attempt  BY <2>1, <2>2 DEF Attempt, PageOK, cacheVars
  <2>3. CASE Draw
    <3>1. late = 0  BY <2>3 DEF Draw
    <3>2. cache' = cache  BY <2>3 DEF Draw, cacheVars
    <3>3. late' \in {0, 1} /\ (cache.on => late' = 0)
      <4>1. Fails \/ late' = late  BY <2>3 DEF Draw
      <4>2. CASE late' = late  BY <3>1, <4>2
      <4>3. CASE Fails /\ cache.on  BY <3>1, <4>3 DEF Fails
      <4>4. CASE Fails /\ ~cache.on  BY <3>1, <4>4 DEF Fails
      <4> QED  BY <4>1, <4>2, <4>3, <4>4
    <3>4. pay' \in {"due", "paid", "failed"} /\ tries' \in 0 .. MaxAttempts /\ AttemptLeft'
      <4>1. CASE Retry  BY <1>a, <2>3, <4>1, RetryCounts DEF Draw
      <4>2. CASE pay' = "paid" /\ UNCHANGED <<tries, late>>  BY <2>3, <4>2 DEF Draw
      <4> QED  BY <2>3, <4>1, <4>2 DEF Draw
    <3> QED  BY <2>1, <2>3, <3>2, <3>3, <3>4 DEF Draw, PageOK, cacheVars
  <2>4. CASE NextOrder
    BY <2>1, <2>4, OutcomesAssumption DEF NextOrder, PageOK, cacheVars
  <2> QED  BY <1>4, <2>2, <2>3, <2>4
<1>5. CASE Restart
  <2>1. PageOK'  BY <1>0, <1>5, PanelKeepsPage DEF Restart
  <2>2. cache' \in Maps /\ ~cache'.on  BY <1>5, DefaultType DEF Restart, Default
  <2>3. pay' \in {"due", "paid", "failed"} /\ tries' \in 0 .. MaxAttempts /\ AttemptLeft'
    <3>1. CASE pay \in {"due", "armed"} /\ Retry  BY <1>a, <3>1, RetryCounts
    <3>2. CASE pay # "armed" /\ UNCHANGED payVars  BY <3>2 DEF payVars
    <3> QED  BY <1>5, <3>1, <3>2 DEF Restart
  <2> QED  BY <1>5, <2>1, <2>2, <2>3, OutcomesAssumption DEF Restart, PageOK
<1>6. CASE UNCHANGED vars
  <2>1. PageOK'  BY <1>0, <1>6, PanelKeepsPage DEF vars
  <2> QED  BY <1>6, <2>1 DEF vars, cacheVars, payVars, PageOK
<1> QED  BY <1>1, <1>2, <1>3, <1>4, <1>5, <1>6 DEF Next

\* The payments' invariant holds in every state.
THEOREM Invariance == Spec => []IInv
<1> QED  BY InitInvariant, NextInvariant, PTL DEF Spec

\* The types of the page's, the worker's and the payment's variables.
THEOREM TypeCorrect == Spec => []TypeOK
<1>1. IInv => TypeOK  BY DEF IInv
<1> QED  BY <1>1, Invariance, PTL

\* README.md:220, "recover instantly when you toggle it off".
THEOREM Recovery == Spec => []RecoversInOneTry
<1>1. IInv => RecoversInOneTry  BY DEF IInv
<1> QED  BY <1>1, Invariance, PTL

\* A step of the page or of demo-control other than a click that switches the
\* scenario on leaves everything off.
LEMMA SettledStays ==
  ASSUME copy \in Maps, Settled, [PanelNext]_panelVars, ~ToggleTo(TRUE)
  PROVE  Settled'
<1> USE DEF Settled
<1>1. ~Default.on  BY DEF Default
<1>2. CASE Poll  BY <1>2 DEF Poll, Answer
<1>3. CASE PollFails  BY <1>1, <1>3 DEF PollFails, Answer
<1>4. ASSUME NEW m \in Maps, Show(m)  PROVE Settled'  BY <1>4 DEF Show
<1>5. CASE Slide
  <2>1. PICK x \in Probs : Post([kind |-> "set", to |-> [copy EXCEPT !.prob = x]])
    BY <1>5 DEF Slide
  <2> DEFINE p == [kind |-> "set", to |-> [copy EXCEPT !.prob = x]]
  <2>2. ~p.to.on  BY DEF Maps
  <2>3. Post(p) /\ UNCHANGED cleared  BY <1>5, <2>1 DEF Slide
  <2> HIDE DEF p
  <2> QED  BY <2>2, <2>3 DEF Post
<1>6. CASE ResetClick  BY <1>6 DEF ResetClick, Post
<1>7. ASSUME NEW p \in Posts, Apply(p) \/ Lost(p)  PROVE Settled'
  BY <1>1, <1>7 DEF Apply, Lost, Posts
<1>8. CASE Toggle
  <2>1. PICK on \in BOOLEAN : ToggleTo(on)  BY <1>8 DEF Toggle
  <2> DEFINE p == [kind |-> "set", to |-> [copy EXCEPT !.on = on]]
  <2>2. ~on  BY <2>1
  <2>3. ~p.to.on  BY <2>2 DEF Maps
  <2>4. Post(p)  BY <2>1 DEF ToggleTo
  <2> HIDE DEF p
  <2> QED  BY <2>3, <2>4 DEF Post
<1>9. CASE UNCHANGED panelVars  BY <1>9 DEF panelVars
<1> QED  BY <1>2, <1>3, <1>4, <1>5, <1>6, <1>7, <1>8, <1>9 DEF PanelNext

\* README.md:351, what a RESET guarantees: a scenario that is off everywhere
\* stays off until somebody switches it on, whatever else the page, the
\* worker and the payments do.
THEOREM OffStaysOff == Spec => OffUntilToggled
<1> DEFINE Kept == Settled /\ ~ToggleTo(TRUE) => Settled'
<1>1. ASSUME IInv, [Next]_vars  PROVE [Kept]_panelVars
  <2>1. CASE [PanelNext]_panelVars
    BY <1>1, <2>1, SettledStays DEF IInv, TypeOK, PanelTypeOK
  <2>2. CASE FetchFails  BY <2>2 DEF FetchFails, Settled
  <2>3. CASE Fetch \/ Swap \/ Attempt \/ Draw \/ NextOrder \/ Restart \/ UNCHANGED vars
    BY <2>3 DEF Fetch, Swap, Attempt, Draw, NextOrder, Restart, vars
  <2> QED  BY <1>1, <2>1, <2>2, <2>3 DEF Next
<1>2. IInv /\ [Next]_vars => [Kept]_panelVars  BY <1>1
<1> HIDE DEF Kept
<1>3. Spec => [][Kept]_panelVars  BY <1>2, Invariance, PTL DEF Spec
<1> QED  BY <1>3 DEF OffUntilToggled, Kept

-----------------------------------------------------------------------------
(* The winners of a batch.                                                 *)

\* The candidates of S that come before candidate i.
Ahead(S, i) == {j \in S : Before(j, i)}

Candidates(S) == IsFiniteSet(S) /\ S \subseteq DOMAIN Score /\ S \subseteq Int

\* The sort's order is a strict order in which any two candidates compare,
\* ties included.
LEMMA BeforeIsOrder ==
  ASSUME NEW S, Candidates(S), NEW i \in S, NEW j \in S, NEW k \in S
  PROVE  /\ ~Before(i, i)
         /\ Before(i, j) /\ Before(j, k) => Before(i, k)
         /\ i # j => Before(i, j) \/ Before(j, i)
  BY NumbersAssumption DEF Candidates, Before

\* A candidate has fewer ahead of it than there are candidates.
LEMMA RankInRange ==
  ASSUME NEW S, Candidates(S), NEW i \in S
  PROVE  IsFiniteSet(Ahead(S, i)) /\ Cardinality(Ahead(S, i)) \in 0 .. (Cardinality(S) - 1)
<1>1. Ahead(S, i) \in SUBSET (S \ {i})  BY BeforeIsOrder DEF Ahead
<1>2. IsFiniteSet(S \ {i}) /\ Cardinality(S \ {i}) = Cardinality(S) - 1
  BY FS_RemoveElement DEF Candidates
<1>3. IsFiniteSet(Ahead(S, i)) /\ Cardinality(Ahead(S, i)) <= Cardinality(S) - 1
  BY <1>1, <1>2, FS_Subset
<1>4. Cardinality(Ahead(S, i)) \in Nat /\ Cardinality(S) \in Nat
  BY <1>3, FS_CardinalityType DEF Candidates
<1> QED  BY <1>3, <1>4

\* Of two candidates, the earlier one has fewer ahead of it.
LEMMA RankFollowsOrder ==
  ASSUME NEW S, Candidates(S), NEW i \in S, NEW j \in S, Before(i, j)
  PROVE  Cardinality(Ahead(S, i)) < Cardinality(Ahead(S, j))
<1>1. Ahead(S, i) \in SUBSET (Ahead(S, j) \ {i})
  BY BeforeIsOrder DEF Ahead
<1>2. i \in Ahead(S, j)  BY DEF Ahead
<1>3. IsFiniteSet(Ahead(S, j)) /\ Cardinality(Ahead(S, j)) \in Nat  BY RankInRange
<1>4. IsFiniteSet(Ahead(S, j) \ {i})
      /\ Cardinality(Ahead(S, j) \ {i}) = Cardinality(Ahead(S, j)) - 1
  BY <1>2, <1>3, FS_RemoveElement
<1>5. Cardinality(Ahead(S, i)) <= Cardinality(Ahead(S, j) \ {i})
  BY <1>1, <1>4, FS_Subset
<1>6. Cardinality(Ahead(S, i)) \in Nat  BY RankInRange
<1> QED  BY <1>3, <1>4, <1>5, <1>6

\* No two candidates have the same rank.
LEMMA RankIsUnique ==
  ASSUME NEW S, Candidates(S), NEW i \in S, NEW j \in S,
         Cardinality(Ahead(S, i)) = Cardinality(Ahead(S, j))
  PROVE  i = j
<1> SUFFICES ASSUME i # j  PROVE FALSE
  OBVIOUS
<1>1. Cardinality(Ahead(S, i)) \in Nat  BY RankInRange
<1>2. CASE Before(i, j)  BY <1>1, <1>2, RankFollowsOrder
<1>3. CASE Before(j, i)  BY <1>1, <1>3, RankFollowsOrder
<1> QED  BY <1>2, <1>3, BeforeIsOrder

\* Every number below the number of candidates is the rank of one of them:
\* the pigeons are as many as the holes.
LEMMA EveryRankIsTaken ==
  ASSUME NEW S, Candidates(S), NEW r \in 0 .. (Cardinality(S) - 1)
  PROVE  \E i \in S : Cardinality(Ahead(S, i)) = r
<1> DEFINE n == Cardinality(S)
           T == 0 .. (n - 1)
           f == [i \in S |-> Cardinality(Ahead(S, i))]
<1>1. n \in Nat  BY FS_CardinalityType DEF Candidates
<1>2. f \in [S -> T]  BY RankInRange
<1>3. \A i, j \in S : f[i] = f[j] => i = j  BY RankIsUnique
<1>4. f \in Injection(S, T)  BY <1>2, <1>3 DEF Injection, IsInjective
<1>5. IsFiniteSet(T) /\ Cardinality(T) = n
  BY <1>1, FS_Interval
<1>6. f \in Surjection(S, T)  BY <1>4, <1>5, FS_Injection
<1> QED  BY <1>6 DEF Surjection

\* Best returns the three best candidates, or all of fewer, best first.
THEOREM BestIsBest ==
  ASSUME NEW S, Candidates(S)
  PROVE  /\ Best(S) \in Seq(S)
         /\ Len(Best(S)) = (IF Cardinality(S) < 3 THEN Cardinality(S) ELSE 3)
         /\ \A k \in 1 .. Len(Best(S)) :
              \A i \in S : Before(i, Best(S)[k]) => \E l \in 1 .. (k - 1) : Best(S)[l] = i
<1> DEFINE n == Cardinality(S)
           m == IF n < 3 THEN n ELSE 3
           b == [k \in 1 .. m |-> CHOOSE i \in S : Cardinality(Ahead(S, i)) = k - 1]
<1>1. n \in Nat /\ m \in Nat /\ m <= n  BY FS_CardinalityType DEF Candidates
<1>2. \A k \in 1 .. m : Best(S)[k] \in S /\ Cardinality(Ahead(S, Best(S)[k])) = k - 1
  <2> TAKE k \in 1 .. m
  <2>1. k - 1 \in 0 .. (n - 1)  BY <1>1
  <2>2. \E i \in S : Cardinality(Ahead(S, i)) = k - 1  BY <2>1, EveryRankIsTaken
  <2>3. Best(S)[k] = CHOOSE i \in S : Cardinality(Ahead(S, i)) = k - 1
    BY DEF Best, Ahead
  <2> QED  BY <2>2, <2>3
<1>3. Best(S) = b  BY DEF Best, Ahead
<1>4. Best(S) \in Seq(S) /\ Len(Best(S)) = m
  <2>1. \A k \in 1 .. m : b[k] \in S  BY <1>2, <1>3
  <2>2. b \in [1 .. m -> S]  BY <2>1
  <2>3. Best(S) \in [1 .. m -> S]  BY <1>3, <2>2
  <2> HIDE DEF m
  <2> QED  BY <1>1, <2>3
<1>5. ASSUME NEW k \in 1 .. m, NEW i \in S, Before(i, Best(S)[k])
      PROVE  \E l \in 1 .. (k - 1) : Best(S)[l] = i
  <2> DEFINE l == Cardinality(Ahead(S, i)) + 1
  <2>1. Cardinality(Ahead(S, i)) \in Nat  BY RankInRange
  <2>2. Cardinality(Ahead(S, i)) < k - 1  BY <1>2, <1>5, RankFollowsOrder
  <2>3. l \in 1 .. (k - 1) /\ l \in 1 .. m  BY <1>1, <2>1, <2>2
  <2>4. Best(S)[l] \in S /\ Cardinality(Ahead(S, Best(S)[l])) = Cardinality(Ahead(S, i))
    BY <1>2, <2>1, <2>3
  <2>5. Best(S)[l] = i  BY <2>4, RankIsUnique
  <2> QED  BY <2>3, <2>5
<1> QED  BY <1>4, <1>5


-----------------------------------------------------------------------------
(* Batches.                                                                *)

\* The numbers of the candidates that batch r is to start.
Fan(r) == 0 .. (EffectiveFanout(r.mode, r.size) - 1)

BatchRecords ==
  [place : {"accepted", "fan", "loop", "completed", "failed"},
   mode : {"normal", "fanout_storm", "sequential_bloat"},
   size : Int, stamped : Int, kids : SUBSET Int, done : SUBSET Int, winners : Seq(Int)]

\* The activities a loop has done are the first ones, and no more than it
\* was asked for.
Looped(r) ==
  /\ r.done = 0 .. (Cardinality(r.done) - 1)
  /\ Cardinality(r.done) \in Nat
  /\ Cardinality(r.done) = 0 \/ Cardinality(r.done) <= r.size

\* The winners batch r has chosen.
Chosen(r) ==
  IF r.place = "completed" /\ r.mode # "sequential_bloat" THEN Best(r.kids) ELSE <<>>

\* What batch r has at each of its places.
Sound(r) ==
  /\ r.place # "failed" =>
       r.stamped = EffectiveFanout(r.mode, r.size) /\ Fan(r) \subseteq DOMAIN Score
  /\ r.place \in {"failed", "accepted"} => r.kids = {} /\ r.done = {}
  /\ r.place = "fan" =>
       r.mode # "sequential_bloat" /\ r.kids = Fan(r) /\ r.done \subseteq r.kids
  /\ r.place = "loop" => r.mode = "sequential_bloat" /\ r.kids = {} /\ Looped(r)
  /\ r.place = "completed" =>
       IF r.mode = "sequential_bloat"
         THEN r.kids = {} /\ r.done = 0 .. (r.size - 1)
         ELSE r.kids = Fan(r) /\ r.done = r.kids
  /\ r.winners = Chosen(r)

BatchInv ==
  /\ want \in Settings /\ seen \in Settings \cup {Unread} /\ gpc \in {"up", "down"}
  /\ batch \in [Batches -> BatchRecords]
  /\ \A b \in Batches : Sound(batch[b])

\* A batch starts a whole number of children; a healthy one, at most
\* NORMAL_MAX_CHILDREN.
LEMMA FanoutType ==
  ASSUME NEW r \in BatchRecords
  PROVE  /\ EffectiveFanout(r.mode, r.size) \in Int
         /\ r.mode = "normal" => EffectiveFanout(r.mode, r.size) <= NormalMax
  BY NumbersAssumption DEF EffectiveFanout, BatchRecords

\* Its candidates are as many as its number says: none below one.
LEMMA FanIsCounted ==
  ASSUME NEW r \in BatchRecords
  PROVE  /\ IsFiniteSet(Fan(r)) /\ Fan(r) \subseteq Int
         /\ Cardinality(Fan(r)) = (IF EffectiveFanout(r.mode, r.size) > 0
                                     THEN EffectiveFanout(r.mode, r.size) ELSE 0)
<1> DEFINE n == EffectiveFanout(r.mode, r.size)
<1>1. n \in Int  BY FanoutType
<1>2. IsFiniteSet(0 .. (n - 1))
      /\ Cardinality(0 .. (n - 1)) = IF 0 > n - 1 THEN 0 ELSE (n - 1) - 0 + 1
  BY <1>1, FS_Interval
<1> QED  BY <1>1, <1>2 DEF Fan

\* A step that replaces batch b by a sound one keeps the invariant.
LEMMA OneBatch ==
  ASSUME BatchInv, NEW b \in Batches, NEW r \in BatchRecords, Sound(r),
         batch' = [batch EXCEPT ![b] = r], UNCHANGED <<want, seen, gpc>>
  PROVE  BatchInv'
  BY DEF BatchInv, Sound, Fan, Looped, Chosen

\* No batch has been started at first.
LEMMA InitBatch == BatchInit => BatchInv
<1> SUFFICES ASSUME BatchInit  PROVE BatchInv
  OBVIOUS
<1>1. NoBatch \in BatchRecords /\ Sound(NoBatch)
  BY DEF NoBatch, BatchRecords, Sound, Chosen
<1> QED  BY <1>1 DEF BatchInit, BatchInv

\* What a batch is started as is a record of a batch.
LEMMA StartedRecord ==
  ASSUME NEW m \in {"normal", "fanout_storm", "sequential_bloat"},
         NEW n \in Int, NEW e \in Int
  PROVE  [NoBatch EXCEPT !.place = "accepted", !.mode = m, !.size = n, !.stamped = e]
           \in BatchRecords
<1>1. NoBatch \in BatchRecords  BY DEF NoBatch, BatchRecords
<1> QED  BY <1>1 DEF BatchRecords

\* Whatever flags and number the generator starts a batch with, the batch is
\* sound: every number it can read has its candidates scored.
LEMMA StartKeeps ==
  ASSUME BatchInv, NEW b \in Batches, StartBatch(b)
  PROVE  BatchInv'
<1>1. PICK n \in Sizes \ {Null} :
        batch' = [batch EXCEPT ![b] =
          [NoBatch EXCEPT !.place = "accepted", !.mode = Mode, !.size = n,
                          !.stamped = EffectiveFanout(Mode, n)]]
  BY DEF StartBatch
<1> DEFINE r == [NoBatch EXCEPT !.place = "accepted", !.mode = Mode, !.size = n,
                                !.stamped = EffectiveFanout(Mode, n)]
<1>2. Mode \in {"normal", "fanout_storm", "sequential_bloat"}  BY DEF Mode
<1>3. n \in Int
  BY SettingsAssumption, NumbersAssumption DEF Sizes, Mode, BatchInv, Unread, Numbers
<1>4. EffectiveFanout(Mode, n) \in Int
  BY <1>2, <1>3, NumbersAssumption DEF EffectiveFanout
<1>5. r \in BatchRecords  BY <1>2, <1>3, <1>4, StartedRecord
<1>6. 0 .. (EffectiveFanout(Mode, n) - 1) \subseteq DOMAIN Score
  <2>1. CASE Mode = "fanout_storm"
    <3>1. seen \in Settings /\ n = seen.children
      BY <2>1 DEF BatchInv, Mode, Unread, Sizes
    <3> QED  BY <2>1, <3>1, ScoreAssumption DEF EffectiveFanout
  <2>2. CASE Mode = "sequential_bloat"  BY <2>2 DEF EffectiveFanout
  <2>3. CASE Mode = "normal"
    <3>1. EffectiveFanout(Mode, n) <= NormalMax  BY <1>3, <2>3, NumbersAssumption DEF EffectiveFanout
    <3> QED  BY <1>4, <3>1, ScoreAssumption, NumbersAssumption
  <2> QED  BY <1>2, <2>1, <2>2, <2>3
<1>7. Sound(r)  BY <1>5, <1>6 DEF Sound, Fan, Chosen, NoBatch
<1> QED  BY <1>1, <1>5, <1>7, OneBatch DEF StartBatch

\* The first task of a batch.
LEMMA BeginKeeps ==
  ASSUME BatchInv, NEW b \in Batches, Begin(b)
  PROVE  BatchInv'
<1> DEFINE p == batch[b]
           r == [p EXCEPT !.place = IF p.mode = "sequential_bloat" THEN "loop" ELSE "fan",
                          !.kids = 0 .. (EffectiveFanout(p.mode, p.size) - 1)]
<1>1. p \in BatchRecords /\ Sound(p) /\ p.place = "accepted"  BY DEF BatchInv, Begin
<1>2. p.done = {} /\ p.winners = <<>>  BY <1>1 DEF Sound, Chosen
<1>3. IsFiniteSet(Fan(p)) /\ Fan(p) \subseteq Int  BY <1>1, FanIsCounted
<1>4. r \in BatchRecords  BY <1>1, <1>3 DEF BatchRecords, Fan
<1>5. Cardinality({}) = 0 /\ {} = 0 .. (0 - 1)  BY FS_EmptySet
<1>6. Sound(r)
  <2>1. CASE p.mode = "sequential_bloat"
    <3>1. r.kids = {}  BY <1>1, <2>1 DEF EffectiveFanout, BatchRecords
    <3>2. r.done = {}  BY <1>2 DEF BatchRecords
    <3>3. Looped(r)
      <4> HIDE DEF r
      <4> QED  BY <1>5, <3>2 DEF Looped
    <3> QED  BY <1>1, <1>2, <2>1, <3>1, <3>3 DEF Sound, Fan, Chosen, BatchRecords
  <2>2. CASE p.mode # "sequential_bloat"
    BY <1>1, <1>2, <2>2 DEF Sound, Fan, Chosen, BatchRecords
  <2> QED  BY <2>1, <2>2
<1>7. batch' = [batch EXCEPT ![b] = r] /\ UNCHANGED <<want, seen, gpc>>
  BY <1>1 DEF Begin, BatchInv, BatchRecords
<1> QED  BY <1>4, <1>6, <1>7, OneBatch


\* A child that returns is one of those that were started.
LEMMA ChildDoneKeeps ==
  ASSUME BatchInv, NEW b \in Batches, ChildDone(b)
  PROVE  BatchInv'
<1> DEFINE p == batch[b]
<1>1. p \in BatchRecords /\ Sound(p) /\ p.place = "fan"  BY DEF BatchInv, ChildDone
<1>2. PICK i \in p.kids \ p.done : batch' = [batch EXCEPT ![b].done = @ \cup {i}]
  BY DEF ChildDone
<1> DEFINE r == [p EXCEPT !.done = @ \cup {i}]
<1>3. r \in BatchRecords  BY <1>1, <1>2 DEF BatchRecords
<1>4. Sound(r)  BY <1>1, <1>2 DEF Sound, Fan, Chosen, BatchRecords
<1>5. batch' = [batch EXCEPT ![b] = r] /\ UNCHANGED <<want, seen, gpc>>
  BY <1>2 DEF ChildDone, BatchInv
<1> QED  BY <1>3, <1>4, <1>5, OneBatch

\* A fan-out that is complete is given its winners.
LEMMA GatherKeeps ==
  ASSUME BatchInv, NEW b \in Batches, Gather(b)
  PROVE  BatchInv'
<1> DEFINE p == batch[b]
           r == [p EXCEPT !.place = "completed", !.winners = Best(p.kids)]
<1>1. p \in BatchRecords /\ Sound(p) /\ p.place = "fan" /\ p.done = p.kids
  BY DEF BatchInv, Gather
<1>2. p.kids = Fan(p) /\ Candidates(p.kids)
  BY <1>1, FanIsCounted DEF Sound, Candidates
<1>3. Best(p.kids) \in Seq(Int)
  <2>1. Best(p.kids) \in Seq(p.kids) /\ p.kids \subseteq Int
    BY <1>2, BestIsBest DEF Candidates
  <2> QED  BY <2>1
<1>4. r \in BatchRecords  BY <1>1, <1>3 DEF BatchRecords
<1>5. Sound(r)  BY <1>1, <1>2 DEF Sound, Fan, Chosen, BatchRecords
<1>6. batch' = [batch EXCEPT ![b] = r] /\ UNCHANGED <<want, seen, gpc>>
  BY DEF Gather, BatchInv
<1> QED  BY <1>4, <1>5, <1>6, OneBatch

\* The loop does the next activity, or has done as many as it was asked for.
LEMMA IterateKeeps ==
  ASSUME BatchInv, NEW b \in Batches, Iterate(b)
  PROVE  BatchInv'
<1> DEFINE p == batch[b]
           i == Cardinality(p.done)
           more == [p EXCEPT !.done = @ \cup {i}]
           last == [p EXCEPT !.place = "completed"]
<1>1. p \in BatchRecords /\ Sound(p) /\ p.place = "loop" /\ UNCHANGED <<want, seen, gpc>>
  BY DEF BatchInv, Iterate
<1>2. /\ p.mode = "sequential_bloat" /\ p.kids = {} /\ p.winners = <<>> /\ p.size \in Int
      /\ i \in Nat /\ p.done = 0 .. (i - 1) /\ (i = 0 \/ i <= p.size)
  BY <1>1 DEF Sound, Looped, Chosen, BatchRecords
<1>3. CASE i < p.size
  <2>1. batch' = [batch EXCEPT ![b] = more]  BY <1>3 DEF Iterate, BatchInv
  <2>2. more \in BatchRecords  BY <1>1, <1>2 DEF BatchRecords
  <2>3. more.done = 0 .. i  BY <1>1, <1>2 DEF BatchRecords
  <2>4. Cardinality(0 .. i) = i + 1  BY <1>2, FS_Interval
  <2>5. Looped(more)
    <3>1. more.size = p.size  BY <1>1 DEF BatchRecords
    <3> HIDE DEF more
    <3> QED  BY <1>2, <1>3, <2>3, <2>4, <3>1 DEF Looped
  <2>6. Sound(more)  BY <1>1, <1>2, <2>5 DEF Sound, Fan, Chosen, BatchRecords
  <2> QED  BY <1>1, <2>1, <2>2, <2>6, OneBatch
<1>4. CASE ~(i < p.size)
  <2>1. batch' = [batch EXCEPT ![b] = last]  BY <1>4 DEF Iterate, BatchInv
  <2>2. last \in BatchRecords  BY <1>1 DEF BatchRecords
  <2>3. p.done = 0 .. (p.size - 1)
    <3>1. i = p.size \/ (i = 0 /\ p.size <= 0)  BY <1>2, <1>4
    <3> QED  BY <1>2, <3>1
  <2>4. Sound(last)  BY <1>1, <1>2, <2>3 DEF Sound, Fan, Chosen, BatchRecords
  <2> QED  BY <1>1, <2>1, <2>2, <2>4, OneBatch
<1> QED  BY <1>3, <1>4

\* Every step keeps the invariant of the batches.
LEMMA NextBatch ==
  ASSUME BatchInv, [BatchNext]_batchVars
  PROVE  BatchInv'
<1>1. CASE Operate  BY <1>1 DEF Operate, BatchInv
<1>2. CASE RefreshOk \/ NullNumber \/ Crash \/ Boot
  BY <1>2 DEF RefreshOk, NullNumber, Crash, Boot, BatchInv
<1>3. ASSUME NEW b \in Batches, StartBatch(b)  PROVE BatchInv'
  BY <1>3, StartKeeps
<1>4. ASSUME NEW b \in Batches, Work(b)  PROVE BatchInv'
  BY <1>4, BeginKeeps, ChildDoneKeeps, GatherKeeps, IterateKeeps DEF Work
<1>5. ASSUME NEW b \in Batches, ChildLost(b)  PROVE BatchInv'
  <2>1. NoBatch \in BatchRecords /\ Sound(NoBatch)
    BY DEF NoBatch, BatchRecords, Sound, Chosen
  <2> QED  BY <1>5, <2>1, OneBatch DEF ChildLost
<1>6. CASE UNCHANGED batchVars  BY <1>6 DEF batchVars, BatchInv
<1> QED  BY <1>1, <1>2, <1>3, <1>4, <1>5, <1>6 DEF BatchNext

\* The batches' invariant holds in every state.
THEOREM BatchInvariance == BatchSpec => []BatchInv
<1> QED  BY InitBatch, NextBatch, PTL DEF BatchSpec

\* The types of a batch's variables; the winners are among the children.
THEOREM BatchTypeCorrect == BatchSpec => []BatchTypeOK
<1>1. ASSUME BatchInv, NEW b \in Batches
      PROVE  batch[b].winners \in Seq(batch[b].kids)
  <2> DEFINE p == batch[b]
  <2>1. p \in BatchRecords /\ Sound(p)  BY <1>1 DEF BatchInv
  <2>2. CASE Chosen(p) = <<>>  BY <2>1, <2>2 DEF Sound
  <2>3. CASE Chosen(p) = Best(p.kids) /\ p.place = "completed" /\ p.mode # "sequential_bloat"
    <3>1. Candidates(p.kids)  BY <2>1, <2>3, FanIsCounted DEF Sound, Candidates
    <3> QED  BY <2>1, <2>3, <3>1, BestIsBest DEF Sound
  <2> QED  BY <2>2, <2>3 DEF Chosen
<1>2. BatchInv => BatchTypeOK
  BY <1>1 DEF BatchInv, BatchTypeOK, BatchRecords, Sound
<1> QED  BY <1>2, BatchInvariance, PTL

\* batch.py:25 and 31: a completed batch has gathered as many results as the
\* size it was stamped with, a healthy one is small, and its winners are the
\* best of its candidates.
THEOREM BatchesAreRight == BatchSpec => []ResultIsRight
<1>1. ASSUME BatchInv, NEW b \in Batches, batch[b].place = "completed"
      PROVE  LET r == batch[b]
                 w == r.winners
             IN  /\ r.mode = "sequential_bloat" =>
                      r.kids = {} /\ Cardinality(r.done) = (IF r.size > 0 THEN r.size ELSE 0)
                 /\ r.mode # "sequential_bloat" =>
                      Cardinality(r.done) = (IF r.stamped > 0 THEN r.stamped ELSE 0)
                 /\ r.mode = "normal" => Cardinality(r.kids) <= NormalMax
                 /\ Len(w) = (IF Cardinality(r.kids) < 3 THEN Cardinality(r.kids) ELSE 3)
                 /\ \A k \in 1 .. Len(w) :
                      \A i \in r.kids : Before(i, w[k]) => \E l \in 1 .. (k - 1) : w[l] = i
  <2> DEFINE p == batch[b]
  <2>1. p \in BatchRecords /\ Sound(p)  BY <1>1 DEF BatchInv
  <2>2. p.size \in Int  BY <2>1 DEF BatchRecords
  <2>3. CASE p.mode = "sequential_bloat"
    <3>1. p.kids = {} /\ p.done = 0 .. (p.size - 1) /\ p.winners = <<>>
      BY <1>1, <2>1, <2>3 DEF Sound, Chosen
    <3>2. Cardinality(p.done) = IF p.size > 0 THEN p.size ELSE 0
      <4> DEFINE last == p.size - 1
      <4>1. last \in Int  BY <2>2
      <4> HIDE DEF last
      <4>2. Cardinality(0 .. last) = IF 0 > last THEN 0 ELSE last - 0 + 1
        BY <4>1, FS_Interval
      <4> USE DEF last
      <4> QED  BY <2>2, <3>1, <4>2
    <3>3. Cardinality({}) = 0 /\ Len(<<>>) = 0  BY FS_EmptySet
    <3> QED  BY <2>3, <3>1, <3>2, <3>3
  <2>4. CASE p.mode # "sequential_bloat"
    <3>1. /\ p.kids = Fan(p) /\ p.done = p.kids /\ p.winners = Best(p.kids)
          /\ p.stamped = EffectiveFanout(p.mode, p.size) /\ Fan(p) \subseteq DOMAIN Score
      BY <1>1, <2>1, <2>4 DEF Sound, Chosen
    <3>2. /\ IsFiniteSet(p.kids) /\ p.kids \subseteq Int
          /\ Cardinality(p.kids) = (IF p.stamped > 0 THEN p.stamped ELSE 0)
      BY <2>1, <3>1, FanIsCounted
    <3>3. Candidates(p.kids)  BY <3>1, <3>2 DEF Candidates
    <3>4. p.mode = "normal" => Cardinality(p.kids) <= NormalMax
      BY <2>1, <3>1, <3>2, FanoutType, NumbersAssumption
    <3> HIDE DEF p
    <3>5. /\ Len(p.winners) = (IF Cardinality(p.kids) < 3 THEN Cardinality(p.kids) ELSE 3)
          /\ \A k \in 1 .. Len(p.winners) :
               \A i \in p.kids :
                 Before(i, p.winners[k]) => \E l \in 1 .. (k - 1) : p.winners[l] = i
      BY <3>1, <3>3, BestIsBest
    <3> USE DEF p
    <3> QED  BY <2>4, <3>1, <3>2, <3>4, <3>5
  <2> QED  BY <2>3, <2>4
<1>2. BatchInv => ResultIsRight  BY <1>1 DEF ResultIsRight
<1> QED  BY <1>2, BatchInvariance, PTL
=============================================================================
