----------------------------- MODULE SeedProofs -----------------------------
(***************************************************************************)
(* For any source, assets, budget and number of runs: items of the         *)
(* catalogue stay whole, only a reseed takes an asset from one, and a run  *)
(* nothing happened to counted what the budget lets in, no more, no less.  *)
(* For any images, filters and runs of the coverage job: what the three    *)
(* pictures of the catalogue show agrees.  For any items, tiles, threads   *)
(* and length of a batch: a mosaic that is finished has all its tiles, in  *)
(* order, and a mask only where an image could not be read.                *)
(***************************************************************************)
EXTENDS Seed, Coverage, Mosaic, FiniteSetTheorems, WellFoundedInduction, TLAPS

Fields == {"pc", "mode", "loaded", "at", "seen", "total", "counted", "chosen", "landed",
           "failed", "code", "clean"}

IsRun     == run = [f \in Fields |-> run[f]]
IsShelf   == items = [i \in DOMAIN items |-> items[i]]
LandedIn  == run.landed \subseteq store
Announced == (store # {} \/ Running("copy")) => collection
Planned   == \A i \in DOMAIN run.chosen : Required \subseteq run.chosen[i]
ShelfWhole ==
  \A i \in DOMAIN items :
    /\ Required \subseteq items[i]
    /\ \A a \in items[i] : <<i, a>> \in Objects => <<i, a>> \in store

(* While a run that is no reseed lasts, the catalogue has the items it found
   there, and it chose none of them. *)
FoundThere ==
  ~Running("off") /\ run.mode # "reseed" =>
    run.loaded = DOMAIN items /\ DOMAIN run.chosen \cap run.loaded = {}

SeedInv == IsRun /\ IsShelf /\ LandedIn /\ Announced /\ Planned /\ ShelfWhole /\ FoundThere
-----------------------------------------------------------------------------
(* A run that begins has planned nothing and copied nothing. *)
LEMMA NoSeedFields ==
  NoSeed = [f \in Fields |-> NoSeed[f]] /\ DOMAIN NoSeed.chosen = {} /\ NoSeed.landed = {}
  BY DEF NoSeed, Fields

(* The invariant holds before the first run. *)
LEMMA SeedInvInit == ASSUME SeedInit PROVE SeedInv
  BY DEF SeedInit, SeedInv, NoSeed, Fields, IsRun, IsShelf, LandedIn, Announced, Planned,
         ShelfWhole, FoundThere, Running

(* One item more in the plan: it has what is required, and is not loaded. *)
LEMMA PlanKeeps ==
  ASSUME SeedInv, Running("plan"), NEW i, NEW sized, NEW clean, Plan(i, sized, clean),
         UNCHANGED <<collection, items, store>>
  PROVE  SeedInv'
  <1> DEFINE next == [run EXCEPT !.at = @ + 1, !.seen = SeenWith(i), !.clean = clean]
  <1> USE DEF SeedInv, Running, Fields
  <1>1. CASE run' = next \/ run' = [next EXCEPT !.pc = "planned"]
    BY <1>1, ZenonT(60) DEF IsRun, IsShelf, LandedIn, Announced, Planned, ShelfWhole, FoundThere
  <1>2. CASE /\ Required \subseteq sized
             /\ run' = [next EXCEPT !.total = @ + Bytes(i, sized), !.counted = @ \cup {i},
                           !.chosen = IF i \in run.loaded THEN @
                                      ELSE [j \in DOMAIN @ \cup {i} |->
                                              IF j = i THEN Keeps(i, sized) ELSE @[j]]]
    <2>1. /\ run'.pc = run.pc /\ run'.mode = run.mode /\ run'.loaded = run.loaded
          /\ run'.landed = run.landed
          /\ run'.chosen = IF i \in run.loaded THEN run.chosen
                           ELSE [j \in DOMAIN run.chosen \cup {i} |->
                                   IF j = i THEN Keeps(i, sized) ELSE run.chosen[j]]
          /\ IsRun'
      BY <1>2 DEF IsRun
    <2>2. Required \subseteq Keeps(i, sized)
      BY <1>2 DEF Keeps
    <2>3. CASE i \in run.loaded
      BY <2>1, <2>3 DEF IsShelf, LandedIn, Announced, Planned, ShelfWhole, FoundThere
    <2>4. CASE i \notin run.loaded
      <3>1. /\ DOMAIN run'.chosen = {i} \cup DOMAIN run.chosen
            /\ run'.chosen[i] = Keeps(i, sized)
            /\ \A j \in DOMAIN run.chosen \ {i} : run'.chosen[j] = run.chosen[j]
        BY <2>1, <2>4
      <3> QED
        BY <2>1, <2>2, <2>4, <3>1 DEF IsShelf, LandedIn, Announced, Planned, ShelfWhole, FoundThere
    <2> QED
      BY <2>3, <2>4
  <1> QED
    BY <1>1, <1>2 DEF Plan

(* Every step keeps the invariant. *)
LEMMA SeedInvNext == ASSUME SeedInv, [SeedNext]_seedVars PROVE SeedInv'
  <1> USE DEF SeedInv, Running, Fields, IsRun, IsShelf, LandedIn, Announced, Planned, ShelfWhole,
              FoundThere
  <1>1. ASSUME NEW i \in Late, Arrives(i) PROVE SeedInv'
    BY <1>1, ZenonT(60) DEF Arrives
  <1>2. ASSUME NEW i \in Sources, AddTiles(i) PROVE SeedInv'
    BY <1>2, TilesApart, ZenonT(60) DEF AddTiles, Objects, Tiles
  <1>3. CASE StartRun
    <2>1. PICK mode \in Modes :
            run' = [NoSeed EXCEPT !.pc = "plan", !.mode = mode, !.clean = TRUE,
                                  !.loaded = LoadedIds(mode)]
      BY <1>3 DEF StartRun
    <2>2. /\ IsRun' /\ run'.pc = "plan" /\ run'.mode = mode /\ run'.loaded = LoadedIds(mode)
          /\ DOMAIN run'.chosen = {} /\ run'.landed = {}
      BY <2>1, NoSeedFields
    <2> QED
      BY <1>3, <2>2 DEF StartRun, LoadedIds
  <1>4. CASE PlanItem
    BY <1>4, PlanKeeps DEF PlanItem
  <1>5. CASE PlanUnsized
    BY <1>5, PlanKeeps DEF PlanUnsized
  <1>6. CASE PlanEnds
    BY <1>6 DEF PlanEnds
  <1>7. CASE DryRunEnds
    BY <1>7 DEF DryRunEnds
  <1>8. CASE UpsertCollection
    BY <1>8 DEF UpsertCollection
  <1>9. ASSUME NEW o \in Objects, CopyOne(o) PROVE SeedInv'
    BY <1>9 DEF CopyOne
  <1>10. ASSUME NEW o \in Objects, CopyFails(o) PROVE SeedInv'
    BY <1>10 DEF CopyFails
  <1>11. CASE Load
    <2>1. /\ IsRun' /\ run'.pc = "off" /\ run'.chosen = run.chosen /\ run'.landed = run.landed
          /\ UNCHANGED <<store, collection>>
      BY <1>11 DEF Load
    <2>2. /\ IsShelf' /\ DOMAIN items' = Loadable \cup DOMAIN items
          /\ \A i \in Loadable : items'[i] = Rewrite(i)
          /\ \A i \in DOMAIN items \ Loadable : items'[i] = items[i]
      BY <1>11 DEF Load
    <2>3. ASSUME NEW i \in Loadable
          PROVE  /\ Required \subseteq Rewrite(i)
                 /\ \A a \in Rewrite(i) : <<i, a>> \in Objects => <<i, a>> \in store
      BY DEF Loadable, Rewrite, Absent, Copies
    <2>4. ShelfWhole'
      BY <2>1, <2>2, <2>3
    <2> QED
      BY <1>11, <2>1, <2>2, <2>4
  <1>12. CASE RunDies
    BY <1>12 DEF RunDies
  <1>13. CASE UNCHANGED seedVars
    BY <1>13 DEF seedVars
  <1> QED
    BY <1>1, <1>2, <1>3, <1>4, <1>5, <1>6, <1>7, <1>8, <1>9, <1>10, <1>11, <1>12, <1>13 DEF SeedNext

(* Items of the catalogue stay whole: Load takes only items all of whose
   required assets landed, and only the assets of theirs that did. *)
THEOREM SeedWhole == SeedSpec => []SeedIsWhole
  <1>1. SeedInv => SeedIsWhole
    BY DEF SeedInv, Announced, ShelfWhole, SeedIsWhole
  <1> QED
    BY <1>1, SeedInvInit, SeedInvNext, PTL DEF SeedSpec

(* Only a reseed takes an asset from an item: another run loads none that it
   found there, and nobody else adds items meanwhile. *)
THEOREM SeedKeeps == SeedSpec => SeedKeepsAssets
  <1> DEFINE Kept == run.mode # "reseed" =>
         \A i \in DOMAIN items : i \in DOMAIN items' /\ items[i] \subseteq items'[i]
  <1>1. ASSUME SeedInv, [SeedNext]_seedVars PROVE [Kept]_seedVars
    <2>1. ASSUME NEW i \in Sources, AddTiles(i) PROVE Kept
      BY <1>1, <2>1 DEF AddTiles, SeedInv, IsShelf
    <2>2. CASE Load
      BY <2>2, <1>1 DEF Load, Loadable, SeedInv, IsShelf, FoundThere, Running
    <2>3. CASE UNCHANGED items
      BY <2>3
    <2> QED
      BY <1>1, <2>1, <2>2, <2>3 DEF SeedNext, Arrives, StartRun, PlanItem, PlanUnsized, PlanEnds,
         DryRunEnds, UpsertCollection, CopyOne, CopyFails, RunDies
  <1> QED
    BY <1>1, SeedInvInit, SeedInvNext, PTL DEF SeedSpec, SeedKeepsAssets

-----------------------------------------------------------------------------
(* Sums over finite sets, as the library computes them: an element at a time. *)
First(s) == CHOOSE x \in s : TRUE
Sums(F, g, S) == F = [s \in SUBSET S |-> IF s = {} THEN 0 ELSE g[First(s)] + F[s \ {First(s)}]]

LEMMA SumIs ==
  ASSUME NEW g, NEW S
  PROVE  SumFunctionOnSet(g, S) = (CHOOSE F : Sums(F, g, S))[S]
  BY Zenon DEF SumFunctionOnSet, FoldFunctionOnSet, MapThenFoldSet, Sums, First

LEMMA SumsAt ==
  ASSUME NEW F, NEW g, NEW S, Sums(F, g, S), NEW T \in SUBSET S
  PROVE  F[T] = IF T = {} THEN 0 ELSE g[First(T)] + F[T \ {First(T)}]
  <1> DEFINE At(s) == IF s = {} THEN 0 ELSE g[First(s)] + F[s \ {First(s)}]
  <1>1. F = [s \in SUBSET S |-> At(s)]
    BY DEF Sums
  <1> HIDE DEF At
  <1>2. F[T] = At(T)
    BY <1>1
  <1> QED BY <1>2 DEF At

LEMMA FirstIn == ASSUME NEW T, T # {} PROVE First(T) \in T
  BY DEF First

(* Of some subsets of a finite set, one has no other inside it. *)
LEMMA LeastSubset ==
  ASSUME NEW S, IsFiniteSet(S), NEW B \in SUBSET (SUBSET S), B # {}
  PROVE  \E T \in B : \A U \in SUBSET T : U # T => U \notin B
  <1>1. IsWellFoundedOn(StrictSubsetOrdering(S), SUBSET S)
    BY FS_StrictSubsetOrderingWellFounded, FS_FiniteSubsetsOfFinite
  <1>2. PICK T \in B : \A U \in B : ~(<<U, T>> \in StrictSubsetOrdering(S))
    BY <1>1, WFMin
  <1>3. ASSUME NEW U \in SUBSET T, U # T, U \in B PROVE FALSE
    BY <1>2, <1>3 DEF StrictSubsetOrdering
  <1> QED BY <1>2, <1>3

(* The sums over one set are those over another, where both have them. *)
LEMMA SumsAgree ==
  ASSUME NEW g, NEW S, NEW R, NEW F, NEW G, Sums(F, g, S), Sums(G, g, R),
         NEW T \in SUBSET (S \cap R), IsFiniteSet(T)
  PROVE  F[T] = G[T]
  <1> DEFINE B == {U \in SUBSET T : F[U] # G[U]}
  <1> SUFFICES ASSUME B # {} PROVE FALSE
    OBVIOUS
  <1>0. B \in SUBSET (SUBSET T)
    OBVIOUS
  <1> HIDE DEF B
  <1>1. PICK U \in B : \A V \in SUBSET U : V # U => V \notin B
    BY <1>0, LeastSubset
  <1> USE DEF B
  <1> U \in SUBSET S /\ U \in SUBSET R
    OBVIOUS
  <1>2. /\ F[U] = IF U = {} THEN 0 ELSE g[First(U)] + F[U \ {First(U)}]
        /\ G[U] = IF U = {} THEN 0 ELSE g[First(U)] + G[U \ {First(U)}]
    BY SumsAt
  <1>3. U # {} /\ First(U) \in U
    BY <1>2, FirstIn
  <1>4. F[U \ {First(U)}] = G[U \ {First(U)}]
    BY <1>1, <1>3
  <1> QED BY <1>2, <1>3, <1>4

(* A finite set has sums. *)
LEMMA SumsExist ==
  ASSUME NEW g, NEW S, IsFiniteSet(S)
  PROVE  \E F : Sums(F, g, S)
  <1> DEFINE B == {T \in SUBSET S : ~\E F : Sums(F, g, T)}
  <1> SUFFICES ASSUME B # {} PROVE FALSE
    OBVIOUS
  <1>0. B \in SUBSET (SUBSET S)
    OBVIOUS
  <1> HIDE DEF B
  <1>1. PICK T \in B : \A U \in SUBSET T : U # T => U \notin B
    BY <1>0, LeastSubset
  <1> USE DEF B
  <1> DEFINE Of(U) == CHOOSE F : Sums(F, g, U)
             At(s) == IF s = {} THEN 0 ELSE g[First(s)] + Of(s \ {First(s)})[s \ {First(s)}]
             F == [s \in SUBSET T |-> At(s)]
  <1>2. ASSUME NEW U \in SUBSET T, U # T PROVE Sums(Of(U), g, U) /\ IsFiniteSet(U)
    <2>1. \E H : Sums(H, g, U)
      BY <1>1, <1>2
    <2> QED BY <2>1, FS_Subset
  <1> HIDE DEF Of
  <1>3. ASSUME NEW U \in SUBSET T, U # T PROVE F[U] = Of(U)[U]
    <2>1. F[U] = At(U)
      OBVIOUS
    <2>2. Of(U)[U] = IF U = {} THEN 0 ELSE g[First(U)] + Of(U)[U \ {First(U)}]
      BY <1>2, <1>3, SumsAt
    <2>3. CASE U = {}
      BY <2>1, <2>2, <2>3
    <2>4. CASE U # {}
      <3>1. First(U) \in U
        BY <2>4, FirstIn
      <3> DEFINE V == U \ {First(U)}
      <3>2. V \in SUBSET T /\ V # T /\ V \in SUBSET (U \cap V)
        BY <3>1
      <3>3. Sums(Of(V), g, V) /\ IsFiniteSet(V) /\ Sums(Of(U), g, U)
        BY <1>2, <1>3, <3>2
      <3> HIDE DEF V
      <3>4. Of(U)[V] = Of(V)[V]
        BY <3>2, <3>3, SumsAgree
      <3> QED BY <2>1, <2>2, <2>4, <3>4 DEF V
    <2> QED BY <2>3, <2>4
  <1>4. ASSUME NEW s \in SUBSET T
        PROVE  At(s) = IF s = {} THEN 0 ELSE g[First(s)] + F[s \ {First(s)}]
    <2>1. CASE s # {}
      <3>1. First(s) \in s /\ s \ {First(s)} \in SUBSET T /\ s \ {First(s)} # T
        BY <2>1, FirstIn
      <3>2. F[s \ {First(s)}] = Of(s \ {First(s)})[s \ {First(s)}]
        BY <1>3, <3>1
      <3> QED BY <2>1, <3>2
    <2> QED BY <2>1
  <1>5. F = [s \in SUBSET T |-> At(s)]
    OBVIOUS
  <1> HIDE DEF F, At
  <1>6. Sums(F, g, T)
    BY <1>4, <1>5 DEF Sums
  <1> QED BY <1>1, <1>6

LEMMA SumOver ==
  ASSUME NEW g, NEW S, IsFiniteSet(S)
  PROVE  \E F : Sums(F, g, S) /\ SumFunctionOnSet(g, S) = F[S]
  BY SumsExist, SumIs

(* The sum over nothing is zero; over a set, that over the rest and one more. *)
LEMMA SumEmpty == ASSUME NEW g PROVE SumFunctionOnSet(g, {}) = 0
  <1>1. PICK F : Sums(F, g, {}) /\ SumFunctionOnSet(g, {}) = F[{}]
    BY SumOver, FS_EmptySet
  <1> QED BY <1>1, SumsAt

LEMMA SumFirst ==
  ASSUME NEW g, NEW S, IsFiniteSet(S), S # {}
  PROVE  SumFunctionOnSet(g, S) = g[First(S)] + SumFunctionOnSet(g, S \ {First(S)})
  <1> DEFINE R == S \ {First(S)}
  <1>1. IsFiniteSet(R) /\ R \in SUBSET (S \cap R)
    BY FS_Subset
  <1> HIDE DEF R
  <1>2. PICK F : Sums(F, g, S) /\ SumFunctionOnSet(g, S) = F[S]
    BY SumOver
  <1>3. PICK G : Sums(G, g, R) /\ SumFunctionOnSet(g, R) = G[R]
    BY <1>1, SumOver
  <1>4. F[R] = G[R]
    BY <1>1, <1>2, <1>3, SumsAgree
  <1>5. F[S] = g[First(S)] + F[R]
    BY <1>2, SumsAt DEF R
  <1> QED BY <1>2, <1>3, <1>4, <1>5 DEF R

LEMMA SumType ==
  ASSUME NEW g, NEW S, IsFiniteSet(S), \A x \in S : g[x] \in Nat
  PROVE  SumFunctionOnSet(g, S) \in Nat
  <1> DEFINE B == {T \in SUBSET S : SumFunctionOnSet(g, T) \notin Nat}
  <1> SUFFICES ASSUME B # {} PROVE FALSE
    OBVIOUS
  <1>0. B \in SUBSET (SUBSET S)
    OBVIOUS
  <1> HIDE DEF B
  <1>1. PICK T \in B : \A U \in SUBSET T : U # T => U \notin B
    BY <1>0, LeastSubset
  <1> USE DEF B
  <1>2. IsFiniteSet(T) /\ T # {}
    <2>1. T \in SUBSET S /\ SumFunctionOnSet(g, T) \notin Nat /\ 0 \in Nat
      OBVIOUS
    <2> QED BY <2>1, FS_Subset, SumEmpty
  <1>3. First(T) \in T /\ g[First(T)] \in Nat
    BY <1>2, FirstIn
  <1>4. SumFunctionOnSet(g, T \ {First(T)}) \in Nat
    BY <1>1, <1>3
  <1>5. SumFunctionOnSet(g, T) = g[First(T)] + SumFunctionOnSet(g, T \ {First(T)})
    BY <1>2, SumFirst
  <1> QED BY <1>3, <1>4, <1>5

(* Whichever is taken out first. *)
LEMMA SumTake ==
  ASSUME NEW g, NEW S, IsFiniteSet(S), \A x \in S : g[x] \in Nat, NEW x \in S
  PROVE  SumFunctionOnSet(g, S) = g[x] + SumFunctionOnSet(g, S \ {x})
  <1> DEFINE Sum(T) == SumFunctionOnSet(g, T)
             B == {T \in SUBSET S : \E y \in T : Sum(T) # g[y] + Sum(T \ {y})}
  <1> SUFFICES ASSUME B # {} PROVE FALSE
    OBVIOUS
  <1>0. B \in SUBSET (SUBSET S)
    OBVIOUS
  <1> HIDE DEF B
  <1>1. PICK T \in B : \A U \in SUBSET T : U # T => U \notin B
    BY <1>0, LeastSubset
  <1> USE DEF B
  <1>2. PICK y \in T : Sum(T) # g[y] + Sum(T \ {y})
    OBVIOUS
  <1>3. IsFiniteSet(T) /\ T # {} /\ T \in SUBSET S
    BY <1>2, FS_Subset
  <1>4. PICK p \in T : p = First(T) /\ Sum(T) = g[p] + Sum(T \ {p})
    BY <1>3, SumFirst, FirstIn
  <1>5. p # y
    BY <1>2, <1>4
  <1> DEFINE P == T \ {p}
             Y == T \ {y}
             R == T \ {p, y}
  <1>6. /\ P \in SUBSET T /\ P # T /\ y \in P /\ P \ {y} = R
        /\ Y \in SUBSET T /\ Y # T /\ p \in Y /\ Y \ {p} = R
    BY <1>5
  <1>7. IsFiniteSet(R) /\ \A z \in R : g[z] \in Nat
    BY <1>3, FS_Subset
  <1>8. Sum(R) \in Nat
    BY <1>7, SumType
  <1>9. P \in SUBSET S /\ P \notin B /\ Y \in SUBSET S /\ Y \notin B
    BY <1>1, <1>3, <1>6
  <1> HIDE DEF P, Y, R, Sum
  <1>10. Sum(P) = g[y] + Sum(R) /\ Sum(Y) = g[p] + Sum(R)
    BY <1>6, <1>9
  <1>11. g[p] \in Nat /\ g[y] \in Nat
    BY <1>3
  <1>12. Sum(T) = g[p] + (g[y] + Sum(R)) /\ Sum(T) # g[y] + (g[p] + Sum(R))
    BY <1>2, <1>4, <1>10 DEF P, Y
  <1> QED BY <1>8, <1>11, <1>12

(* A part of a set sums to no more. *)
LEMMA SumOfPart ==
  ASSUME NEW g, NEW S, IsFiniteSet(S), \A x \in S : g[x] \in Nat, NEW T \in SUBSET S
  PROVE  SumFunctionOnSet(g, T) <= SumFunctionOnSet(g, S)
  <1> DEFINE Sum(U) == SumFunctionOnSet(g, U)
             B == {U \in SUBSET S : T \subseteq U /\ ~(Sum(T) <= Sum(U))}
  <1> SUFFICES ASSUME B # {} PROVE FALSE
    OBVIOUS
  <1>0. B \in SUBSET (SUBSET S)
    OBVIOUS
  <1> HIDE DEF B
  <1>1. PICK U \in B : \A V \in SUBSET U : V # U => V \notin B
    BY <1>0, LeastSubset
  <1> USE DEF B
  <1>2. IsFiniteSet(U) /\ IsFiniteSet(T) /\ U \in SUBSET S
    BY FS_Subset
  <1>3. Sum(T) \in Nat
    BY <1>2, SumType
  <1>4. T \subseteq U /\ ~(Sum(T) <= Sum(U))
    OBVIOUS
  <1>5. PICK x \in U : x \notin T
    BY <1>3, <1>4
  <1> DEFINE V == U \ {x}
  <1>6. V \in SUBSET U /\ V # U /\ V \in SUBSET S /\ T \subseteq V /\ IsFiniteSet(V)
    BY <1>2, <1>4, <1>5, FS_Subset
  <1>7. Sum(U) = g[x] + Sum(V)
    BY <1>2, SumTake
  <1>8. V \notin B
    BY <1>1, <1>6
  <1> HIDE DEF V
  <1>9. Sum(V) \in Nat /\ g[x] \in Nat
    BY <1>2, <1>6, SumType
  <1> HIDE DEF Sum
  <1>10. Sum(T) <= Sum(V)
    BY <1>6, <1>8
  <1> QED BY <1>3, <1>4, <1>7, <1>9, <1>10
-----------------------------------------------------------------------------
(* What the budget lets in: the window, and how far in it a run is. *)
(* What a run has counted, of the items it looked at. *)
Looked(n) == {listing[m] : m \in {k \in 1..n : Usable(k)}}

(* A run nothing happened to is as far in the window as it is in the listing, *)
Filling ==
  Running("plan") /\ run.clean =>
    /\ run.seen = run.at /\ run.at <= MaxItems
    /\ run.total = UpTo(run.at) /\ run.total <= MaxBytes
    /\ run.counted = Looked(run.at)

(* and has counted all of it when the plan is made. *)
Filled == ~Running("plan") /\ run.clean => run.counted = Window

(* What it counted is loaded, or chosen to be. *)
Accounted ==
  /\ run.counted \subseteq run.loaded \cup DOMAIN run.chosen
  /\ run.loaded \subseteq DOMAIN items

Told ==
  Running("off") /\ run.mode # "dry" =>
    /\ run.code = 0 => run.counted \subseteq DOMAIN items
    /\ run.clean => run.code = 0

(* Only the source's items and assets are planned. *)
ChosenOf ==
  /\ DOMAIN run.chosen \subseteq Sources
  /\ \A i \in DOMAIN run.chosen : run.chosen[i] \subseteq Assets

WindowInv == SeedTypeOK /\ ChosenOf /\ Filling /\ Filled /\ Accounted /\ Told

LEMMA SizesCount ==
  ASSUME NEW i \in Sources
  PROVE  /\ AtSource(i) \subseteq Assets
         /\ \A names \in SUBSET Assets : Bytes(i, names) \in Nat
  <1>1. AtSource(i) \subseteq Assets
    BY SourceKnown DEF AtSource, Copyable
  <1>2. ASSUME NEW names \in SUBSET Assets PROVE Bytes(i, names) \in Nat
    <2>1. IsFiniteSet(names) /\ \A a \in names : Size[a] \in Nat
      BY AssetsFinite, BudgetCounts, FS_Subset
    <2> QED BY <2>1, SumType DEF Bytes
  <1> QED BY <1>1, <1>2

(* The bytes of the first n items add up item by item, and never go down. *)
LEMMA UpToAdds ==
  ASSUME listing \in Seq(Sources), NEW n \in 0..Len(listing)
  PROVE  /\ UpTo(n) \in Nat /\ UpTo(0) = 0
         /\ \A m \in 0..n : UpTo(m) <= UpTo(n)
         /\ n < Len(listing) =>
              UpTo(n + 1) = IF Usable(n + 1)
                            THEN UpTo(n) + Bytes(listing[n + 1], AtSource(listing[n + 1]))
                            ELSE UpTo(n)
  <1> DEFINE len == Len(listing)
             g == [m \in 1..len |-> Bytes(listing[m], AtSource(listing[m]))]
             S(m) == {k \in 1..m : Usable(k)}
  <1>1. \A m : UpTo(m) = SumFunctionOnSet(g, S(m))
    BY DEF UpTo
  <1>2. len \in Nat
    OBVIOUS
  <1>3. \A m \in 1..len : g[m] \in Nat
    <2>1. ASSUME NEW m \in 1..len PROVE listing[m] \in Sources
      OBVIOUS
    <2> QED BY <2>1, SizesCount
  <1> HIDE DEF len
  <1>4. ASSUME NEW m \in 0..len PROVE IsFiniteSet(S(m)) /\ S(m) \subseteq 1..len
    <2>1. IsFiniteSet(1..m)
      BY <1>2, FS_Interval
    <2>2. S(m) \in SUBSET (1..m)
      OBVIOUS
    <2> QED BY <1>2, <2>1, <2>2, FS_Subset
  <1>5. S(0) = {}
    OBVIOUS
  <1>6. \A m \in 0..n : S(m) \subseteq S(n)
    BY <1>2 DEF len
  <1>7. ASSUME n < len PROVE S(n + 1) = IF Usable(n + 1) THEN S(n) \cup {n + 1} ELSE S(n)
    BY <1>2, <1>7 DEF len
  <1>8. n \in 0..len /\ n + 1 \notin S(n) /\ n \in Nat
    BY <1>2 DEF len
  <1>9. n < len => g[n + 1] = Bytes(listing[n + 1], AtSource(listing[n + 1]))
    BY <1>2, <1>8
  <1> HIDE DEF g, S
  <1>10. UpTo(n) \in Nat
    BY <1>1, <1>3, <1>4, <1>8, SumType
  <1>11. UpTo(0) = 0
    BY <1>1, <1>5, SumEmpty
  <1>12. ASSUME NEW m \in 0..n PROVE UpTo(m) <= UpTo(n)
    <2>1. S(m) \in SUBSET S(n) /\ IsFiniteSet(S(n)) /\ \A k \in S(n) : g[k] \in Nat
      BY <1>3, <1>4, <1>6, <1>8
    <2> QED BY <1>1, <2>1, SumOfPart
  <1>13. ASSUME n < len, Usable(n + 1) PROVE UpTo(n + 1) = UpTo(n) + g[n + 1]
    <2>1. n + 1 \in 0..len
      BY <1>2, <1>8, <1>13
    <2>2. IsFiniteSet(S(n + 1)) /\ (\A k \in S(n + 1) : g[k] \in Nat) /\ n + 1 \in S(n + 1)
          /\ S(n + 1) \ {n + 1} = S(n)
      BY <1>3, <1>4, <1>7, <1>8, <1>13, <2>1
    <2>3. UpTo(n + 1) = g[n + 1] + UpTo(n)
      BY <1>1, <2>2, SumTake
    <2>4. g[n + 1] \in Nat
      BY <1>4, <1>3, <2>1, <2>2
    <2> QED BY <1>10, <2>3, <2>4
  <1>14. ASSUME n < len, ~Usable(n + 1) PROVE UpTo(n + 1) = UpTo(n)
    BY <1>1, <1>7, <1>14
  <1> QED BY <1>9, <1>10, <1>11, <1>12, <1>13, <1>14 DEF len

LEMMA LookedAdds ==
  ASSUME NEW n \in Nat
  PROVE  /\ Looked(0) = {}
         /\ Looked(n + 1) = IF Usable(n + 1) THEN Looked(n) \cup {listing[n + 1]} ELSE Looked(n)
  <1>1. {k \in 1..0 : Usable(k)} = {}
    OBVIOUS
  <1>2. {k \in 1..(n + 1) : Usable(k)}
          = IF Usable(n + 1) THEN {k \in 1..n : Usable(k)} \cup {n + 1}
                             ELSE {k \in 1..n : Usable(k)}
    OBVIOUS
  <1> QED BY <1>1, <1>2 DEF Looked

(* A run that stops within its limits has been through the whole window: it is
   at the end, at MAX_ITEMS, or before an item that does not fit. *)
LEMMA WindowThere ==
  ASSUME listing \in Seq(Sources), NEW n \in 0..Len(listing), n <= MaxItems, UpTo(n) <= MaxBytes,
         \/ n = Len(listing) \/ n >= MaxItems
         \/ n < Len(listing) /\ ~(UpTo(n + 1) <= MaxBytes)
  PROVE  Looked(n) = Window
  <1> PICK len \in Nat : len = Len(listing)
    OBVIOUS
  <1>1. MaxItems \in Nat /\ MaxBytes \in Nat /\ n \in Nat /\ n <= len
    BY BudgetCounts
  <1> DEFINE In == {m \in 1..len : m <= MaxItems /\ Usable(m) /\ UpTo(m) <= MaxBytes}
  <1>2. Window = {listing[m] : m \in In}
    BY DEF Window
  <1>3. Looked(n) = {listing[m] : m \in {k \in 1..n : Usable(k)}}
    BY DEF Looked
  <1>4. ASSUME NEW m \in 1..n PROVE m \in 1..len /\ m <= MaxItems /\ UpTo(m) <= MaxBytes
    <2>1. m \in 1..len /\ m <= MaxItems /\ m \in 0..n /\ m \in 0..len
      BY <1>1
    <2>2. UpTo(m) <= UpTo(n) /\ UpTo(m) \in Nat /\ UpTo(n) \in Nat
      BY <2>1, UpToAdds
    <2> QED BY <1>1, <2>1, <2>2
  <1>5. ASSUME NEW m \in In PROVE m \in 1..n
    <2>1. m \in 1..len /\ m <= MaxItems /\ UpTo(m) <= MaxBytes
      OBVIOUS
    <2>2. SUFFICES ASSUME m > n PROVE FALSE
      BY <1>1, <2>1
    <2>3. n < len /\ n < MaxItems /\ n + 1 \in 0..m /\ m \in 0..len /\ n + 1 \in 0..len
      BY <1>1, <2>1, <2>2
    <2>4. ~(UpTo(n + 1) <= MaxBytes)
      BY <1>1, <2>3
    <2>5. UpTo(n + 1) <= UpTo(m) /\ UpTo(m) \in Nat /\ UpTo(n + 1) \in Nat
      BY <2>3, UpToAdds
    <2> QED BY <1>1, <2>1, <2>4, <2>5
  <1>6. In = {k \in 1..n : Usable(k)}
    BY <1>4, <1>5
  <1> QED BY <1>2, <1>3, <1>6

(* The window, and what was looked at, depend on the listing alone. *)
LEMMA ListingOnly ==
  ASSUME listing' = listing
  PROVE  Window' = Window /\ \A n : UpTo(n)' = UpTo(n) /\ Looked(n)' = Looked(n)
  <1>1. \A n : Usable(n)' = Usable(n)
    BY DEF Usable, AtSource, Copyable
  <1>2. \A n : UpTo(n)' = UpTo(n)
    BY Zenon DEF UpTo, Usable, AtSource, Copyable, Bytes
  <1>3. \A n : Looked(n)' = Looked(n)
    BY Zenon DEF Looked, Usable, AtSource, Copyable
  <1>4. Window' = Window
    BY Zenon DEF Window, UpTo, Usable, AtSource, Copyable, Bytes
  <1> QED BY <1>2, <1>3, <1>4

LEMMA WindowInit == ASSUME SeedInit PROVE WindowInv
  <1>1. /\ run.pc = "off" /\ run.at = 0 /\ run.counted = {} /\ run.loaded = {} /\ run.clean = FALSE
        /\ DOMAIN run.chosen = {} /\ run.landed = {} /\ run.failed = {} /\ run.code = 1
    BY DEF SeedInit, NoSeed
  <1>2. /\ listing \in Seq(Sources) /\ collection = FALSE /\ DOMAIN items = {} /\ store = {}
    BY SourceKnown DEF SeedInit
  <1>3. 0 \in 0..Len(listing)
    BY <1>2
  <1>4. SeedTypeOK
    BY <1>1, <1>2, <1>3 DEF SeedTypeOK
  <1> QED BY <1>1, <1>2, <1>4 DEF WindowInv, ChosenOf, Filling, Filled, Accounted, Told, Running

(* One item more is looked at, with the sizes that could be had. *)
LEMMA PlanFills ==
  ASSUME SeedInv, WindowInv, Running("plan"), run.at < Len(listing), run.seen < MaxItems,
         NEW sized, sized \subseteq AtSource(listing[run.at + 1]), NEW clean,
         clean => run.clean /\ sized = AtSource(listing[run.at + 1]),
         Plan(listing[run.at + 1], sized, clean),
         UNCHANGED <<listing, collection, items, store>>
  PROVE  WindowInv'
  <1> PICK i, n, len : i = listing[run.at + 1] /\ n = run.at /\ len = Len(listing)
    OBVIOUS
  <1> DEFINE next == [run EXCEPT !.at = @ + 1, !.seen = SeenWith(i), !.clean = clean]
  <1>1. /\ n \in Nat /\ len \in Nat /\ n < len /\ i \in Sources /\ listing \in Seq(Sources)
        /\ n \in 0..Len(listing) /\ i = listing[n + 1]
    BY DEF WindowInv, SeedTypeOK
  <1>2. sized \subseteq Assets /\ Keeps(i, sized) \subseteq Assets /\ Bytes(i, sized) \in Nat
    BY <1>1, SizesCount, SourceKnown DEF Keeps, Copyable
  <1>3. /\ UpTo(n) \in Nat
        /\ UpTo(n + 1) = IF Usable(n + 1) THEN UpTo(n) + Bytes(i, AtSource(i)) ELSE UpTo(n)
        /\ Looked(n + 1) = IF Usable(n + 1) THEN Looked(n) \cup {i} ELSE Looked(n)
    BY <1>1, UpToAdds, LookedAdds
  <1>4. clean => /\ run.clean /\ sized = AtSource(i) /\ run.seen = n /\ n <= MaxItems
                 /\ run.total = UpTo(n) /\ run.total <= MaxBytes /\ run.counted = Looked(n)
                 /\ (Usable(n + 1) <=> Required \subseteq sized)
    BY <1>1 DEF WindowInv, Filling, Usable
  <1>5. Window' = Window /\ \A m : UpTo(m)' = UpTo(m) /\ Looked(m)' = Looked(m)
    BY ListingOnly
  <1>6. MaxItems \in Nat /\ MaxBytes \in Nat
    BY BudgetCounts
  <1>7. /\ next = [f \in Fields |-> next[f]] /\ next.pc = run.pc /\ next.mode = run.mode
        /\ next.loaded = run.loaded
        /\ next.at = n + 1 /\ next.seen = run.seen + 1 /\ next.total = run.total
        /\ next.counted = run.counted /\ next.chosen = run.chosen /\ next.landed = run.landed
        /\ next.failed = run.failed /\ next.code = run.code /\ next.clean = clean
    BY DEF SeedInv, IsRun, Fields, SeenWith
  <1> DEFINE total == next.total + Bytes(i, sized)
             counted == next.counted \cup {i}
             chosen == IF i \in run.loaded THEN next.chosen
                       ELSE [j \in DOMAIN next.chosen \cup {i} |->
                               IF j = i THEN Keeps(i, sized) ELSE next.chosen[j]]
  <1>8. \/ /\ ~(Required \subseteq sized) /\ run' = next
        \/ /\ Required \subseteq sized /\ run.total + Bytes(i, sized) > MaxBytes
           /\ run' = [next EXCEPT !.pc = "planned"]
        \/ /\ Required \subseteq sized /\ ~(run.total + Bytes(i, sized) > MaxBytes)
           /\ run' = [next EXCEPT !.total = total, !.counted = counted, !.chosen = chosen]
    BY <1>1, ZenonT(60) DEF Plan
  <1>9. /\ SeedTypeOK /\ ChosenOf /\ Accounted /\ run.pc = "plan"
    BY DEF WindowInv, Running
  <1> HIDE DEF next
  <1>10. CASE ~(Required \subseteq sized) /\ run' = next
    <2>1. Filling'
      <3> SUFFICES ASSUME clean
                   PROVE  /\ run'.seen = n + 1 /\ n + 1 <= MaxItems
                          /\ run'.total = UpTo(n + 1) /\ run'.total <= MaxBytes
                          /\ run'.counted = Looked(n + 1)
        BY <1>5, <1>7, <1>10 DEF Filling
      <3>1. run.seen = n /\ run.total = UpTo(n) /\ run.counted = Looked(n) /\ ~Usable(n + 1)
            /\ run.total <= MaxBytes
        BY <1>4, <1>10
      <3> QED BY <1>1, <1>3, <1>6, <1>7, <1>10, <3>1
    <2>2. Filled' /\ Told' /\ ChosenOf' /\ Accounted'
      BY <1>7, <1>9, <1>10 DEF Filled, Told, ChosenOf, Accounted, Running
    <2>3. SeedTypeOK'
      BY <1>1, <1>7, <1>9, <1>10 DEF SeedTypeOK
    <2> QED BY <2>1, <2>2, <2>3 DEF WindowInv
  <1>11. CASE /\ Required \subseteq sized /\ run.total + Bytes(i, sized) > MaxBytes
              /\ run' = [next EXCEPT !.pc = "planned"]
    <2>1. /\ run'.pc = "planned" /\ run'.at = n + 1 /\ run'.counted = run.counted
          /\ run'.loaded = run.loaded /\ run'.chosen = run.chosen /\ run'.landed = run.landed
          /\ run'.failed = run.failed /\ run'.clean = clean
      BY <1>7, <1>11 DEF Fields
    <2>2. clean => Looked(n) = Window
      <3> SUFFICES ASSUME clean PROVE Looked(n) = Window
        OBVIOUS
      <3>1. sized = AtSource(i) /\ Usable(n + 1) /\ n <= MaxItems
            /\ run.total = UpTo(n) /\ run.total <= MaxBytes
        BY <1>4, <1>11
      <3>2. UpTo(n) <= MaxBytes /\ n < Len(listing) /\ ~(UpTo(n + 1) <= MaxBytes)
        BY <1>1, <1>2, <1>3, <1>6, <1>11, <3>1
      <3> QED BY <1>1, <3>1, <3>2, WindowThere
    <2>3. Filled'
      BY <1>4, <1>5, <2>1, <2>2 DEF Filled
    <2>4. Filling' /\ Told' /\ ChosenOf' /\ Accounted'
      BY <1>9, <2>1 DEF Filling, Told, ChosenOf, Accounted, Running
    <2>5. SeedTypeOK'
      BY <1>1, <1>9, <2>1 DEF SeedTypeOK
    <2> QED BY <2>3, <2>4, <2>5 DEF WindowInv
  <1>12. CASE /\ Required \subseteq sized /\ ~(run.total + Bytes(i, sized) > MaxBytes)
              /\ run' = [next EXCEPT !.total = total, !.counted = counted, !.chosen = chosen]
    <2>1. /\ run'.pc = run.pc /\ run'.at = n + 1 /\ run'.seen = run.seen + 1
          /\ run'.total = run.total + Bytes(i, sized) /\ run'.counted = run.counted \cup {i}
          /\ run'.chosen = chosen
          /\ run'.loaded = run.loaded /\ run'.landed = run.landed
          /\ run'.failed = run.failed /\ run'.clean = clean
      BY <1>7, <1>12 DEF Fields
    <2>2. /\ DOMAIN chosen \subseteq DOMAIN run.chosen \cup {i}
          /\ i \notin run.loaded => i \in DOMAIN chosen
          /\ DOMAIN run.chosen \subseteq DOMAIN chosen
          /\ \A j \in DOMAIN chosen : \/ j \in DOMAIN run.chosen /\ chosen[j] = run.chosen[j]
                                      \/ chosen[j] = Keeps(i, sized)
      BY <1>7
    <2> HIDE DEF chosen
    <2>3. Filling'
      <3> SUFFICES ASSUME clean
                   PROVE  /\ run'.seen = n + 1 /\ n + 1 <= MaxItems
                          /\ run'.total = UpTo(n + 1) /\ run'.total <= MaxBytes
                          /\ run'.counted = Looked(n + 1)
        BY <1>5, <2>1 DEF Filling
      <3>1. run.seen = n /\ run.total = UpTo(n) /\ run.counted = Looked(n) /\ Usable(n + 1)
            /\ sized = AtSource(i)
        BY <1>4, <1>12
      <3> QED BY <1>1, <1>2, <1>3, <1>6, <1>12, <2>1, <3>1
    <2>4. Filled' /\ Told'
      BY <1>9, <2>1 DEF Filled, Told, Running
    <2>5. ChosenOf' /\ Accounted'
      BY <1>1, <1>2, <1>9, <2>1, <2>2 DEF ChosenOf, Accounted
    <2>6. SeedTypeOK'
      BY <1>1, <1>9, <2>1 DEF SeedTypeOK
    <2> QED BY <2>3, <2>4, <2>5, <2>6 DEF WindowInv
  <1> QED BY <1>8, <1>10, <1>11, <1>12

(* A copy or a failed one, or an end of the run that is no success: nothing the
   window is about moves. *)
LEMMA WindowStays ==
  ASSUME WindowInv, UNCHANGED <<listing, collection, items>>, store' \subseteq Objects,
         run'.counted = run.counted, run'.loaded = run.loaded, run'.chosen = run.chosen,
         run'.at = run.at, run'.landed \cup run'.failed \subseteq Objects,
         run'.pc \in {"off", "planned", "copy"}, run'.mode = run.mode,
         run'.clean => run.clean,
         ~Running("plan") \/ ~run'.clean,
         run'.pc = "off" /\ run.mode # "dry" =>
           /\ run'.code = 0 => run.counted \subseteq DOMAIN items
           /\ run'.clean => run'.code = 0
  PROVE  WindowInv'
  <1>1. Window' = Window
    BY ListingOnly
  <1>2. SeedTypeOK' /\ ChosenOf' /\ Accounted'
    BY DEF WindowInv, SeedTypeOK, ChosenOf, Accounted
  <1>3. Filling' /\ Filled' /\ Told'
    BY <1>1 DEF WindowInv, Filling, Filled, Told, Running
  <1> QED BY <1>2, <1>3 DEF WindowInv

(* Every step keeps it. *)
LEMMA WindowNext == ASSUME SeedInv, WindowInv, [SeedNext]_seedVars PROVE WindowInv'
  <1>1. ASSUME NEW i \in Late, Arrives(i) PROVE WindowInv'
    <2>1. PICK k \in 0..Len(listing) :
            /\ listing' = SubSeq(listing, 1, k) \o <<i>> \o SubSeq(listing, k + 1, Len(listing))
            /\ run' = [run EXCEPT !.clean = FALSE, !.at = IF k < @ THEN @ + 1 ELSE @]
      BY <1>1 DEF Arrives
    <2>2. /\ run'.clean = FALSE /\ run'.at = IF k < run.at THEN run.at + 1 ELSE run.at
          /\ run'.pc = run.pc /\ run'.mode = run.mode /\ run'.code = run.code
          /\ run'.counted = run.counted /\ run'.loaded = run.loaded /\ run'.chosen = run.chosen
          /\ run'.landed = run.landed /\ run'.failed = run.failed
      BY <2>1 DEF SeedInv, IsRun, Fields
    <2>3. UNCHANGED <<collection, items, store>>
      BY <1>1 DEF Arrives
    <2>4. listing' \in Seq(Sources) /\ Len(listing') = Len(listing) + 1
      <3>1. listing \in Seq(Sources) /\ i \in Sources
        BY DEF WindowInv, SeedTypeOK, Sources
      <3> DEFINE a == SubSeq(listing, 1, k)
                 c == SubSeq(listing, k + 1, Len(listing))
      <3>2. a \in Seq(Sources) /\ Len(a) = k /\ c \in Seq(Sources) /\ Len(c) = Len(listing) - k
        BY <3>1
      <3>3. <<i>> \in Seq(Sources) /\ Len(<<i>>) = 1
        BY <3>1
      <3> HIDE DEF a, c
      <3>4. a \o <<i>> \in Seq(Sources) /\ Len(a \o <<i>>) = k + 1
        BY <3>2, <3>3
      <3> DEFINE b == a \o <<i>>
      <3> HIDE DEF b
      <3>5. b \o c \in Seq(Sources) /\ Len(b \o c) = k + 1 + (Len(listing) - k)
        BY <3>2, <3>4 DEF b
      <3>6. listing' = b \o c
        BY <2>1 DEF a, b, c
      <3> QED BY <3>1, <3>5, <3>6
    <2>5. run'.at \in 0..Len(listing')
      <3>1. run.at \in 0..Len(listing) /\ Len(listing) \in Nat
        BY DEF WindowInv, SeedTypeOK
      <3> QED BY <2>2, <2>4, <3>1
    <2>6. SeedTypeOK'
      BY <2>2, <2>3, <2>4, <2>5 DEF WindowInv, SeedTypeOK
    <2>7. ChosenOf' /\ Accounted' /\ Told'
      BY <2>2, <2>3 DEF WindowInv, ChosenOf, Accounted, Told, Running
    <2>8. Filling' /\ Filled'
      BY <2>2 DEF Filling, Filled
    <2> QED BY <2>6, <2>7, <2>8 DEF WindowInv
  <1>2. ASSUME NEW i \in Sources, AddTiles(i) PROVE WindowInv'
    <2>1. /\ UNCHANGED <<listing, collection, store, run>> /\ i \in DOMAIN items
          /\ items' = [items EXCEPT ![i] = @ \cup {Tiles}]
      BY <1>2 DEF AddTiles
    <2>2. /\ DOMAIN items' = DOMAIN items
          /\ \A j \in DOMAIN items : items'[j] \subseteq items[j] \cup {Tiles}
      BY <2>1 DEF SeedInv, IsShelf
    <2>3. Window' = Window /\ \A n : UpTo(n)' = UpTo(n) /\ Looked(n)' = Looked(n)
      BY <2>1, ListingOnly
    <2>4. SeedTypeOK'
      BY <2>1, <2>2 DEF WindowInv, SeedTypeOK
    <2>5. ChosenOf' /\ Accounted' /\ Told'
      BY <2>1, <2>2 DEF WindowInv, ChosenOf, Accounted, Told, Running
    <2>6. Filling'
      BY <2>1, <2>3 DEF WindowInv, Filling, Running
    <2>7. Filled'
      BY <2>1, <2>3 DEF WindowInv, Filled, Running
    <2> QED BY <2>4, <2>5, <2>6, <2>7 DEF WindowInv
  <1>3. CASE StartRun
    <2>1. PICK mode \in Modes :
            run' = [NoSeed EXCEPT !.pc = "plan", !.mode = mode, !.clean = TRUE,
                                  !.loaded = LoadedIds(mode)]
      BY <1>3 DEF StartRun
    <2>2. UNCHANGED <<listing, collection, items, store>>
      BY <1>3 DEF StartRun
    <2>3. /\ run'.pc = "plan" /\ run'.mode = mode /\ run'.loaded = LoadedIds(mode) /\ run'.at = 0
          /\ run'.seen = 0 /\ run'.total = 0 /\ run'.counted = {} /\ DOMAIN run'.chosen = {}
          /\ run'.landed = {} /\ run'.failed = {}
      BY <2>1 DEF NoSeed
    <2>4. listing \in Seq(Sources) /\ Len(listing) \in Nat /\ MaxItems \in Nat /\ MaxBytes \in Nat
      BY BudgetCounts DEF WindowInv, SeedTypeOK
    <2>5. UpTo(0) = 0 /\ Looked(0) = {}
      <3>1. 0 \in 0..Len(listing)
        BY <2>4
      <3> QED BY <2>4, <3>1, UpToAdds, LookedAdds
    <2>6. UpTo(0)' = UpTo(0) /\ Looked(0)' = Looked(0)
      BY <2>2, ListingOnly
    <2>7. Filling'
      BY <2>3, <2>4, <2>5, <2>6 DEF Filling
    <2>8. SeedTypeOK'
      BY <2>2, <2>3, <2>4 DEF WindowInv, SeedTypeOK
    <2> QED
      BY <2>2, <2>3, <2>7, <2>8 DEF WindowInv, ChosenOf, Filled, Accounted, Told, Running, LoadedIds
  <1>4. CASE PlanItem
    <2>1. /\ run.at < Len(listing) /\ run.seen < MaxItems /\ Running("plan")
          /\ UNCHANGED <<listing, collection, items, store>>
          /\ Plan(listing[run.at + 1], AtSource(listing[run.at + 1]), run.clean)
      BY <1>4, Zenon DEF PlanItem
    <2> QED BY <2>1, PlanFills
  <1>5. CASE PlanUnsized
    <2>1. PICK lost \in AtSource(listing[run.at + 1]) :
            Plan(listing[run.at + 1], AtSource(listing[run.at + 1]) \ {lost}, FALSE)
      BY <1>5, Zenon DEF PlanUnsized
    <2>2. /\ run.at < Len(listing) /\ run.seen < MaxItems /\ Running("plan")
          /\ UNCHANGED <<listing, collection, items, store>>
      BY <1>5 DEF PlanUnsized
    <2> QED BY <2>1, <2>2, PlanFills
  <1>6. CASE PlanEnds
    <2>1. /\ run'.pc = "planned" /\ run'.mode = run.mode
          /\ run'.at = run.at /\ run'.clean = run.clean
          /\ run'.counted = run.counted /\ run'.loaded = run.loaded /\ run'.chosen = run.chosen
          /\ run'.landed = run.landed /\ run'.failed = run.failed
          /\ UNCHANGED <<listing, collection, items, store>>
      BY <1>6 DEF PlanEnds, SeedInv, IsRun, Fields
    <2>2. Window' = Window
      BY <2>1, ListingOnly
    <2>3. run.clean => run.counted = Window
      <3> SUFFICES ASSUME run.clean PROVE run.counted = Window
        OBVIOUS
      <3>1. /\ run.seen = run.at /\ run.at <= MaxItems /\ UpTo(run.at) <= MaxBytes
            /\ run.counted = Looked(run.at) /\ listing \in Seq(Sources) /\ run.at \in 0..Len(listing)
        BY <1>6 DEF PlanEnds, WindowInv, Filling, SeedTypeOK
      <3> PICK n : n = run.at
        OBVIOUS
      <3>2. n = Len(listing) \/ n >= MaxItems
        BY <1>6, <3>1 DEF PlanEnds
      <3>3. Looked(n) = Window
        BY <3>1, <3>2, WindowThere
      <3> QED BY <3>1, <3>3
    <2>4. SeedTypeOK'
      BY <2>1 DEF WindowInv, SeedTypeOK
    <2> QED
      BY <2>1, <2>2, <2>3, <2>4 DEF WindowInv, ChosenOf, Filling, Filled, Accounted, Told, Running
  <1>7. CASE DryRunEnds
    <2>1. /\ run'.pc = "off" /\ run'.mode = run.mode /\ run'.at = run.at /\ run'.clean = run.clean
          /\ run'.counted = run.counted /\ run'.loaded = run.loaded /\ run'.chosen = run.chosen
          /\ run'.landed = run.landed /\ run'.failed = run.failed /\ run.mode = "dry"
          /\ UNCHANGED <<listing, collection, items, store>> /\ run.pc = "planned"
      BY <1>7 DEF DryRunEnds, SeedInv, IsRun, Fields, Running
    <2> QED BY <2>1, WindowStays DEF WindowInv, SeedTypeOK, Running
  <1>8. CASE UpsertCollection
    <2>1. /\ run'.mode = run.mode /\ run'.at = run.at /\ run'.clean = run.clean
          /\ run'.counted = run.counted /\ run'.loaded = run.loaded /\ run'.chosen = run.chosen
          /\ run'.landed = run.landed /\ run'.failed = run.failed /\ collection' = TRUE
          /\ UNCHANGED <<listing, items, store>> /\ run.pc = "planned"
          /\ IF DOMAIN run.chosen = {} THEN run'.pc = "off" /\ run'.code = 0 ELSE run'.pc = "copy"
      BY <1>8 DEF UpsertCollection, SeedInv, IsRun, Fields, Running
    <2>2. Window' = Window
      BY <2>1, ListingOnly
    <2>3. SeedTypeOK' /\ ChosenOf' /\ Accounted'
      BY <2>1 DEF WindowInv, SeedTypeOK, ChosenOf, Accounted
    <2>4. Filling' /\ Filled'
      BY <2>1, <2>2 DEF WindowInv, Filling, Filled, Running
    <2>5. Told'
      BY <2>1 DEF WindowInv, Accounted, Told, Running
    <2> QED BY <2>3, <2>4, <2>5 DEF WindowInv
  <1>9. ASSUME NEW o \in Objects, CopyOne(o) PROVE WindowInv'
    <2>1. /\ run'.pc = "copy" /\ run'.mode = run.mode /\ run'.at = run.at /\ run'.clean = run.clean
          /\ run'.counted = run.counted /\ run'.loaded = run.loaded /\ run'.chosen = run.chosen
          /\ run'.landed = run.landed \cup {o} /\ run'.failed = run.failed
          /\ UNCHANGED <<listing, collection, items>> /\ store' = store \cup {o} /\ run.pc = "copy"
      BY <1>9 DEF CopyOne, SeedInv, IsRun, Fields, Running
    <2> QED BY <2>1, WindowStays DEF WindowInv, SeedTypeOK, Running
  <1>10. ASSUME NEW o \in Objects, CopyFails(o) PROVE WindowInv'
    <2>1. /\ run'.pc = "copy" /\ run'.mode = run.mode /\ run'.at = run.at /\ run'.clean = run.clean
          /\ run'.counted = run.counted /\ run'.loaded = run.loaded /\ run'.chosen = run.chosen
          /\ run'.landed = run.landed /\ run'.failed = run.failed \cup {o}
          /\ UNCHANGED <<listing, collection, items, store>> /\ run.pc = "copy"
      BY <1>10 DEF CopyFails, SeedInv, IsRun, Fields, Running
    <2> QED BY <2>1, WindowStays DEF WindowInv, SeedTypeOK, Running
  <1>11. CASE Load
    <2>1. /\ run'.pc = "off" /\ run'.mode = run.mode /\ run'.at = run.at
          /\ run'.code = IF Loadable = DOMAIN run.chosen THEN 0 ELSE 1
          /\ run'.counted = run.counted /\ run'.loaded = run.loaded /\ run'.chosen = run.chosen
          /\ run'.landed = run.landed /\ run'.failed = run.failed
          /\ UNCHANGED <<listing, collection, store>> /\ run.pc = "copy"
      BY <1>11 DEF Load, SeedInv, IsRun, Fields, Running
    <2>2. run'.clean = (run.clean /\ run.failed = {})
      BY <1>11, Zenon DEF Load, SeedInv, IsRun, Fields
    <2>3. /\ DOMAIN items' = Loadable \cup DOMAIN items
          /\ \A i \in Loadable : items'[i] = Rewrite(i)
          /\ \A i \in DOMAIN items \ Loadable : items'[i] = items[i]
      BY <1>11 DEF Load
    <2>4. Loadable \subseteq DOMAIN run.chosen /\ \A i : Rewrite(i) \subseteq run.chosen[i]
      BY DEF Loadable, Rewrite
    <2>5. run.failed = {} => Loadable = DOMAIN run.chosen
      BY <1>11 DEF Load, ToCopy, Loadable, Absent
    <2>6. Window' = Window
      BY <2>1, ListingOnly
    <2>7. SeedTypeOK' /\ ChosenOf'
      BY <2>1, <2>3, <2>4 DEF WindowInv, SeedTypeOK, ChosenOf
    <2>8. Accounted' /\ Filling'
      BY <2>1, <2>3 DEF WindowInv, Accounted, Filling, Running
    <2>9. run'.clean => run.clean /\ run.failed = {}
      BY <2>2, Zenon
    <2>10. Filled'
      BY <2>1, <2>6, <2>9 DEF WindowInv, Filled, Running
    <2>11. Told'
      BY <2>1, <2>3, <2>5, <2>9 DEF WindowInv, Accounted, Told, Running
    <2> QED BY <2>7, <2>8, <2>10, <2>11 DEF WindowInv
  <1>12. CASE RunDies
    <2>1. /\ run'.pc = "off" /\ run'.mode = run.mode /\ run'.at = run.at /\ run'.clean = FALSE
          /\ run'.counted = run.counted /\ run'.loaded = run.loaded /\ run'.chosen = run.chosen
          /\ run'.landed = run.landed /\ run'.failed = run.failed /\ run'.code = 1
          /\ UNCHANGED <<listing, collection, items, store>>
      BY <1>12 DEF RunDies, SeedInv, IsRun, Fields
    <2> QED BY <2>1, WindowStays DEF WindowInv, SeedTypeOK
  <1>13. CASE UNCHANGED seedVars
    <2>1. UNCHANGED <<listing, collection, items, store, run>>
      BY <1>13 DEF seedVars
    <2>2. Window' = Window /\ \A n : UpTo(n)' = UpTo(n) /\ Looked(n)' = Looked(n)
      BY <2>1, ListingOnly
    <2>3. SeedTypeOK' /\ ChosenOf' /\ Accounted' /\ Told'
      BY <2>1 DEF WindowInv, SeedTypeOK, ChosenOf, Accounted, Told, Running
    <2>4. Filling'
      BY <2>1, <2>2 DEF WindowInv, Filling, Running
    <2>5. Filled'
      BY <2>1, <2>2 DEF WindowInv, Filled, Running
    <2> QED BY <2>3, <2>4, <2>5 DEF WindowInv
  <1> QED
    BY <1>1, <1>2, <1>3, <1>4, <1>5, <1>6, <1>7, <1>8, <1>9, <1>10, <1>11, <1>12, <1>13 DEF SeedNext

(* A run that reports success has all it counted in the catalogue; one that
   nothing happened to counted exactly what MAX_ITEMS and MAX_BYTES let in of
   the items listed, whatever runs before it had left behind. *)
THEOREM WindowFilled == SeedSpec => []RunsFillWindow
  <1>1. WindowInv => RunsFillWindow
    BY DEF WindowInv, Filled, Told, RunsFillWindow, Running
  <1>2. SeedInit => SeedInv /\ WindowInv
    BY SeedInvInit, WindowInit
  <1>3. SeedInv /\ WindowInv /\ [SeedNext]_seedVars => (SeedInv /\ WindowInv)'
    BY SeedInvNext, WindowNext
  <1> QED
    BY <1>1, <1>2, <1>3, PTL DEF SeedSpec

-----------------------------------------------------------------------------
(* The pictures of the catalogue: what the filters show. *)
ArchiveRec == [of : SUBSET Shots, at : Nat, by : Nat]

LEMMA OfADay ==
  ASSUME NEW t \in Nat
  PROVE  /\ Day(t) \in Nat /\ 2 * Day(t) <= t /\ t <= 2 * Day(t) + 1
  BY DEF Day

(* Each filter of the footprints is a bucket of the grid. *)
LEMMA CollectionBinned ==
  ASSUME NEW i \in Shots, NEW now \in Nat, NEW c, c # "", c \in {"", Facts[i].collection}
  PROVE  <<"collection", c>> \in ImageBuckets(i, now)
  BY DEF ImageBuckets

LEMMA PlatformBinned ==
  ASSUME NEW i \in Shots, NEW now \in Nat, NEW c \in {"uav", "satellite", "aircraft"},
         ShownPlatform(Facts[i].platform, c)
  PROVE  <<"platform", c>> \in ImageBuckets(i, now)
  <1>1. c = PlatformBucket(Facts[i].platform)
    BY DEF ShownPlatform, PlatformBucket
  <1> QED BY <1>1 DEF ImageBuckets

LEMMA ResolutionBinned ==
  ASSUME NEW i \in Shots, NEW now \in Nat, NEW c \in {"lt05", "05to2", "2to10", "gt10"},
         Shown(Facts[i].gsd, c)
  PROVE  <<"resolution", c>> \in ImageBuckets(i, now)
  <1>1. c \in ResolutionBucket(Facts[i].gsd)
    BY FactsAreNumbers DEF Shown, ResolutionBucket
  <1> QED BY <1>1 DEF ImageBuckets

LEMMA LicenseBinned ==
  ASSUME NEW i \in Shots, NEW now \in Nat, NEW c \in {"by", "nc", "sa"},
         IF c = "by" THEN Terms(Facts[i].license) = {"by"} ELSE c \in Terms(Facts[i].license),
         ~(c = "sa" /\ "nc" \in Terms(Facts[i].license))
  PROVE  <<"license", c>> \in ImageBuckets(i, now)
  <1>1. c \in LicenseBucket(Facts[i].license)
    BY DEF LicenseBucket
  <1> QED BY <1>1 DEF ImageBuckets

LEMMA DateBinned ==
  ASSUME NEW i \in Shots, NEW now \in Nat, NEW c \in {"week", "month", "year"},
         InRange(Facts[i].taken, c, now),
         ~(c \in {"week", "month"} /\ now - Facts[i].taken = IF c = "week" THEN 15 ELSE 61),
         ~(c \in {"week", "month"} /\ Facts[i].taken > now)
  PROVE  <<"date", c>> \in ImageBuckets(i, now)
  <1>1. PICK t \in Nat : t = Facts[i].taken
    BY FactsAreNumbers
  <1>2. /\ Day(t) \in Nat /\ 2 * Day(t) <= t /\ t <= 2 * Day(t) + 1
        /\ Day(now) \in Nat /\ 2 * Day(now) <= now /\ now <= 2 * Day(now) + 1
    BY OfADay
  <1>3. c \in DateBuckets(t, now)
    <2>1. t # 0
      BY <1>1 DEF InRange
    <2>2. CASE c = "week"
      <3>1. Day(t) + 7 >= Day(now)
        BY <1>1, <2>2 DEF InRange
      <3>2. t <= now /\ now - t <= 14
        BY <1>1, <1>2, <2>2, <3>1
      <3> QED BY <2>1, <2>2, <3>2 DEF DateBuckets
    <2>3. CASE c = "month"
      <3>1. Day(t) + 30 >= Day(now)
        BY <1>1, <2>3 DEF InRange
      <3>2. t <= now /\ now - t <= 60
        BY <1>1, <1>2, <2>3, <3>1
      <3> QED BY <2>1, <2>3, <3>2 DEF DateBuckets
    <2>4. CASE c = "year"
      BY <1>1, <2>1, <2>4 DEF InRange, DateBuckets, Year
    <2> QED BY <2>2, <2>3, <2>4
  <1> QED BY <1>1, <1>3 DEF ImageBuckets

(* What is drawn under some filters is in the bucket of each of them. *)
LEMMA DrawnBinned ==
  ASSUME NEW f \in Selections, NEW a \in ArchiveRec, NEW i \in Shots,
         Drawn(i, f, a.at), ~OnEdge(i, f, a), NEW key \in ActiveKeys(f)
  PROVE  key \in ImageBuckets(i, a.at)
  <1>1. PICK d \in DOMAIN f : key = <<d, f[d]>> /\ f[d] # ""
    BY DEF ActiveKeys
  <1>2. a.at \in Nat
    BY DEF ArchiveRec
  <1>3. CASE d = "collection"
    BY <1>1, <1>2, <1>3, CollectionBinned DEF Drawn
  <1>4. CASE d = "platform"
    BY <1>1, <1>2, <1>4, PlatformBinned, SelectionsOfPage DEF Drawn
  <1>5. CASE d = "license"
    BY <1>1, <1>2, <1>5, LicenseBinned, SelectionsOfPage DEF Drawn, OnEdge
  <1>6. CASE d = "resolution"
    BY <1>1, <1>2, <1>6, ResolutionBinned, SelectionsOfPage DEF Drawn
  <1>7. CASE d = "date"
    BY <1>1, <1>2, <1>7, DateBinned, SelectionsOfPage DEF Drawn, OnEdge
  <1> QED BY <1>1, <1>3, <1>4, <1>5, <1>6, <1>7, SelectionsOfPage

(* The least of some numbers is one of them. *)
LEMMA LeastCount ==
  ASSUME NEW T \in SUBSET Nat, T # {}, NEW n \in Nat, \A m \in T : n <= m
  PROVE  n <= Min(T)
  <1> DEFINE R == {ss \in Nat \X Nat : ss[1] < ss[2]}
  <1>1. IsWellFoundedOn(R, Nat)
    BY NatLessThanWellFounded, Zenon DEF OpToRel
  <1>2. \A x, y \in Nat : <<x, y>> \in R <=> x < y
    OBVIOUS
  <1> HIDE DEF R
  <1>3. PICK p \in T : \A q \in T : ~ (<<q, p>> \in R)
    BY <1>1, WFMin
  <1>4. ASSUME NEW q \in T PROVE p <= q
    <2>1. p \in Nat /\ q \in Nat
      OBVIOUS
    <2>2. ~(q < p)
      BY <1>2, <1>3, <2>1
    <2> QED BY <2>1, <2>2
  <1>5. Min(T) \in T
    BY <1>4 DEF Min
  <1> QED BY <1>5

LEMMA Counted ==
  ASSUME NEW S \in SUBSET Shots, NEW T \in SUBSET Shots, S \subseteq T
  PROVE  Cardinality(S) \in Nat /\ Cardinality(T) \in Nat /\ Cardinality(S) <= Cardinality(T)
  BY ShotsAreFinite, FS_Subset, FS_CardinalityType

(* filters.ts: the grid is an upper bound. *)
LEMMA GridBounds ==
  ASSUME NEW a \in ArchiveRec, NEW b \in ArchiveRec, b.of \subseteq a.of,
         NEW f \in Selections, NEW c
  PROVE  Cardinality({i \in Binned(b, c) : Drawn(i, f, a.at) /\ ~OnEdge(i, f, a)})
           <= CellCount(f, a, c)
  <1> DEFINE S == {i \in Binned(b, c) : Drawn(i, f, a.at) /\ ~OnEdge(i, f, a)}
             B(key) == {i \in Binned(a, c) : key \in ImageBuckets(i, a.at)}
             T == {Cardinality(Binned(a, c))} \cup {Cardinality(B(key)) : key \in ActiveKeys(f)}
  <1>1. S \subseteq Shots /\ Binned(a, c) \subseteq Shots /\ S \subseteq Binned(a, c)
    BY DEF Binned, ArchiveRec
  <1>2. ASSUME NEW key \in ActiveKeys(f) PROVE S \subseteq B(key) /\ B(key) \subseteq Shots
    BY <1>1, DrawnBinned
  <1>3. CellCount(f, a, c) = Min(T)
    BY DEF CellCount
  <1> HIDE DEF S, B
  <1>4. /\ Cardinality(S) \in Nat /\ Cardinality(Binned(a, c)) \in Nat
        /\ Cardinality(S) <= Cardinality(Binned(a, c))
    BY <1>1, Counted
  <1>5. \A key \in ActiveKeys(f) : Cardinality(B(key)) \in Nat /\ Cardinality(S) <= Cardinality(B(key))
    BY <1>1, <1>2, Counted
  <1>6. T \in SUBSET Nat /\ T # {} /\ \A m \in T : Cardinality(S) <= m
    BY <1>4, <1>5
  <1> HIDE DEF T
  <1>7. Cardinality(S) <= Min(T)
    BY <1>4, <1>6, LeastCount
  <1> QED BY <1>3, <1>7 DEF S

(* The footprints and the imagery over them show the same. *)
LEMMA LicensesAgree ==
  ASSUME NEW license, license # "by-nc-sa", NEW c \in {"by", "nc", "sa"}
  PROVE  (IF c = "by" THEN Terms(license) = {"by"} ELSE c \in Terms(license))
           <=> Terms(license) = {"by", c}
  BY DEF Terms

LEMMA PlatformsAgree ==
  ASSUME NEW platform, platform # "", NEW c
  PROVE  ShownPlatform(platform, c) <=> MatchesPlatform(platform, c)
  BY DEF ShownPlatform, MatchesPlatform

LEMMA ResolutionsAgree ==
  ASSUME NEW gsd \in Nat, NEW c
  PROVE  Shown(gsd, c) <=> MatchesResolution(gsd, c)
  BY DEF Shown, MatchesResolution

LEMMA BothShow ==
  ASSUME NEW i \in Shots, NEW f \in Selections, NEW now,
         Facts[i].taken # 0, Facts[i].platform # "", Facts[i].license # "by-nc-sa"
  PROVE  Drawn(i, f, now) <=> Matches(i, f, now)
  <1>1. f.license # "" => f.license \in {"by", "nc", "sa"}
    BY SelectionsOfPage
  <1>2. Facts[i].gsd \in Nat
    BY FactsAreNumbers
  <1> QED BY <1>1, <1>2, LicensesAgree, PlatformsAgree, ResolutionsAgree DEF Drawn, Matches
-----------------------------------------------------------------------------
(* The pictures of the catalogue: the job. *)
CoverageType ==
  /\ catalogue \subseteq Shots /\ clock \in Nat /\ jobs \in Nat
  /\ stage \in 0..3 /\ made \in BOOLEAN /\ (made => stage # 0)
  /\ disk \in [Kinds -> ArchiveRec] /\ published \in [Kinds -> ArchiveRec]

By(k) == published[k].by

(* The run has published what comes before its stage, and what is there is of
   no later run. *)
Ordered ==
  /\ \A k \in Kinds : By(k) <= jobs
  /\ made => disk[Stages[stage]].by = jobs
  /\ stage \in {2, 3} => By("stats") = jobs
  /\ stage = 3 => By("density") = jobs
  /\ By("stats") >= By("density") /\ By("density") >= By("footprints")

CoverageInv == CoverageType /\ (~skewed => Ordered)

LEMMA ThreeKinds ==
  /\ Cardinality(Kinds) = 3
  /\ \A s \in 1..3 : Stages[s] \in Kinds
  /\ Stages[1] = "stats" /\ Stages[2] = "density" /\ Stages[3] = "footprints"
  <1>1. Cardinality({"stats"}) = 1 /\ IsFiniteSet({"stats"})
    BY FS_Singleton
  <1>2. Cardinality({"stats", "density"}) = 2 /\ IsFiniteSet({"stats", "density"})
    <2>1. {"stats", "density"} = {"stats"} \cup {"density"}
      OBVIOUS
    <2> QED BY <1>1, <2>1, FS_AddElement
  <1>3. Cardinality(Kinds) = 3
    <2>1. Kinds = {"stats", "density"} \cup {"footprints"}
      BY DEF Kinds
    <2> QED BY <1>2, <2>1, FS_AddElement
  <1> QED BY <1>3 DEF Kinds, Stages

LEMMA CoverageStarts == CoverageInit => CoverageInv
  <1> SUFFICES ASSUME CoverageInit PROVE CoverageInv
    OBVIOUS
  <1>1. NoArchive \in ArchiveRec /\ NoArchive.by = 0
    BY DEF NoArchive, ArchiveRec
  <1>2. /\ disk \in [Kinds -> ArchiveRec] /\ published \in [Kinds -> ArchiveRec]
        /\ \A k \in Kinds : By(k) = 0
    BY <1>1 DEF CoverageInit, By
  <1>3. CoverageType
    <2>1. /\ stage \in 0..3 /\ jobs \in Nat /\ clock \in Nat /\ catalogue \subseteq Shots
      BY TimesAreNumbers DEF CoverageInit
    <2>2. made \in BOOLEAN /\ ~made
      BY Zenon DEF CoverageInit
    <2> QED BY <1>2, <2>1, <2>2 DEF CoverageType
  <1>4. Ordered
    BY <1>2 DEF CoverageInit, Ordered, Kinds
  <1> QED BY <1>3, <1>4 DEF CoverageInv

LEMMA MakeKeeps ==
  ASSUME CoverageInv, Make PROVE CoverageInv'
  <1>1. PICK k \in Kinds : k = Stages[stage]
    BY ThreeKinds DEF Make, CoverageInv, CoverageType
  <1>2. /\ stage \in 1..3 /\ ~made /\ made' = TRUE
        /\ UNCHANGED <<catalogue, clock, stage, published, jobs>>
    BY DEF Make, CoverageInv, CoverageType
  <1>3. Snapshot \in ArchiveRec /\ Snapshot.by = jobs
    BY DEF Snapshot, ArchiveRec, CoverageInv, CoverageType
  <1>4. \/ disk' = [disk EXCEPT ![k] = Snapshot] /\ skewed' = skewed
        \/ disk' = disk /\ skewed' = TRUE
    BY <1>1 DEF Make
  <1>5. disk' \in [Kinds -> ArchiveRec] /\ (~skewed' => ~skewed /\ disk'[k].by = jobs)
    BY <1>3, <1>4 DEF CoverageInv, CoverageType
  <1>6. CoverageType'
    BY <1>2, <1>5 DEF CoverageInv, CoverageType
  <1>7. ~skewed' => Ordered'
    BY <1>1, <1>2, <1>5 DEF CoverageInv, Ordered, By
  <1> QED BY <1>6, <1>7 DEF CoverageInv

LEMMA UploadKeeps ==
  ASSUME CoverageInv, Upload PROVE CoverageInv'
  <1>1. PICK k \in Kinds : k = Stages[stage]
    BY ThreeKinds DEF Upload, CoverageInv, CoverageType
  <1>2. /\ stage \in 1..3 /\ made /\ made' = FALSE /\ stage' = IF stage = 3 THEN 0 ELSE stage + 1
        /\ UNCHANGED <<catalogue, clock, disk, jobs, skewed>>
        /\ published' = [published EXCEPT ![k] = disk[k]]
    BY <1>1, ThreeKinds DEF Upload, Advance, CoverageInv, CoverageType
  <1>3. /\ published' \in [Kinds -> ArchiveRec]
        /\ \A j \in Kinds : By(j)' = IF j = k THEN disk[k].by ELSE By(j)
    BY <1>2 DEF CoverageInv, CoverageType, By
  <1>4. CoverageType'
    <2>1. stage' \in 0..3
      BY <1>2
    <2> QED BY <1>2, <1>3, <2>1 DEF CoverageInv, CoverageType
  <1>5. ASSUME ~skewed' PROVE Ordered'
    <2>1. Ordered /\ disk[k].by = jobs
      BY <1>1, <1>2, <1>5 DEF CoverageInv, Ordered
    <2>2. \A j \in Kinds : By(j) \in Nat /\ By(j) <= jobs /\ jobs \in Nat
      BY <2>1 DEF CoverageInv, CoverageType, ArchiveRec, Ordered, By
    <2>3. "stats" \in Kinds /\ "density" \in Kinds /\ "footprints" \in Kinds
      BY DEF Kinds
    <2>4. CASE stage = 1
      BY <1>1, <1>2, <1>3, <2>1, <2>2, <2>3, <2>4, ThreeKinds DEF Ordered
    <2>5. CASE stage = 2
      BY <1>1, <1>2, <1>3, <2>1, <2>2, <2>3, <2>5, ThreeKinds DEF Ordered
    <2>6. CASE stage = 3
      BY <1>1, <1>2, <1>3, <2>1, <2>2, <2>3, <2>6, ThreeKinds DEF Ordered
    <2> QED BY <1>2, <2>4, <2>5, <2>6
  <1> QED BY <1>4, <1>5 DEF CoverageInv

LEMMA CoverageSteps == CoverageInv /\ [CoverageNext]_coverageVars => CoverageInv'
  <1> SUFFICES ASSUME CoverageInv, [CoverageNext]_coverageVars PROVE CoverageInv'
    OBVIOUS
  <1>1. CASE StartJob
    <2>1. NoArchive \in ArchiveRec
      BY DEF NoArchive, ArchiveRec
    <2>2. /\ jobs' = jobs + 1 /\ stage' = 1 /\ disk' \in [Kinds -> ArchiveRec] /\ ~made
          /\ UNCHANGED <<catalogue, clock, made, published, skewed>>
      BY <1>1, <2>1 DEF StartJob, CoverageInv, CoverageType
    <2>3. \A k \in Kinds : By(k) \in Nat
      BY DEF CoverageInv, CoverageType, ArchiveRec, By
    <2>4. CoverageType'
      BY <2>2 DEF CoverageInv, CoverageType
    <2>5. ~skewed' => Ordered'
      BY <2>2, <2>3 DEF CoverageInv, CoverageType, Ordered, By
    <2> QED BY <2>4, <2>5 DEF CoverageInv
  <1>2. CASE UploadFails
    <2>1. /\ made' = FALSE /\ stage' \in 0..3 /\ skewed' = TRUE
          /\ UNCHANGED <<catalogue, clock, disk, published, jobs>>
      BY <1>2, ThreeKinds DEF UploadFails, Advance, CoverageInv, CoverageType
    <2> QED BY <2>1 DEF CoverageInv, CoverageType
  <1>3. CASE JobDies
    <2>1. /\ made' = FALSE /\ stage' = 0
          /\ UNCHANGED <<catalogue, clock, disk, published, jobs, skewed>>
      BY <1>3 DEF JobDies
    <2>2. CoverageType'
      <3>1. stage' \in 0..3
        BY <2>1
      <3>2. made' \in BOOLEAN /\ ~made'
        BY <2>1, Zenon
      <3> QED BY <2>1, <3>1, <3>2 DEF CoverageInv, CoverageType
    <2>3. ~skewed' => Ordered'
      BY <2>1 DEF CoverageInv, Ordered, By
    <2> QED BY <2>2, <2>3 DEF CoverageInv
  <1>4. ASSUME NEW i \in Shots, CatalogueChanges(i) PROVE CoverageInv'
    BY <1>4 DEF CatalogueChanges, CoverageInv, CoverageType, Ordered, By
  <1>5. CASE HalfDayPasses
    BY <1>5 DEF HalfDayPasses, CoverageInv, CoverageType, Ordered, By
  <1>6. CASE UNCHANGED coverageVars
    BY <1>6 DEF coverageVars, CoverageInv, CoverageType, Ordered, By
  <1> QED BY <1>1, <1>2, <1>3, <1>4, <1>5, <1>6, MakeKeeps, UploadKeeps DEF CoverageNext

LEMMA CoverageAgrees == CoverageInv => PicturesAgree
  <1> SUFFICES ASSUME CoverageInv PROVE PicturesAgree
    OBVIOUS
  <1>1. /\ published["stats"] \in ArchiveRec /\ published["density"] \in ArchiveRec
        /\ published["footprints"] \in ArchiveRec
    BY DEF CoverageInv, CoverageType, Kinds
  <1>2. CheapestFresh
    BY DEF CoverageInv, Ordered, By, CheapestFresh
  <1>3. GridBoundsFootprints
    BY <1>1, GridBounds DEF GridBoundsFootprints
  <1>4. FiltersAgree
    <2>1. published["footprints"].of \subseteq Shots
      BY <1>1 DEF ArchiveRec
    <2> QED BY <2>1, BothShow DEF FiltersAgree
  <1> QED BY <1>2, <1>3, <1>4 DEF PicturesAgree

(* Whatever the images, the filters and the runs of the job: the grid counts
   all the footprints that the map draws, the browser filters the footprints and
   the imagery alike, and a run that dies leaves no downstream archive fresher
   than the ones before it. *)
THEOREM PicturesAgreed == CoverageSpec => []PicturesAgree
  BY CoverageStarts, CoverageSteps, CoverageAgrees, PTL DEF CoverageSpec
-----------------------------------------------------------------------------
(* The mosaic: numbers. *)
LEMMA LeastOf ==
  ASSUME NEW T \in SUBSET Nat, T # {}
  PROVE  Min(T) \in T /\ \A q \in T : Min(T) <= q
  <1> DEFINE R == {ss \in Nat \X Nat : ss[1] < ss[2]}
  <1>1. IsWellFoundedOn(R, Nat)
    BY NatLessThanWellFounded, Zenon DEF OpToRel
  <1>2. \A x, y \in Nat : <<x, y>> \in R <=> x < y
    OBVIOUS
  <1> HIDE DEF R
  <1>3. PICK p \in T : \A q \in T : ~ (<<q, p>> \in R)
    BY <1>1, WFMin
  <1>4. ASSUME NEW q \in T PROVE p <= q
    <2>1. p \in Nat /\ q \in Nat
      OBVIOUS
    <2>2. ~(q < p)
      BY <1>2, <1>3, <2>1
    <2> QED BY <2>1, <2>2
  <1> QED BY <1>4 DEF Min

LEMMA GreatestOf ==
  ASSUME NEW n \in Nat, NEW T \in SUBSET (0..n), T # {}
  PROVE  \E m \in T : \A q \in T : q <= m
  <1> DEFINE U == {x \in Nat : \E q \in T : x = n - q}
  <1>1. PICK a \in T : TRUE
    OBVIOUS
  <1>2. \A q \in T : q \in Int /\ n - q \in U
    OBVIOUS
  <1>3. U \in SUBSET Nat /\ U # {}
    BY <1>1, <1>2
  <1>4. PICK u \in U : \A x \in U : u <= x
    BY <1>3, LeastOf
  <1>5. PICK m \in T : u = n - m
    BY <1>4
  <1>6. ASSUME NEW q \in T PROVE q <= m
    <2>1. n - m <= n - q
      BY <1>2, <1>4, <1>5
    <2> QED BY <1>2, <2>1
  <1> QED BY <1>6

(* Whatever numbers there are, they can be put in order. *)
Ascends(s, c) == \A j, k \in 1..c : j < k => s[j] < s[k]

LEMMA InOrderOf ==
  ASSUME NEW n \in Nat, NEW S \in SUBSET (1..n)
  PROVE  \E s \in [1..Cardinality(S) -> S] : Ascends(s, Cardinality(S))
  <1> DEFINE Listable(U) == \E s \in [1..Cardinality(U) -> U] : Ascends(s, Cardinality(U))
             Bad == {m \in Nat : \E U \in SUBSET (1..m) : ~Listable(U)}
  <1>1. SUFFICES ASSUME Bad # {} PROVE FALSE
    OBVIOUS
  <1>2. PICK m \in Bad : \A x \in Bad : m <= x
    <2>1. Bad \in SUBSET Nat
      OBVIOUS
    <2> QED BY <1>1, <2>1, LeastOf
  <1>3. PICK U \in SUBSET (1..m) : ~Listable(U)
    BY <1>2
  <1> HIDE DEF Listable
  <1>4. m \in Nat /\ \A x \in Nat : x < m => \A V \in SUBSET (1..x) : Listable(V)
    BY <1>2
  <1> HIDE DEF Bad
  <1>5. CASE m = 0
    <2>1. U = {}
      BY <1>3, <1>5
    <2>2. Cardinality(U) = 0
      BY <2>1, FS_EmptySet
    <2>3. <<>> \in [1..0 -> {}] /\ Ascends(<<>>, 0)
      BY DEF Ascends
    <2>4. Listable(U)
      BY <2>1, <2>2, <2>3 DEF Listable
    <2> QED BY <1>3, <2>4
  <1>6. CASE m # 0
    <2>1. m - 1 \in Nat /\ m - 1 < m
      BY <1>4, <1>6
    <2>2. \A V \in SUBSET (1..(m - 1)) : Listable(V)
      BY <1>4, <2>1
    <2>3. m \in U
      <3>1. SUFFICES ASSUME m \notin U PROVE FALSE
        OBVIOUS
      <3>2. U \in SUBSET (1..(m - 1))
        BY <1>4, <1>3, <3>1
      <3> QED BY <1>3, <2>2, <3>2
    <2> DEFINE V == U \ {m}
    <2>4. V \in SUBSET (1..(m - 1)) /\ U = V \cup {m} /\ m \notin V
      BY <1>4, <1>3, <2>3
    <2> HIDE DEF V
    <2>5. IsFiniteSet(V) /\ Cardinality(V) \in Nat /\ Cardinality(U) = Cardinality(V) + 1
      <3>1. IsFiniteSet(1..(m - 1))
        BY <2>1, FS_Interval
      <3>2. IsFiniteSet(V)
        BY <2>4, <3>1, FS_Subset
      <3> QED BY <2>4, <3>2, FS_AddElement, FS_CardinalityType
    <2>6. PICK c \in Nat : c = Cardinality(V) /\ Cardinality(U) = c + 1
      BY <2>5
    <2>7. PICK s \in [1..c -> V] : Ascends(s, c)
      BY <2>2, <2>4, <2>6 DEF Listable
    <2> DEFINE t == [k \in 1..(c + 1) |-> IF k = c + 1 THEN m ELSE s[k]]
    <2>8. t \in [1..(c + 1) -> U]
      BY <2>4, <2>6, <2>7
    <2>9. Ascends(t, c + 1)
      <3> SUFFICES ASSUME NEW j \in 1..(c + 1), NEW k \in 1..(c + 1), j < k PROVE t[j] < t[k]
        BY DEF Ascends
      <3>1. j \in 1..c /\ t[j] = s[j] /\ s[j] \in V
        BY <2>6, <2>7
      <3>2. CASE k = c + 1
        <4>1. t[k] = m
          BY <3>2
        <4>2. s[j] \in 1..(m - 1)
          BY <2>4, <3>1
        <4> QED BY <1>4, <3>1, <4>1, <4>2
      <3>3. CASE k # c + 1
        <4>1. k \in 1..c /\ t[k] = s[k]
          BY <2>6, <3>3
        <4> QED BY <2>7, <3>1, <4>1 DEF Ascends
      <3> QED BY <3>2, <3>3
    <2> HIDE DEF t
    <2>10. Listable(U)
      BY <2>6, <2>8, <2>9 DEF Listable
    <2> QED BY <1>3, <2>10
  <1> QED BY <1>5, <1>6

LEMMA TilesListed ==
  /\ Cardinality(Touched) \in Nat
  /\ TileList \in Seq(Touched) /\ Len(TileList) = Cardinality(Touched)
  <1>1. Len(Pyramid) \in Nat /\ Touched \in SUBSET (1..Len(Pyramid))
    BY PyramidOfItems DEF Touched
  <1>2. Cardinality(Touched) \in Nat
    <2>1. IsFiniteSet(1..Len(Pyramid))
      BY <1>1, FS_Interval
    <2>2. IsFiniteSet(Touched)
      BY <1>1, <2>1, FS_Subset
    <2> QED BY <2>2, FS_CardinalityType
  <1>3. \E s \in [1..Cardinality(Touched) -> Touched] : Ascends(s, Cardinality(Touched))
    BY <1>1, InOrderOf
  <1>4. TileList \in [1..Cardinality(Touched) -> Touched]
    BY <1>3 DEF TileList, Ascends
  <1> QED BY <1>2, <1>4

-----------------------------------------------------------------------------
(* The mosaic: what its parts rely on. *)
Pictures == {i \in Catalogued : HrefOf[i] # NoHref}
RenderFields == {"phase", "unchecked", "features", "rest", "batch", "untaken", "result"}
Entry == [tile : Nat, is : {"mask", "picture"}, of : SUBSET Catalogued]
Work  == [pc : {"idle", "filter", "mosaic", "single", "again"}, tile : Nat,
          todo : SUBSET Pictures, kept : SUBSET Pictures, drawn : SUBSET Pictures]

WorkFields == {"pc", "tile", "todo", "kept", "drawn"}

(* A tile that may go into the archive. *)
Explained(e) ==
  /\ e.is = "mask" /\ Pyramid[e.tile].zoom > 10 => \E i \in e.of : HrefOf[i] \in failures
  /\ e.is = "picture" =>
       /\ e.of # {} /\ e.of \subseteq Pyramid[e.tile].over /\ Cardinality(e.of) <= MaxCogs
       /\ \A i \in e.of : Imagery(bands[HrefOf[i]])

(* Who was tried for a tile and is neither kept nor drawn could not be read. *)
Filtering(w) ==
  /\ w.todo \subseteq Candidates(w.tile)
  /\ w.todo # {} => Cardinality(w.kept) < MaxCogs
  /\ w.kept = {} => \A i \in Candidates(w.tile) \ w.todo : HrefOf[i] \in failures

Reading(w) ==
  /\ w.kept # {} /\ w.todo \subseteq w.kept /\ w.drawn \subseteq w.kept
  /\ w.drawn \subseteq Pyramid[w.tile].over
  /\ \A i \in w.kept \ (w.todo \cup w.drawn) : HrefOf[i] \in failures

WorkSound(w) ==
  w.pc # "idle" =>
    /\ render.phase \in {"rendering", "finalized"}
    /\ w.tile \in Touched /\ w.kept \subseteq Candidates(w.tile) /\ Cardinality(w.kept) <= MaxCogs
    /\ IF w.pc = "filter" THEN Filtering(w) ELSE Reading(w)

MosaicType ==
  /\ counts \subseteq Hrefs /\ failures \subseteq Hrefs
  /\ render = [f \in RenderFields |-> render[f]]
  /\ render.phase \in {"start", "checking", "rendering", "finalized", "ended"}
  /\ render.unchecked \in SUBSET Pictures /\ render.features \in SUBSET Pictures
  /\ thread \in [Threads -> Work]
  /\ archive \in Seq(Entry)

FeaturesUsable ==
  /\ render.phase = "start" => render.features = {}
  /\ \A i \in render.features : Imagery(bands[HrefOf[i]])

Early == render.phase \in {"start", "checking", "ended"}

(* What is written, what the pool has and what is to come, in this order, are all. *)
InListOrder ==
  /\ Early => archive = <<>> /\ render.batch = <<>> /\ render.untaken = <<>>
              /\ render.result = <<>>
  /\ ~Early =>
       /\ render.rest \in Seq(Touched) /\ render.batch \in Seq(Touched)
       /\ render.untaken \in Seq(Touched)
       /\ Len(archive) + Len(render.batch) + Len(render.rest) = Len(TileList)
       /\ \A k \in 1..Len(archive) : archive[k].tile = TileList[k]
       /\ \A k \in 1..Len(render.batch) : render.batch[k] = TileList[Len(archive) + k]
       /\ \A k \in 1..Len(render.rest) :
            render.rest[k] = TileList[Len(archive) + Len(render.batch) + k]
  /\ \A k \in 1..Len(render.batch) : render.batch[k] \in DOMAIN render.result
  /\ render.phase = "finalized" => render.batch = <<>> /\ render.rest = <<>>

ResultsSound ==
  \A n \in DOMAIN render.result :
    render.result[n] # <<>> =>
      \E e \in Entry : render.result[n] = <<e>> /\ e.tile = n /\ Explained(e)

ArchiveSound == \A k \in 1..Len(archive) : Explained(archive[k])
ThreadsSound == \A t \in Threads : WorkSound(thread[t])

MosaicInv ==
  /\ MosaicType /\ FeaturesUsable /\ InListOrder /\ ResultsSound /\ ArchiveSound /\ ThreadsSound

LEMMA MosaicHolds == MosaicInv => MosaicIsWhole
  <1> SUFFICES ASSUME MosaicInv PROVE MosaicIsWhole
    OBVIOUS
  <1>1. MosaicTypeOK
    BY DEF MosaicInv, MosaicType, MosaicTypeOK, Work
  <1>2. MaskIsExplained
    BY DEF MosaicInv, ArchiveSound, Explained, MaskIsExplained, Imagery
  <1>3. NoTileLost
    <2> SUFFICES ASSUME render.phase = "finalized"
                 PROVE  [k \in 1..Len(archive) |-> archive[k].tile] = TileList
      BY DEF NoTileLost
    <2>1. /\ Len(archive) + Len(render.batch) + Len(render.rest) = Len(TileList)
          /\ \A k \in 1..Len(archive) : archive[k].tile = TileList[k]
          /\ render.batch = <<>> /\ render.rest = <<>>
      BY DEF MosaicInv, InListOrder, Early
    <2>2. Len(archive) \in Nat /\ Len(TileList) \in Nat
      BY TilesListed DEF MosaicInv, MosaicType
    <2>3. Len(archive) = Len(TileList)
      <3>1. Len(render.batch) = 0 /\ Len(render.rest) = 0
        BY <2>1
      <3> QED BY <2>1, <2>2, <3>1
    <2>4. TileList = [k \in 1..Len(TileList) |-> TileList[k]]
      BY TilesListed
    <2> QED BY <2>1, <2>4, <2>3
  <1> QED BY <1>1, <1>2, <1>3 DEF MosaicIsWhole

LEMMA MosaicStarts == MosaicInit => MosaicInv
  <1> SUFFICES ASSUME MosaicInit PROVE MosaicInv
    OBVIOUS
  <1> DEFINE r == [phase |-> "start", unchecked |-> {}, features |-> {}, rest |-> <<>>,
                   batch |-> <<>>, untaken |-> <<>>, result |-> <<>>]
  <1>1. /\ counts = {} /\ failures = {} /\ render = r /\ archive = <<>>
        /\ thread = [t \in Threads |-> Unused]
    BY DEF MosaicInit
  <1>2. r = [f \in RenderFields |-> r[f]]
    BY DEF RenderFields
  <1>3. /\ r.phase = "start" /\ r.unchecked = {} /\ r.features = {} /\ r.batch = <<>>
        /\ r.untaken = <<>> /\ r.result = <<>>
    OBVIOUS
  <1> HIDE DEF r
  <1>4. Unused \in Work /\ Unused.pc = "idle"
    BY DEF Unused, Work
  <1>5. DOMAIN <<>> = {} /\ Len(<<>>) = 0
    OBVIOUS
  <1>6. MosaicType
    <2>1. counts \subseteq Hrefs /\ failures \subseteq Hrefs /\ archive \in Seq(Entry)
      BY <1>1
    <2>2. thread \in [Threads -> Work]
      BY <1>1, <1>4
    <2>3. render = [f \in RenderFields |-> render[f]]
      BY <1>1, <1>2
    <2>4. render.phase = "start" /\ render.unchecked = {} /\ render.features = {}
      BY <1>1, <1>3
    <2> QED BY <2>1, <2>2, <2>3, <2>4 DEF MosaicType
  <1>7. FeaturesUsable /\ InListOrder /\ ResultsSound
    BY <1>1, <1>3, <1>5 DEF FeaturesUsable, InListOrder, ResultsSound, Early
  <1>8. ArchiveSound /\ ThreadsSound
    BY <1>1, <1>4, <1>5 DEF ArchiveSound, ThreadsSound, WorkSound
  <1> QED BY <1>6, <1>7, <1>8 DEF MosaicInv
-----------------------------------------------------------------------------
(* The mosaic: what is known of an image is only added to. *)
Steady == bands' = bands /\ failures \subseteq failures' /\ render'.features = render.features

LEMMA SameTiles ==
  ASSUME render'.features = render.features
  PROVE  /\ \A n : Candidates(n)' = Candidates(n)
         /\ Touched' = Touched /\ TileList' = TileList
  <1>1. \A n : Candidates(n)' = Candidates(n)
    BY DEF Candidates
  <1>2. Touched' = Touched
    BY <1>1 DEF Touched
  <1>3. TileList' = TileList
    BY <1>2 DEF TileList
  <1> QED BY <1>1, <1>2, <1>3

LEMMA ExplainedStays ==
  ASSUME Steady, NEW e \in Entry, Explained(e)
  PROVE  Explained(e)'
  BY DEF Steady, Explained

LEMMA WorkStays ==
  ASSUME Steady, NEW w \in Work, WorkSound(w),
         w.pc # "idle" => render'.phase \in {"rendering", "finalized"}
  PROVE  WorkSound(w)'
  <1>1. SUFFICES ASSUME w.pc # "idle" PROVE WorkSound(w)'
    BY DEF WorkSound
  <1>2. Candidates(w.tile)' = Candidates(w.tile) /\ Touched' = Touched
    BY SameTiles DEF Steady
  <1>3. CASE w.pc = "filter"
    <2>1. Filtering(w)'
      BY <1>1, <1>2, <1>3 DEF WorkSound, Filtering, Steady
    <2> QED BY <1>1, <1>2, <1>3, <2>1 DEF WorkSound
  <1>4. CASE w.pc # "filter"
    <2>1. Reading(w)'
      BY <1>1, <1>4 DEF WorkSound, Reading, Steady
    <2> QED BY <1>1, <1>2, <1>4, <2>1 DEF WorkSound
  <1> QED BY <1>3, <1>4

(* A tile that the pool has finished. *)
Finished(n) == \E e \in Entry : render.result[n] = <<e>> /\ e.tile = n /\ Explained(e)

(* The pool takes no part of the main thread but its results and what is untaken. *)
PoolAtWork ==
  /\ Steady /\ archive' = archive /\ counts' \subseteq Hrefs /\ failures' \subseteq Hrefs
  /\ render' = [f \in RenderFields |-> render'[f]]
  /\ \A f \in RenderFields \ {"untaken", "result"} : render'[f] = render[f]
  /\ render.phase \in {"rendering", "finalized"} /\ render'.untaken \in Seq(Touched)
  /\ DOMAIN render'.result = DOMAIN render.result

LEMMA PoolKeeps ==
  ASSUME MosaicInv, PoolAtWork, NEW t \in Threads, NEW w \in Work, WorkSound(w)',
         thread' = [thread EXCEPT ![t] = w],
         \A n \in DOMAIN render.result : render'.result[n] = render.result[n] \/ Finished(n)'
  PROVE  MosaicInv'
  <1>1. /\ render'.phase = render.phase /\ render'.unchecked = render.unchecked
        /\ render'.features = render.features /\ render'.rest = render.rest
        /\ render'.batch = render.batch
    BY DEF PoolAtWork, RenderFields
  <1>2. Touched' = Touched /\ TileList' = TileList /\ bands' = bands /\ Steady
    BY <1>1, SameTiles DEF PoolAtWork, Steady
  <1>3. MosaicType'
    <2>1. thread' \in [Threads -> Work]
      BY DEF MosaicInv, MosaicType
    <2> QED BY <1>1, <2>1 DEF MosaicInv, MosaicType, PoolAtWork
  <1>4. FeaturesUsable'
    BY <1>1, <1>2 DEF MosaicInv, FeaturesUsable
  <1>5. InListOrder'
    <2>1. InListOrder /\ archive' = archive /\ render'.untaken \in Seq(Touched)
          /\ render.phase \in {"rendering", "finalized"}
          /\ DOMAIN render'.result = DOMAIN render.result
      BY DEF MosaicInv, PoolAtWork
    <2> QED BY <1>1, <1>2, <2>1 DEF InListOrder, Early
  <1>6. ResultsSound'
    <2> SUFFICES ASSUME NEW n \in DOMAIN render'.result, render'.result[n] # <<>>
                 PROVE  Finished(n)'
      BY DEF ResultsSound, Finished
    <2>1. CASE render'.result[n] = render.result[n]
      <3>1. PICK e \in Entry : render.result[n] = <<e>> /\ e.tile = n /\ Explained(e)
        BY <2>1 DEF MosaicInv, ResultsSound, PoolAtWork
      <3>2. Explained(e)'
        BY <1>2, <3>1, ExplainedStays
      <3> QED BY <2>1, <3>1, <3>2 DEF Finished
    <2> QED BY <2>1 DEF PoolAtWork
  <1>7. ArchiveSound'
    <2> SUFFICES ASSUME NEW k \in 1..Len(archive) PROVE Explained(archive[k])'
      BY DEF ArchiveSound, PoolAtWork
    <2>1. PICK e : e = archive[k] /\ e \in Entry /\ Explained(e)
      BY DEF MosaicInv, MosaicType, ArchiveSound
    <2>2. Explained(e)' /\ archive'[k] = e
      BY <1>2, <2>1, ExplainedStays DEF PoolAtWork
    <2> QED BY <2>2 DEF Explained
  <1>8. ThreadsSound'
    <2> SUFFICES ASSUME NEW u \in Threads PROVE WorkSound(thread[u])'
      BY DEF ThreadsSound
    <2>1. PICK v : v = thread'[u]
      OBVIOUS
    <2>2. WorkSound(v)'
      <3>1. CASE u = t
        <4>1. v = w
          BY <2>1, <3>1 DEF MosaicInv, MosaicType
        <4> QED BY <4>1
      <3>2. CASE u # t
        <4>1. v = thread[u] /\ v \in Work /\ WorkSound(v)
          BY <2>1, <3>2 DEF MosaicInv, MosaicType, ThreadsSound
        <4> QED BY <1>1, <1>2, <4>1, WorkStays DEF PoolAtWork
      <3> QED BY <3>1, <3>2
    <2> QED BY <2>1, <2>2 DEF WorkSound, Filtering, Reading
  <1> QED BY <1>3, <1>4, <1>5, <1>6, <1>7, <1>8 DEF MosaicInv

-----------------------------------------------------------------------------
(* The mosaic: what a thread does. *)
LEMMA YieldsKeeps ==
  ASSUME MosaicInv, Steady, UNCHANGED archive, counts' \subseteq Hrefs, failures' \subseteq Hrefs,
         NEW t \in Threads, NEW r, NEW e \in Entry, Explained(e)', Yields(t, r, e),
         r = [f \in RenderFields |-> r[f]], render.phase \in {"rendering", "finalized"},
         \A f \in RenderFields \ {"untaken"} : r[f] = render[f], r.untaken \in Seq(Touched)
  PROVE  MosaicInv'
  <1>1. /\ render' = [r EXCEPT !.result = [r.result EXCEPT ![e.tile] = <<e>>]]
        /\ thread' = [thread EXCEPT ![t] = Unused]
    BY DEF Yields
  <1>2. /\ render' = [f \in RenderFields |-> render'[f]]
        /\ \A f \in RenderFields \ {"untaken", "result"} : render'[f] = render[f]
        /\ render'.untaken = r.untaken
        /\ render'.result = [render.result EXCEPT ![e.tile] = <<e>>]
    BY <1>1 DEF RenderFields
  <1>3. PoolAtWork
    BY <1>2 DEF PoolAtWork
  <1>4. ASSUME NEW n \in DOMAIN render.result
        PROVE  render'.result[n] = render.result[n] \/ Finished(n)'
    <2>1. CASE n = e.tile
      <3>1. render'.result[n] = <<e>>
        BY <1>2, <2>1
      <3> QED BY <2>1, <3>1 DEF Finished
    <2>2. CASE n # e.tile
      BY <1>2, <2>2
    <2> QED BY <2>1, <2>2
  <1>5. Unused \in Work /\ Unused.pc = "idle"
    BY DEF Unused, Work
  <1>6. PICK w \in Work : w = Unused /\ w.pc = "idle"
    BY <1>5
  <1>7. WorkSound(w)' /\ thread' = [thread EXCEPT ![t] = w]
    BY <1>1, <1>6 DEF WorkSound
  <1> QED BY <1>3, <1>4, <1>7, PoolKeeps

LEMMA WorkFacts ==
  ASSUME MosaicInv, NEW t \in Threads, thread[t].pc # "idle"
  PROVE  /\ thread[t] \in Work /\ WorkSound(thread[t])
         /\ render.phase \in {"rendering", "finalized"} /\ render.untaken \in Seq(Touched)
         /\ render = [f \in RenderFields |-> render[f]]
         /\ thread[t].tile \in Touched /\ thread[t].tile \in Nat
         /\ thread[t].kept \subseteq Candidates(thread[t].tile)
         /\ Cardinality(thread[t].kept) <= MaxCogs
  <1>1. thread[t] \in Work /\ WorkSound(thread[t])
    BY DEF MosaicInv, MosaicType, ThreadsSound
  <1>2. render.phase \in {"rendering", "finalized"} /\ InListOrder
    BY <1>1 DEF WorkSound, MosaicInv
  <1>3. render.untaken \in Seq(Touched)
    BY <1>2 DEF InListOrder, Early
  <1>4. /\ thread[t].tile \in Touched /\ thread[t].kept \subseteq Candidates(thread[t].tile)
        /\ Cardinality(thread[t].kept) <= MaxCogs
    BY <1>1 DEF WorkSound
  <1>5. render = [f \in RenderFields |-> render[f]] /\ thread[t].tile \in Nat
    BY <1>1 DEF MosaicInv, MosaicType, Work
  <1> QED BY <1>1, <1>2, <1>3, <1>4, <1>5

(* Of a set of items, a part has no more of them. *)
LEMMA PartOfItems ==
  ASSUME NEW A \in SUBSET Pictures, NEW B \in SUBSET A
  PROVE  /\ Cardinality(A) \in Nat /\ Cardinality(B) \in Nat
         /\ Cardinality(B) <= Cardinality(A)
         /\ \A i : Cardinality(A \cup {i}) <= Cardinality(A) + 1
  <1>1. IsFiniteSet(Catalogued) /\ A \subseteq Catalogued
    BY ItemsAreNumbered DEF Pictures
  <1>2. IsFiniteSet(A)
    BY <1>1, FS_Subset
  <1>3. Cardinality(A) \in Nat
    BY <1>2, FS_CardinalityType
  <1>4. IsFiniteSet(B) /\ Cardinality(B) <= Cardinality(A)
    BY <1>2, FS_Subset
  <1>5. Cardinality(B) \in Nat
    BY <1>4, FS_CardinalityType
  <1>6. ASSUME NEW i PROVE Cardinality(A \cup {i}) <= Cardinality(A) + 1
    <2>1. CASE i \in A
      <3>1. A \cup {i} = A
        BY <2>1
      <3>2. PICK c \in Nat : c = Cardinality(A)
        BY <1>3
      <3> QED BY <3>1, <3>2
    <2>2. CASE i \notin A
      <3>1. Cardinality(A \cup {i}) = Cardinality(A) + 1
        BY <1>2, <2>2, FS_AddElement, Zenon
      <3>2. PICK c \in Nat : c = Cardinality(A)
        BY <1>3
      <3> QED BY <3>1, <3>2
    <2> QED BY <2>1, <2>2
  <1> QED BY <1>3, <1>4, <1>5, <1>6

LEMMA RoundKeeps ==
  ASSUME MosaicInv, Steady, UNCHANGED archive, counts' \subseteq Hrefs, failures' \subseteq Hrefs,
         NEW t \in Threads, thread[t].pc # "idle", NEW pc \in {"mosaic", "single", "again"},
         NEW kept \in SUBSET thread[t].kept, kept # {}, Round(t, pc, kept)
  PROVE  MosaicInv'
  <1>1. /\ thread[t] \in Work /\ render.phase \in {"rendering", "finalized"}
        /\ render.untaken \in Seq(Touched) /\ render = [f \in RenderFields |-> render[f]]
        /\ thread[t].tile \in Touched /\ thread[t].kept \subseteq Candidates(thread[t].tile)
        /\ Cardinality(thread[t].kept) <= MaxCogs
    BY WorkFacts
  <1>2. PICK n \in Nat : n = thread[t].tile
    BY <1>1 DEF Work
  <1>3. kept \in SUBSET Pictures /\ thread[t].kept \in SUBSET Pictures
    BY <1>1 DEF Work
  <1> DEFINE w == [pc |-> pc, tile |-> n, todo |-> kept, kept |-> kept, drawn |-> {}]
  <1>4. w \in Work
    BY <1>3 DEF Work
  <1>5. thread' = [thread EXCEPT ![t] = w] /\ render' = render
    <2>1. [thread[t] EXCEPT !.pc = pc, !.todo = kept, !.kept = kept, !.drawn = {}] = w
      <3> DEFINE u == [thread[t] EXCEPT !.pc = pc, !.todo = kept, !.kept = kept, !.drawn = {}]
      <3>1. DOMAIN thread[t] = WorkFields
        BY <1>1 DEF Work, WorkFields
      <3>2. u = [f \in WorkFields |-> u[f]]
        BY <3>1
      <3>3. u.pc = pc /\ u.tile = n /\ u.todo = kept /\ u.kept = kept /\ u.drawn = {}
        BY <1>2, <3>1 DEF WorkFields
      <3> HIDE DEF u
      <3>4. u = w
        BY <3>2, <3>3 DEF WorkFields
      <3> QED BY <3>4 DEF u
    <2> QED BY <2>1 DEF Round
  <1>6. /\ w.pc = pc /\ w.tile = n /\ w.todo = kept /\ w.kept = kept /\ w.drawn = {}
    OBVIOUS
  <1> HIDE DEF w
  <1>7. Cardinality(kept) <= MaxCogs
    <2>1. Cardinality(kept) \in Nat /\ Cardinality(thread[t].kept) \in Nat
          /\ Cardinality(kept) <= Cardinality(thread[t].kept)
      BY <1>3, PartOfItems
    <2> QED BY <1>1, <2>1, TilesHaveRoom
  <1>8. Candidates(n)' = Candidates(n) /\ Touched' = Touched
    BY SameTiles DEF Steady
  <1>9. Reading(w)'
    BY <1>6 DEF Reading
  <1>10. WorkSound(w)'
    <2>1. /\ render'.phase \in {"rendering", "finalized"} /\ w.pc # "filter"
          /\ w.tile \in Touched' /\ w.kept \subseteq Candidates(w.tile)'
          /\ Cardinality(w.kept) <= MaxCogs
      BY <1>1, <1>2, <1>5, <1>6, <1>7, <1>8
    <2> QED BY <1>9, <2>1 DEF WorkSound
  <1>11. PoolAtWork
    BY <1>1, <1>5 DEF PoolAtWork
  <1> QED BY <1>4, <1>5, <1>10, <1>11, PoolKeeps

-----------------------------------------------------------------------------
(* The mosaic: the actions of the pool. *)
LEMMA CandidateFacts ==
  ASSUME MosaicInv, NEW n
  PROVE  /\ Candidates(n) \subseteq Pictures
         /\ \A i \in Candidates(n) : HrefOf[i] \in Hrefs /\ Imagery(bands[HrefOf[i]])
         /\ \A i \in Candidates(n) : i \notin Pyramid[n].beside => i \in Pyramid[n].over
  <1>1. Candidates(n) \subseteq render.features /\ render.features \subseteq Pictures
    BY DEF Candidates, MosaicInv, MosaicType
  <1>2. \A i \in Pictures : HrefOf[i] \in Hrefs
    BY DEF Pictures, Hrefs
  <1>3. \A i \in Candidates(n) : i \notin Pyramid[n].beside => i \in Pyramid[n].over
    BY DEF Candidates
  <1> QED BY <1>1, <1>2, <1>3 DEF MosaicInv, FeaturesUsable

LEMMA MaskFacts ==
  ASSUME MosaicInv, NEW n \in Touched
  PROVE  n \in Nat /\ Mask(n) \in Entry
  <1>1. n \in Nat
    BY PyramidOfItems DEF Touched
  <1>2. Candidates(n) \subseteq Catalogued
    BY CandidateFacts DEF Pictures
  <1> QED BY <1>1, <1>2 DEF Mask, Entry

(* A mask is explained by an image that could not be read. *)
LEMMA MaskTold ==
  ASSUME MosaicInv, Steady, UNCHANGED archive, counts' \subseteq Hrefs, failures' \subseteq Hrefs,
         NEW t \in Threads, thread[t].pc # "idle", Yields(t, render, Mask(thread[t].tile)),
         \E i \in Candidates(thread[t].tile) : HrefOf[i] \in failures'
  PROVE  MosaicInv'
  <1>1. /\ render.phase \in {"rendering", "finalized"} /\ render.untaken \in Seq(Touched)
        /\ render = [f \in RenderFields |-> render[f]] /\ thread[t].tile \in Touched
    BY WorkFacts
  <1>2. PICK e \in Entry : e = Mask(thread[t].tile)
    BY <1>1, MaskFacts
  <1>3. e.is = "mask" /\ e.of = Candidates(thread[t].tile)
    BY <1>2 DEF Mask
  <1>4. Explained(e)'
    BY <1>3 DEF Explained
  <1> QED BY <1>1, <1>2, <1>4, YieldsKeeps

LEMMA PictureTold ==
  ASSUME MosaicInv, Steady, UNCHANGED archive, counts' \subseteq Hrefs, failures' \subseteq Hrefs,
         NEW t \in Threads, thread[t].pc # "idle", NEW s \in SUBSET thread[t].kept, s # {},
         s \subseteq Pyramid[thread[t].tile].over, Yields(t, render, Picture(thread[t].tile, s))
  PROVE  MosaicInv'
  <1>1. /\ render.phase \in {"rendering", "finalized"} /\ render.untaken \in Seq(Touched)
        /\ render = [f \in RenderFields |-> render[f]] /\ thread[t].tile \in Nat
        /\ thread[t].kept \subseteq Candidates(thread[t].tile)
        /\ Cardinality(thread[t].kept) <= MaxCogs
    BY WorkFacts
  <1>2. /\ Candidates(thread[t].tile) \subseteq Pictures
        /\ \A i \in Candidates(thread[t].tile) : Imagery(bands[HrefOf[i]])
    BY CandidateFacts
  <1>3. Picture(thread[t].tile, s) \in Entry
    BY <1>1, <1>2 DEF Picture, Entry, Pictures
  <1>4. PICK e \in Entry : e = Picture(thread[t].tile, s)
    BY <1>3
  <1>5. e.is = "picture" /\ e.of = s /\ e.tile = thread[t].tile
    BY <1>4 DEF Picture
  <1>6. Cardinality(s) <= MaxCogs
    <2>1. thread[t].kept \in SUBSET Pictures
      BY <1>1, <1>2
    <2>2. Cardinality(s) \in Nat /\ Cardinality(thread[t].kept) \in Nat
          /\ Cardinality(s) <= Cardinality(thread[t].kept)
      BY <2>1, PartOfItems
    <2> QED BY <1>1, <2>2, TilesHaveRoom
  <1>7. bands' = bands /\ \A i \in s : Imagery(bands[HrefOf[i]])
    BY <1>1, <1>2 DEF Steady
  <1>8. Explained(e)'
    BY <1>5, <1>6, <1>7 DEF Explained
  <1> QED BY <1>1, <1>4, <1>8, YieldsKeeps

LEMMA TakeTileKeeps ==
  ASSUME MosaicInv, NEW t \in Threads, TakeTile(t)
  PROVE  MosaicInv'
  <1>1. render.phase \in {"rendering", "finalized"} /\ render.untaken \in Seq(Touched)
        /\ render.untaken # <<>>
    BY DEF MosaicInv, MosaicType, InListOrder, Early, TakeTile
  <1>2. PICK n \in Touched : n = Head(render.untaken)
    BY <1>1
  <1>3. Tail(render.untaken) \in Seq(Touched)
    BY <1>1
  <1>4. PICK r : r = [render EXCEPT !.untaken = Tail(@)]
    OBVIOUS
  <1>5. /\ r = [f \in RenderFields |-> r[f]] /\ r.untaken \in Seq(Touched)
        /\ \A f \in RenderFields \ {"untaken"} : r[f] = render[f]
    BY <1>3, <1>4 DEF MosaicInv, MosaicType, RenderFields
  <1>6. CASE Pyramid[n].zoom <= 10
    <2>1. Yields(t, r, Mask(n)) /\ UNCHANGED <<bands, counts, failures, archive>>
      BY <1>2, <1>4, <1>6 DEF TakeTile
    <2>2. PICK e \in Entry : e = Mask(n)
      BY MaskFacts
    <2>3. e.is = "mask" /\ e.tile = n
      BY <2>2 DEF Mask
    <2>4. ~(Pyramid[n].zoom > 10)
      <3>1. n \in 1..Len(Pyramid)
        BY <1>2 DEF Touched
      <3> DEFINE C == [zoom : Nat, over : SUBSET Catalogued, beside : SUBSET Catalogued]
      <3>2. Pyramid \in Seq(C)
        BY PyramidOfItems
      <3> HIDE DEF C
      <3>3. Pyramid[n] \in C
        BY <3>1, <3>2
      <3>4. Pyramid[n] \in [zoom : Nat, over : SUBSET Catalogued, beside : SUBSET Catalogued]
        BY <3>3 DEF C
      <3>5. Pyramid[n].zoom \in Nat
        BY <3>4
      <3> QED BY <1>6, <3>5
    <2>5. Explained(e)'
      BY <2>3, <2>4 DEF Explained
    <2>6. r.features = render.features
      BY <1>5 DEF RenderFields
    <2>7. Steady /\ counts' \subseteq Hrefs /\ failures' \subseteq Hrefs
      <3>1. render'.features = r.features
        BY <2>1, <1>5 DEF Yields, RenderFields
      <3> QED BY <2>1, <2>6, <3>1 DEF Steady, MosaicInv, MosaicType
    <2> QED BY <1>1, <1>5, <2>1, <2>2, <2>5, <2>7, YieldsKeeps
  <1>7. CASE ~(Pyramid[n].zoom <= 10)
    <2> DEFINE w == [pc |-> "filter", tile |-> n, todo |-> Candidates(n), kept |-> {}, drawn |-> {}]
    <2>1. /\ render' = r /\ UNCHANGED <<bands, counts, failures, archive>>
          /\ thread' = [thread EXCEPT ![t] =
                 [Unused EXCEPT !.pc = "filter", !.tile = n, !.todo = Candidates(n)]]
      BY <1>2, <1>4, <1>7 DEF TakeTile
    <2>2. thread' = [thread EXCEPT ![t] = w]
      <3> DEFINE u == [Unused EXCEPT !.pc = "filter", !.tile = n, !.todo = Candidates(n)]
      <3>1. DOMAIN Unused = WorkFields /\ Unused.kept = {} /\ Unused.drawn = {}
        BY DEF Unused, WorkFields
      <3>2. u = [f \in WorkFields |-> u[f]]
        BY <3>1
      <3>3. /\ u.pc = "filter" /\ u.tile = n /\ u.todo = Candidates(n) /\ u.kept = {}
            /\ u.drawn = {}
        BY <3>1 DEF WorkFields
      <3> HIDE DEF u
      <3>4. u = w
        BY <3>2, <3>3 DEF WorkFields
      <3> QED BY <2>1, <3>4 DEF u
    <2>3. Candidates(n) \subseteq Pictures /\ n \in Nat
      BY CandidateFacts, MaskFacts
    <2>4. w \in Work
      BY <2>3 DEF Work
    <2>5. /\ w.pc = "filter" /\ w.tile = n /\ w.todo = Candidates(n) /\ w.kept = {}
          /\ w.drawn = {}
      OBVIOUS
    <2> HIDE DEF w
    <2>6. PICK v \in Work : v = w
      BY <2>4
    <2>7. r.features = render.features /\ r.phase = render.phase /\ r.result = render.result
      BY <1>5 DEF RenderFields
    <2>8. Steady
      BY <2>1, <2>7 DEF Steady
    <2>9. Candidates(n)' = Candidates(n) /\ Touched' = Touched
      BY <2>8, SameTiles DEF Steady
    <2>10. Cardinality({}) = 0
      BY FS_EmptySet
    <2>11. Filtering(v)'
      BY <2>5, <2>6, <2>9, <2>10, TilesHaveRoom DEF Filtering
    <2>12. WorkSound(v)'
      <3>1. render'.phase \in {"rendering", "finalized"}
        BY <1>1, <2>1, <2>7
      <3>2. v.pc = "filter" /\ v.tile \in Touched' /\ v.kept = {}
        BY <2>5, <2>6, <2>9
      <3>3. Cardinality(v.kept) <= MaxCogs
        BY <2>10, <3>2, TilesHaveRoom
      <3> QED BY <2>11, <3>1, <3>2, <3>3 DEF WorkSound
    <2>13. PoolAtWork
      BY <1>1, <1>5, <2>1, <2>7, <2>8 DEF PoolAtWork, MosaicInv, MosaicType
    <2> QED BY <2>1, <2>2, <2>6, <2>7, <2>12, <2>13, PoolKeeps
  <1> QED BY <1>6, <1>7


LEMMA ValidationTells ==
  ASSUME NEW u \in Hrefs, NEW opens \in BOOLEAN, Validation(u, opens),
         counts \subseteq Hrefs, failures \subseteq Hrefs
  PROVE  /\ counts' \subseteq Hrefs /\ failures' \subseteq Hrefs /\ failures \subseteq failures'
         /\ Validates(u, opens) => Imagery(bands[u])
         /\ Imagery(bands[u]) /\ ~Validates(u, opens) => u \in failures'
  <1>1. counts' \subseteq Hrefs
    BY DEF Validation
  <1>2. failures' \subseteq Hrefs /\ failures \subseteq failures'
    BY DEF Validation
  <1>3. Validates(u, opens) => Imagery(bands[u])
    BY DEF Validates
  <1>4. ASSUME Imagery(bands[u]), ~Validates(u, opens), u \notin failures PROVE u \in failures'
    <2>1. u \notin counts /\ ~opens
      BY <1>4, Zenon DEF Validates
    <2> QED BY <2>1 DEF Validation
  <1>5. u \in failures => u \in failures'
    BY <1>2
  <1> QED BY <1>1, <1>2, <1>3, <1>4, <1>5

LEMMA FilterCogKeeps ==
  ASSUME MosaicInv, NEW t \in Threads, FilterCog(t)
  PROVE  MosaicInv'
  <1>1. thread[t].pc = "filter" /\ UNCHANGED <<bands, render, archive>>
    BY DEF FilterCog
  <1>2. PICK i \in thread[t].todo, opens \in BOOLEAN :
          /\ Validation(HrefOf[i], opens)
          /\ LET kept == thread[t].kept \cup (IF Validates(HrefOf[i], opens) THEN {i} ELSE {}) IN
             thread' = [thread EXCEPT ![t].kept = kept,
                                      ![t].todo = IF Enough(kept) THEN {} ELSE @ \ {i}]
    BY DEF FilterCog
  <1>3. PICK add \in SUBSET {i} : add = IF Validates(HrefOf[i], opens) THEN {i} ELSE {}
    OBVIOUS
  <1>4. PICK n \in Touched : n = thread[t].tile /\ n \in Nat
    BY <1>1, WorkFacts
  <1>5. /\ thread[t] \in Work /\ render.phase \in {"rendering", "finalized"}
        /\ render.untaken \in Seq(Touched) /\ render = [f \in RenderFields |-> render[f]]
        /\ thread[t].kept \subseteq Candidates(n) /\ Cardinality(thread[t].kept) <= MaxCogs
    BY <1>1, <1>4, WorkFacts
  <1>6. /\ thread[t].todo \subseteq Candidates(n)
        /\ thread[t].todo # {} => Cardinality(thread[t].kept) < MaxCogs
        /\ thread[t].kept = {} =>
             \A j \in Candidates(n) \ thread[t].todo : HrefOf[j] \in failures
    <2>1. WorkSound(thread[t])
      BY <1>1, WorkFacts
    <2>2. Filtering(thread[t])
      BY <1>1, <2>1 DEF WorkSound
    <2>3. thread[t].todo \subseteq Candidates(thread[t].tile)
      BY <2>2 DEF Filtering
    <2>4. thread[t].todo # {} => Cardinality(thread[t].kept) < MaxCogs
      BY <2>2 DEF Filtering
    <2>5. thread[t].kept = {} =>
            \A j \in Candidates(thread[t].tile) \ thread[t].todo : HrefOf[j] \in failures
      BY <2>2 DEF Filtering
    <2> QED BY <1>4, <2>3, <2>4, <2>5
  <1>7. i \in Candidates(n) /\ i \in Pictures /\ HrefOf[i] \in Hrefs /\ Imagery(bands[HrefOf[i]])
        /\ Candidates(n) \subseteq Pictures
    BY <1>6, CandidateFacts
  <1>8. /\ counts' \subseteq Hrefs /\ failures' \subseteq Hrefs /\ failures \subseteq failures'
        /\ ~Validates(HrefOf[i], opens) => HrefOf[i] \in failures'
    BY <1>2, <1>7, ValidationTells DEF MosaicInv, MosaicType
  <1>9. PICK kept \in SUBSET Candidates(n) : kept = thread[t].kept \cup add
    BY <1>3, <1>5, <1>7
  <1>10. PICK todo \in SUBSET Candidates(n) :
           todo = IF Enough(kept) THEN {} ELSE thread[t].todo \ {i}
    BY <1>6
  <1> DEFINE w == [pc |-> "filter", tile |-> n, todo |-> todo, kept |-> kept,
                   drawn |-> thread[t].drawn]
  <1>11. thread' = [thread EXCEPT ![t] = w]
    <2> DEFINE u == [thread[t] EXCEPT !.kept = kept, !.todo = todo]
    <2>1. thread' = [thread EXCEPT ![t] = u]
      BY <1>2, <1>3, <1>9, <1>10 DEF MosaicInv, MosaicType
    <2>2. DOMAIN thread[t] = WorkFields
      BY <1>5 DEF Work, WorkFields
    <2>3. u = [f \in WorkFields |-> u[f]]
      BY <2>2
    <2>4. /\ u.pc = "filter" /\ u.tile = n /\ u.todo = todo /\ u.kept = kept
          /\ u.drawn = thread[t].drawn
      BY <1>1, <1>4, <2>2 DEF WorkFields
    <2> HIDE DEF u
    <2>5. u = w
      BY <2>3, <2>4 DEF WorkFields
    <2> QED BY <2>1, <2>5
  <1>12. w \in Work
    BY <1>4, <1>5, <1>7 DEF Work
  <1>13. w.pc = "filter" /\ w.tile = n /\ w.todo = todo /\ w.kept = kept
    OBVIOUS
  <1> HIDE DEF w
  <1>14. PICK v \in Work : v = w
    BY <1>12
  <1>15. Steady
    BY <1>1, <1>8 DEF Steady
  <1>16. Candidates(n)' = Candidates(n) /\ Touched' = Touched
    BY <1>15, SameTiles DEF Steady
  <1>17. Cardinality(kept) \in Nat /\ Cardinality(kept) <= MaxCogs
    <2>1. thread[t].kept \in SUBSET Pictures /\ kept \in SUBSET Pictures
      BY <1>5, <1>7
    <2>2. /\ Cardinality(thread[t].kept) \in Nat /\ Cardinality(kept) \in Nat
          /\ Cardinality(thread[t].kept \cup {i}) <= Cardinality(thread[t].kept) + 1
      BY <2>1, PartOfItems
    <2>3. thread[t].kept \cup add = thread[t].kept \cup {i}
          \/ thread[t].kept \cup add = thread[t].kept
      BY <1>3
    <2>4. Cardinality(thread[t].kept) < MaxCogs
      BY <1>2, <1>6
    <2>5. PICK c \in Nat : c = Cardinality(thread[t].kept)
      BY <2>2
    <2>6. PICK d \in Nat : d = Cardinality(kept)
      BY <2>2
    <2>7. d <= c + 1
      <3>1. CASE kept = thread[t].kept \cup {i}
        BY <2>2, <2>5, <2>6, <3>1
      <3>2. CASE kept = thread[t].kept
        BY <2>5, <2>6, <3>2
      <3> QED BY <1>9, <2>3, <3>1, <3>2
    <2> QED BY <2>4, <2>5, <2>6, <2>7, TilesHaveRoom
  <1>18. todo # {} => Cardinality(kept) < MaxCogs
    BY <1>10, <1>17, TilesHaveRoom DEF Enough
  <1>19. ASSUME kept = {}, NEW j \in Candidates(n) \ todo PROVE HrefOf[j] \in failures'
    <2>1. ~Validates(HrefOf[i], opens) /\ thread[t].kept = {}
      BY <1>3, <1>9, <1>19
    <2>2. ~Enough(kept)
      <3>1. Cardinality(kept) = 0
        BY <1>19, FS_EmptySet
      <3> QED BY <3>1, TilesHaveRoom DEF Enough
    <2>3. todo = thread[t].todo \ {i}
      BY <1>10, <2>2
    <2>4. CASE j = i
      BY <1>8, <2>1, <2>4
    <2>5. CASE j # i
      <3>1. j \in Candidates(n) \ thread[t].todo
        BY <1>19, <2>3, <2>5
      <3> QED BY <1>6, <1>8, <2>1, <3>1
    <2> QED BY <2>4, <2>5
  <1>20. Filtering(v)'
    BY <1>10, <1>13, <1>14, <1>16, <1>18, <1>19 DEF Filtering
  <1>21. WorkSound(v)'
    <2>1. /\ render'.phase \in {"rendering", "finalized"} /\ v.tile \in Touched'
          /\ v.kept \subseteq Candidates(v.tile)' /\ Cardinality(v.kept) <= MaxCogs
          /\ v.pc = "filter"
      BY <1>1, <1>5, <1>13, <1>14, <1>16, <1>17
    <2> QED BY <1>20, <2>1 DEF WorkSound
  <1>22. PoolAtWork
    BY <1>1, <1>5, <1>8, <1>15 DEF PoolAtWork
  <1> QED BY <1>1, <1>11, <1>14, <1>21, <1>22, PoolKeeps

LEMMA BeginMosaicKeeps ==
  ASSUME MosaicInv, NEW t \in Threads, BeginMosaic(t)
  PROVE  MosaicInv'
  <1>1. thread[t].pc = "filter" /\ thread[t].todo = {} /\ UNCHANGED <<bands, counts, failures, archive>>
    BY DEF BeginMosaic
  <1>2. PICK usable \in SUBSET thread[t].kept :
          usable = {i \in thread[t].kept : HrefOf[i] \notin failures}
    OBVIOUS
  <1>3. counts' \subseteq Hrefs /\ failures' \subseteq Hrefs
    BY <1>1 DEF MosaicInv, MosaicType
  <1>4. CASE usable = {}
    <2>1. Yields(t, render, Mask(thread[t].tile))
      BY <1>2, <1>4 DEF BeginMosaic
    <2>2. render'.features = render.features
      BY <1>1, <2>1, WorkFacts DEF Yields, RenderFields
    <2>3. Steady
      BY <1>1, <2>2 DEF Steady
    <2>4. \E i \in Candidates(thread[t].tile) : HrefOf[i] \in failures
      <3>1. thread[t].tile \in Touched /\ thread[t].kept \subseteq Candidates(thread[t].tile)
            /\ WorkSound(thread[t])
        BY <1>1, WorkFacts
      <3>2. PICK i : i \in Candidates(thread[t].tile)
        BY <3>1 DEF Touched
      <3>3. CASE thread[t].kept = {}
        <4>1. Filtering(thread[t])
          BY <1>1, <3>1 DEF WorkSound
        <4>2. \A j \in Candidates(thread[t].tile) \ thread[t].todo : HrefOf[j] \in failures
          BY <3>3, <4>1 DEF Filtering
        <4> QED BY <1>1, <3>2, <4>2
      <3>4. CASE thread[t].kept # {}
        BY <1>2, <1>4, <3>1, <3>4
      <3> QED BY <3>3, <3>4
    <2> QED BY <1>1, <1>3, <2>1, <2>3, <2>4, MaskTold
  <1>5. CASE usable # {}
    <2>1. Round(t, "mosaic", usable)
      BY <1>2, <1>5 DEF BeginMosaic
    <2>2. Steady
      BY <1>1, <2>1 DEF Steady, Round
    <2> QED BY <1>1, <1>3, <1>5, <2>1, <2>2, RoundKeeps
  <1> QED BY <1>4, <1>5

LEMMA ReadingFacts ==
  ASSUME MosaicInv, NEW t \in Threads, thread[t].pc \in {"mosaic", "single", "again"}
  PROVE  /\ thread[t].kept # {} /\ thread[t].todo \subseteq thread[t].kept
         /\ thread[t].drawn \subseteq thread[t].kept
         /\ thread[t].drawn \subseteq Pyramid[thread[t].tile].over
         /\ \A i \in thread[t].kept \ (thread[t].todo \cup thread[t].drawn) : HrefOf[i] \in failures
  <1>1. WorkSound(thread[t])
    BY WorkFacts
  <1>2. Reading(thread[t])
    BY <1>1 DEF WorkSound
  <1> QED BY <1>2 DEF Reading

(* The mosaic of what is kept fails, and an image under the tile is known to be
   unreadable if there is to be no other attempt. *)
LEMMA FailureKeeps ==
  ASSUME MosaicInv, bands' = bands, failures \subseteq failures', UNCHANGED archive,
         counts' \subseteq Hrefs, failures' \subseteq Hrefs, NEW t \in Threads,
         thread[t].pc \in {"mosaic", "again"}, MosaicFails(t),
         \E i \in Candidates(thread[t].tile) : HrefOf[i] \in failures'
  PROVE  MosaicInv'
  <1>1. CASE thread[t].pc = "mosaic"
    <2>1. Round(t, "single", thread[t].kept)
      BY <1>1 DEF MosaicFails
    <2>2. Steady
      BY <2>1 DEF Steady, Round
    <2>3. PICK kept \in SUBSET thread[t].kept : kept = thread[t].kept
      OBVIOUS
    <2> QED BY <1>1, <2>1, <2>2, <2>3, RoundKeeps, ReadingFacts
  <1>2. CASE thread[t].pc = "again"
    <2>1. Yields(t, render, Mask(thread[t].tile))
      BY <1>2 DEF MosaicFails
    <2>2. render'.features = render.features
      BY <1>2, <2>1, WorkFacts DEF Yields, RenderFields
    <2>3. Steady
      BY <2>2 DEF Steady
    <2> QED BY <1>2, <2>1, <2>3, MaskTold
  <1> QED BY <1>1, <1>2

LEMMA DrawingKeeps ==
  ASSUME MosaicInv, bands' = bands, failures \subseteq failures', UNCHANGED archive,
         counts' \subseteq Hrefs, failures' \subseteq Hrefs, NEW t \in Threads,
         thread[t].pc \in {"mosaic", "single", "again"}, NEW i \in thread[t].todo,
         NEW s \in SUBSET thread[t].kept, thread[t].drawn \subseteq s,
         s \subseteq Pyramid[thread[t].tile].over, i \in s \/ HrefOf[i] \in failures',
         Drawing(t, i, s)
  PROVE  MosaicInv'
  <1>1. CASE UNCHANGED render
             /\ thread' = [thread EXCEPT ![t].todo = @ \ {i}, ![t].drawn = s]
    <2>1. /\ thread[t] \in Work /\ render.phase \in {"rendering", "finalized"}
          /\ render.untaken \in Seq(Touched) /\ render = [f \in RenderFields |-> render[f]]
          /\ thread[t].tile \in Touched /\ thread[t].kept \subseteq Candidates(thread[t].tile)
          /\ Cardinality(thread[t].kept) <= MaxCogs
      BY WorkFacts
    <2> DEFINE w == [thread[t] EXCEPT !.todo = thread[t].todo \ {i}, !.drawn = s]
    <2>2. DOMAIN thread[t] = WorkFields
      BY <2>1 DEF Work, WorkFields
    <2>3. w = [f \in WorkFields |-> w[f]]
      BY <2>2
    <2>4. /\ w.pc = thread[t].pc /\ w.tile = thread[t].tile /\ w.kept = thread[t].kept
          /\ w.todo = thread[t].todo \ {i} /\ w.drawn = s
      BY <2>2 DEF WorkFields
    <2>5. thread' = [thread EXCEPT ![t] = w]
      BY <1>1 DEF MosaicInv, MosaicType
    <2> HIDE DEF w
    <2>6. w \in Work
      <3>1. w = [pc |-> w.pc, tile |-> w.tile, todo |-> w.todo, kept |-> w.kept, drawn |-> w.drawn]
        BY <2>3 DEF WorkFields
      <3>2. /\ thread[t].pc \in {"idle", "filter", "mosaic", "single", "again"}
            /\ thread[t].tile \in Nat /\ thread[t].todo \subseteq Pictures
            /\ thread[t].kept \subseteq Pictures
        BY <2>1 DEF Work
      <3>3. /\ w.pc \in {"idle", "filter", "mosaic", "single", "again"} /\ w.tile \in Nat
            /\ w.todo \in SUBSET Pictures /\ w.kept \in SUBSET Pictures
            /\ w.drawn \in SUBSET Pictures
        BY <2>4, <3>2
      <3> QED BY <3>1, <3>3 DEF Work
    <2>7. PICK v \in Work : v = w
      BY <2>6
    <2>8. Steady
      BY <1>1 DEF Steady
    <2>9. Touched' = Touched /\ \A n : Candidates(n)' = Candidates(n)
      BY <2>8, SameTiles DEF Steady
    <2>10. /\ thread[t].kept # {} /\ thread[t].todo \subseteq thread[t].kept
           /\ \A j \in thread[t].kept \ (thread[t].todo \cup thread[t].drawn) :
                HrefOf[j] \in failures
      BY ReadingFacts
    <2>11. \A j \in v.kept \ (v.todo \cup v.drawn) : HrefOf[j] \in failures'
      <3> SUFFICES ASSUME NEW j \in v.kept \ (v.todo \cup v.drawn) PROVE HrefOf[j] \in failures'
        OBVIOUS
      <3>1. j \in thread[t].kept /\ j \notin thread[t].todo \ {i} /\ j \notin s
        BY <2>4, <2>7
      <3>2. CASE j = i
        BY <3>1, <3>2
      <3>3. CASE j # i
        BY <2>10, <3>1, <3>3
      <3> QED BY <3>2, <3>3
    <2>12. Reading(v)'
      <3>1. /\ v.kept # {} /\ v.todo \subseteq v.kept /\ v.drawn \subseteq v.kept
            /\ v.drawn \subseteq Pyramid[v.tile].over
        BY <2>4, <2>7, <2>10
      <3> QED BY <2>11, <3>1 DEF Reading
    <2>13. WorkSound(v)'
      <3>1. /\ render'.phase \in {"rendering", "finalized"} /\ v.tile \in Touched'
            /\ v.kept \subseteq Candidates(v.tile)' /\ Cardinality(v.kept) <= MaxCogs
            /\ v.pc # "filter"
        BY <1>1, <2>1, <2>4, <2>7, <2>9
      <3> QED BY <2>12, <3>1 DEF WorkSound
    <2>14. PoolAtWork
      BY <1>1, <2>1, <2>8 DEF PoolAtWork
    <2> QED BY <1>1, <2>5, <2>7, <2>13, <2>14, PoolKeeps
  <1>2. CASE s # {} /\ Yields(t, render, Picture(thread[t].tile, s))
    <2>1. render'.features = render.features
      BY <1>2, WorkFacts DEF Yields, RenderFields
    <2>2. Steady
      BY <2>1 DEF Steady
    <2> QED BY <1>2, <2>2, PictureTold
  <1> QED BY <1>1, <1>2 DEF Drawing

LEMMA ReadCogKeeps ==
  ASSUME MosaicInv, NEW t \in Threads, ReadCog(t)
  PROVE  MosaicInv'
  <1>1. thread[t].pc \in {"mosaic", "single", "again"} /\ bands' = bands /\ archive' = archive
    BY DEF ReadCog
  <1> DEFINE Fails(i, opens) ==
               \/ HrefOf[i] \in failures \/ ~opens
               \/ Imagery(bands[HrefOf[i]]) /\ i \in Pyramid[thread[t].tile].beside
  <1>2. PICK i \in thread[t].todo, opens \in BOOLEAN :
          /\ failures' = IF Fails(i, opens) THEN failures \cup {HrefOf[i]} ELSE failures
          /\ counts' = IF HrefOf[i] \notin failures /\ opens THEN counts \cup {HrefOf[i]} ELSE counts
          /\ IF ~Fails(i, opens) /\ Imagery(bands[HrefOf[i]])
               THEN Drawing(t, i, thread[t].drawn \cup {i})
               ELSE \/ Drawing(t, i, thread[t].drawn)
                    \/ thread[t].pc # "single" /\ MosaicFails(t)
    BY DEF ReadCog
  <1>3. /\ thread[t].todo \subseteq thread[t].kept /\ thread[t].drawn \subseteq thread[t].kept
        /\ thread[t].drawn \subseteq Pyramid[thread[t].tile].over
        /\ thread[t].kept \subseteq Candidates(thread[t].tile)
    BY <1>1, ReadingFacts, WorkFacts
  <1>4. /\ i \in Candidates(thread[t].tile) /\ HrefOf[i] \in Hrefs /\ Imagery(bands[HrefOf[i]])
        /\ i \notin Pyramid[thread[t].tile].beside => i \in Pyramid[thread[t].tile].over
    BY <1>2, <1>3, CandidateFacts
  <1>5. counts' \subseteq Hrefs /\ failures' \subseteq Hrefs /\ failures \subseteq failures'
    <2>1. counts \subseteq Hrefs /\ failures \subseteq Hrefs
      BY DEF MosaicInv, MosaicType
    <2> HIDE DEF Fails
    <2> QED BY <1>2, <1>4, <2>1
  <1>6. CASE ~Fails(i, opens)
    <2>1. PICK s \in SUBSET thread[t].kept : s = thread[t].drawn \cup {i}
      BY <1>2, <1>3
    <2>2. i \in Pyramid[thread[t].tile].over
      BY <1>4, <1>6
    <2>3. Drawing(t, i, s)
      BY <1>2, <1>4, <1>6, <2>1
    <2>4. i \in s /\ thread[t].drawn \subseteq s /\ s \subseteq Pyramid[thread[t].tile].over
      BY <1>3, <2>1, <2>2
    <2> HIDE DEF Fails
    <2> QED BY <1>1, <1>5, <2>3, <2>4, DrawingKeeps
  <1>7. CASE Fails(i, opens)
    <2> HIDE DEF Fails
    <2>1. HrefOf[i] \in failures'
      BY <1>2, <1>7
    <2>2. CASE Drawing(t, i, thread[t].drawn)
      <3>1. PICK s \in SUBSET thread[t].kept : s = thread[t].drawn
        BY <1>3
      <3> QED BY <1>1, <1>3, <1>5, <2>1, <2>2, <3>1, DrawingKeeps
    <2>3. CASE thread[t].pc # "single" /\ MosaicFails(t)
      BY <1>1, <1>4, <1>5, <2>1, <2>3, FailureKeeps
    <2> QED BY <1>2, <1>7, <2>2, <2>3
  <1> QED BY <1>6, <1>7

LEMMA EndRoundKeeps ==
  ASSUME MosaicInv, NEW t \in Threads, EndRound(t)
  PROVE  MosaicInv'
  <1>1. /\ thread[t].pc \in {"mosaic", "single", "again"} /\ thread[t].todo = {}
        /\ UNCHANGED <<bands, counts, failures, archive>>
    BY DEF EndRound
  <1>2. counts' \subseteq Hrefs /\ failures' \subseteq Hrefs /\ failures \subseteq failures'
    BY <1>1 DEF MosaicInv, MosaicType
  <1>3. /\ thread[t].kept # {} /\ thread[t].drawn \subseteq thread[t].kept
        /\ thread[t].drawn \subseteq Pyramid[thread[t].tile].over
        /\ \A i \in thread[t].kept \ thread[t].drawn : HrefOf[i] \in failures
        /\ thread[t].kept \subseteq Candidates(thread[t].tile)
    BY <1>1, ReadingFacts, WorkFacts
  <1>4. ASSUME NEW e, Yields(t, render, e) PROVE Steady
    <2>1. render'.features = render.features
      BY <1>1, <1>4, WorkFacts DEF Yields, RenderFields
    <2> QED BY <1>1, <2>1 DEF Steady
  <1>5. CASE thread[t].drawn = {}
    <2>1. \E i \in Candidates(thread[t].tile) : HrefOf[i] \in failures'
      BY <1>1, <1>3, <1>5
    <2>2. CASE thread[t].pc = "single"
      <3>1. Yields(t, render, Mask(thread[t].tile))
        BY <1>5, <2>2 DEF EndRound
      <3> QED BY <1>1, <1>2, <1>4, <2>1, <3>1, MaskTold
    <2>3. CASE thread[t].pc # "single"
      <3>1. MosaicFails(t)
        BY <1>5, <2>3 DEF EndRound
      <3> QED BY <1>1, <1>2, <2>1, <2>3, <3>1, FailureKeeps
    <2> QED BY <2>2, <2>3
  <1>6. CASE thread[t].drawn # {}
    <2>1. PICK s \in SUBSET thread[t].kept : s = thread[t].drawn
      BY <1>3
    <2>2. CASE thread[t].pc = "single"
      <3>1. Round(t, "again", s)
        BY <1>6, <2>1, <2>2 DEF EndRound
      <3>2. Steady
        BY <1>1, <3>1 DEF Steady, Round
      <3> QED BY <1>1, <1>2, <1>6, <2>1, <3>1, <3>2, RoundKeeps
    <2>3. CASE thread[t].pc # "single"
      <3>1. Yields(t, render, Picture(thread[t].tile, s))
        BY <1>6, <2>1, <2>3 DEF EndRound
      <3> QED BY <1>1, <1>2, <1>3, <1>4, <1>6, <2>1, <3>1, PictureTold
    <2> QED BY <2>2, <2>3
  <1> QED BY <1>5, <1>6
-----------------------------------------------------------------------------
(* The mosaic: the actions of the main thread. *)
LEMMA EarlyKeeps ==
  ASSUME MosaicInv, Early, MosaicType', FeaturesUsable', UNCHANGED <<thread, archive>>,
         render'.phase \in {"checking", "ended"}, render'.batch = render.batch,
         render'.untaken = render.untaken, render'.result = render.result
  PROVE  MosaicInv'
  <1>1. /\ archive = <<>> /\ render.batch = <<>> /\ render.untaken = <<>> /\ render.result = <<>>
    BY DEF MosaicInv, InListOrder
  <1>2. DOMAIN <<>> = {} /\ Len(<<>>) = 0
    OBVIOUS
  <1>3. Early' /\ render'.phase # "finalized"
    BY DEF Early
  <1>4. InListOrder' /\ ResultsSound' /\ ArchiveSound'
    BY <1>1, <1>2, <1>3 DEF InListOrder, ResultsSound, ArchiveSound
  <1>5. ThreadsSound'
    <2>1. \A t \in Threads : thread[t].pc = "idle"
      BY DEF MosaicInv, ThreadsSound, WorkSound, Early
    <2> QED BY <2>1 DEF ThreadsSound, WorkSound
  <1> QED BY <1>4, <1>5 DEF MosaicInv

LEMMA LoadFeaturesKeeps ==
  ASSUME MosaicInv, LoadFeatures
  PROVE  MosaicInv'
  <1>1. PICK found \in SUBSET Pictures :
          /\ found = {i \in Catalogued : HrefOf[i] # NoHref}
          /\ render' = [render EXCEPT !.phase = IF found = {} THEN "ended" ELSE "checking",
                                      !.unchecked = found]
    BY DEF LoadFeatures, Pictures
  <1>2. /\ render'.phase \in {"checking", "ended"} /\ render'.unchecked = found
        /\ render' = [f \in RenderFields |-> render'[f]]
        /\ render'.features = render.features /\ render'.batch = render.batch
        /\ render'.untaken = render.untaken /\ render'.result = render.result
    BY <1>1 DEF MosaicInv, MosaicType, RenderFields
  <1>3. /\ render.phase = "start" /\ render.features = {}
        /\ UNCHANGED <<counts, failures, thread, archive>>
    BY DEF LoadFeatures, MosaicInv, FeaturesUsable
  <1>4. MosaicType'
    BY <1>2, <1>3 DEF MosaicInv, MosaicType
  <1>5. FeaturesUsable'
    BY <1>2, <1>3 DEF FeaturesUsable
  <1> QED BY <1>2, <1>3, <1>4, <1>5, EarlyKeeps DEF Early

LEMMA PreValidateKeeps ==
  ASSUME MosaicInv, PreValidate
  PROVE  MosaicInv'
  <1>1. PICK i : i = Min(render.unchecked)
    OBVIOUS
  <1>2. i \in Pictures /\ HrefOf[i] \in Hrefs
    <2>1. render.unchecked \in SUBSET Nat /\ render.unchecked # {}
          /\ render.unchecked \subseteq Pictures
      BY ItemsAreNumbered DEF PreValidate, MosaicInv, MosaicType, Pictures
    <2>2. i \in render.unchecked
      BY <1>1, <2>1, LeastOf
    <2> QED BY <2>1, <2>2 DEF Pictures, Hrefs
  <1>3. PICK opens \in BOOLEAN :
          /\ Validation(HrefOf[i], opens)
          /\ render' = [render EXCEPT !.unchecked = @ \ {i},
                          !.features = IF Validates(HrefOf[i], opens) THEN @ \cup {i} ELSE @]
    BY <1>1 DEF PreValidate
  <1>4. PICK features : features = IF Validates(HrefOf[i], opens) THEN render.features \cup {i}
                                                                  ELSE render.features
    OBVIOUS
  <1>5. render.phase = "checking" /\ UNCHANGED <<bands, thread, archive>>
    BY DEF PreValidate
  <1>6. /\ render' = [render EXCEPT !.unchecked = render.unchecked \ {i}, !.features = features]
    BY <1>3, <1>4
  <1>7. /\ render'.phase = "checking" /\ render'.unchecked = render.unchecked \ {i}
        /\ render' = [f \in RenderFields |-> render'[f]]
        /\ render'.features = features /\ render'.batch = render.batch
        /\ render'.untaken = render.untaken /\ render'.result = render.result
    BY <1>5, <1>6 DEF MosaicInv, MosaicType, RenderFields
  <1>8. /\ counts' \subseteq Hrefs /\ failures' \subseteq Hrefs
        /\ Validates(HrefOf[i], opens) => Imagery(bands[HrefOf[i]])
    BY <1>2, <1>3, ValidationTells DEF MosaicInv, MosaicType
  <1>9. features \subseteq Pictures /\ \A j \in features : Imagery(bands[HrefOf[j]])
    BY <1>2, <1>4, <1>8 DEF MosaicInv, MosaicType, FeaturesUsable
  <1>10. MosaicType'
    BY <1>5, <1>7, <1>8, <1>9 DEF MosaicInv, MosaicType
  <1>11. FeaturesUsable'
    BY <1>5, <1>7, <1>9 DEF FeaturesUsable
  <1> QED BY <1>5, <1>7, <1>10, <1>11, EarlyKeeps DEF Early

(* Once there is a list, the main thread changes only what is given out and written. *)
LEMMA RenderKeeps ==
  ASSUME MosaicInv, UNCHANGED <<bands, counts, failures, thread>>,
         render' = [f \in RenderFields |-> render'[f]],
         render'.phase \in {"rendering", "finalized"},
         render'.unchecked = render.unchecked, render'.features = render.features,
         archive' \in Seq(Entry), InListOrder', ResultsSound', ArchiveSound'
  PROVE  MosaicInv'
  <1>1. Steady
    BY DEF Steady
  <1>2. MosaicType' /\ FeaturesUsable'
    BY DEF MosaicInv, MosaicType, FeaturesUsable
  <1>3. ThreadsSound'
    <2> SUFFICES ASSUME NEW t \in Threads PROVE WorkSound(thread[t])'
      BY DEF ThreadsSound
    <2>1. PICK v \in Work : v = thread[t] /\ WorkSound(v)
      BY DEF MosaicInv, MosaicType, ThreadsSound
    <2>2. WorkSound(v)'
      BY <1>1, <2>1, WorkStays
    <2>3. thread'[t] = v
      BY <2>1
    <2> QED BY <2>2, <2>3 DEF WorkSound, Filtering, Reading
  <1> QED BY <1>2, <1>3 DEF MosaicInv

LEMMA ListTilesKeeps ==
  ASSUME MosaicInv, ListTiles
  PROVE  MosaicInv'
  <1>1. /\ render.phase = "checking" /\ UNCHANGED <<bands, counts, failures, thread, archive>>
        /\ render' = IF render.features = {} THEN [render EXCEPT !.phase = "ended"]
                     ELSE [render EXCEPT !.phase = "rendering", !.rest = TileList]
    BY DEF ListTiles
  <1>2. archive = <<>> /\ render.batch = <<>> /\ render.untaken = <<>> /\ render.result = <<>>
    BY <1>1 DEF MosaicInv, InListOrder, Early
  <1>3. render = [f \in RenderFields |-> render[f]]
    BY DEF MosaicInv, MosaicType
  <1>4. CASE render.features = {}
    <2>1. /\ render'.phase = "ended" /\ render'.unchecked = render.unchecked
          /\ render' = [f \in RenderFields |-> render'[f]]
          /\ render'.features = render.features /\ render'.batch = render.batch
          /\ render'.untaken = render.untaken /\ render'.result = render.result
      BY <1>1, <1>3, <1>4 DEF RenderFields
    <2>2. MosaicType' /\ FeaturesUsable'
      BY <1>1, <1>4, <2>1 DEF MosaicInv, MosaicType, FeaturesUsable
    <2> QED BY <1>1, <2>1, <2>2, EarlyKeeps DEF Early
  <1>5. CASE render.features # {}
    <2>1. PICK list \in Seq(Touched) : list = TileList
      BY TilesListed
    <2>2. /\ render'.phase = "rendering" /\ render'.unchecked = render.unchecked
          /\ render' = [f \in RenderFields |-> render'[f]]
          /\ render'.features = render.features /\ render'.rest = list
          /\ render'.batch = <<>> /\ render'.untaken = <<>> /\ render'.result = <<>>
      BY <1>1, <1>2, <1>3, <1>5, <2>1 DEF RenderFields
    <2>3. Touched' = Touched /\ TileList' = TileList
      BY <2>2, SameTiles
    <2>4. archive' = <<>> /\ Len(archive') = 0 /\ Len(render'.batch) = 0
          /\ Len(list) \in Nat /\ DOMAIN render'.result = {}
      BY <1>1, <1>2, <2>2
    <2>5. InListOrder'
      <3>1. /\ <<>> \in Seq(Touched') /\ render'.rest \in Seq(Touched')
        BY <2>1, <2>2, <2>3
      <3>2. Len(archive') + Len(render'.batch) + Len(render'.rest) = Len(TileList')
        BY <2>1, <2>2, <2>3, <2>4
      <3>3. \A k \in 1..Len(render'.rest) :
              render'.rest[k] = (TileList')[Len(archive') + Len(render'.batch) + k]
        BY <2>1, <2>2, <2>3, <2>4
      <3> QED BY <2>2, <2>4, <3>1, <3>2, <3>3 DEF InListOrder, Early
    <2>6. ResultsSound' /\ ArchiveSound'
      BY <2>4 DEF ResultsSound, ArchiveSound
    <2>7. archive' \in Seq(Entry)
      BY <2>4
    <2> QED BY <1>1, <2>2, <2>5, <2>6, <2>7, RenderKeeps
  <1> QED BY <1>4, <1>5

LEMMA BatchHasLength ==
  ASSUME render.rest \in Seq(Touched), render.rest # <<>>
  PROVE  BatchLength \in 1..Len(render.rest)
  <1> DEFINE len == Len(render.rest)
             Zoom(k) == Pyramid[render.rest[k]].zoom
             T == {k \in 1..len : k <= BatchOf /\ \A n \in 1..k : Zoom(n) = Zoom(1)}
             Fits(k) == /\ k <= BatchOf /\ \A n \in 1..k : Zoom(n) = Zoom(1)
                        /\ k = BatchOf \/ k = len \/ Zoom(k + 1) # Zoom(1)
  <1>1. len \in Nat /\ len >= 1
    OBVIOUS
  <1> HIDE DEF len, Zoom
  <1>2. 1 \in T
    BY <1>1, TilesHaveRoom
  <1>3. PICK m \in T : \A q \in T : q <= m
    <2>1. T \in SUBSET (0..len) /\ T # {}
      BY <1>1, <1>2
    <2> QED BY <1>1, <2>1, GreatestOf
  <1>4. m \in 1..len /\ m <= BatchOf /\ \A n \in 1..m : Zoom(n) = Zoom(1)
    BY <1>3
  <1>5. ASSUME m # BatchOf, m # len, Zoom(m + 1) = Zoom(1) PROVE FALSE
    <2>1. m + 1 \in 1..len /\ m + 1 <= BatchOf
      BY <1>1, <1>4, <1>5, TilesHaveRoom
    <2>2. ASSUME NEW n \in 1..(m + 1) PROVE Zoom(n) = Zoom(1)
      <3>1. CASE n = m + 1
        BY <1>5, <3>1
      <3>2. CASE n # m + 1
        <4>1. n \in 1..m
          BY <1>4, <3>2
        <4> QED BY <1>4, <4>1
      <3> QED BY <3>1, <3>2
    <2>3. m + 1 \in T
      BY <2>1, <2>2
    <2> QED BY <1>3, <1>4, <2>3
  <1>6. Fits(m)
    BY <1>4, <1>5
  <1>7. \E k \in 1..len : Fits(k)
    BY <1>4, <1>6
  <1> QED BY <1>7 DEF BatchLength, len, Zoom

LEMMA CutInTwo ==
  ASSUME NEW S, NEW q \in Seq(S), NEW m \in 1..Len(q)
  PROVE  /\ SubSeq(q, 1, m) \in Seq(S) /\ Len(SubSeq(q, 1, m)) = m
         /\ \A k \in 1..m : SubSeq(q, 1, m)[k] = q[k]
         /\ SubSeq(q, m + 1, Len(q)) \in Seq(S)
         /\ Len(SubSeq(q, m + 1, Len(q))) = Len(q) - m
         /\ \A k \in 1..(Len(q) - m) : SubSeq(q, m + 1, Len(q))[k] = q[m + k]
  <1>1. PICK n \in Nat : n = Len(q)
    OBVIOUS
  <1>2. /\ SubSeq(q, 1, m) \in Seq(S) /\ Len(SubSeq(q, 1, m)) = m
        /\ \A k \in 1..m : SubSeq(q, 1, m)[k] = q[k]
    <2>1. SubSeq(q, 1, m) = [k \in 1..m |-> q[k]]
      BY <1>1
    <2>2. \A k \in 1..m : q[k] \in S
      BY <1>1
    <2> QED BY <1>1, <2>1, <2>2
  <1>3. PICK p \in Nat : p = n - m
    <2>1. m \in Nat /\ 1 <= m /\ m <= n
      BY <1>1
    <2>2. n - m \in Nat
      BY <2>1
    <2> QED BY <2>2
  <1>4. /\ SubSeq(q, m + 1, n) \in Seq(S) /\ Len(SubSeq(q, m + 1, n)) = p
        /\ \A k \in 1..p : SubSeq(q, m + 1, n)[k] = q[m + k]
    <2>1. SubSeq(q, m + 1, n) = [k \in 1..p |-> q[m + k]]
      BY <1>1, <1>3
    <2>2. \A k \in 1..p : q[m + k] \in S
      BY <1>1, <1>3
    <2> QED BY <1>1, <2>1, <2>2
  <1> QED BY <1>1, <1>2, <1>3, <1>4

LEMMA StartBatchKeeps ==
  ASSUME MosaicInv, StartBatch
  PROVE  MosaicInv'
  <1>1. /\ render.phase = "rendering" /\ render.batch = <<>> /\ render.rest # <<>>
        /\ UNCHANGED <<bands, counts, failures, thread, archive>>
    BY DEF StartBatch
  <1>2. /\ render.rest \in Seq(Touched) /\ render.batch \in Seq(Touched)
        /\ Len(archive) + Len(render.batch) + Len(render.rest) = Len(TileList)
        /\ \A k \in 1..Len(archive) : archive[k].tile = TileList[k]
        /\ \A k \in 1..Len(render.rest) :
             render.rest[k] = TileList[Len(archive) + Len(render.batch) + k]
    BY <1>1 DEF MosaicInv, InListOrder, Early
  <1>3. PICK m \in 1..Len(render.rest) : m = BatchLength
    BY <1>1, <1>2, BatchHasLength
  <1>4. PICK b \in Seq(Touched) : b = SubSeq(render.rest, 1, m)
    BY <1>2, CutInTwo
  <1>5. PICK rest \in Seq(Touched) : rest = SubSeq(render.rest, m + 1, Len(render.rest))
    BY <1>2, CutInTwo
  <1>6. /\ Len(b) = m /\ \A k \in 1..m : b[k] = render.rest[k]
        /\ Len(rest) = Len(render.rest) - m
        /\ \A k \in 1..Len(rest) : rest[k] = render.rest[m + k]
    BY <1>2, <1>4, <1>5, CutInTwo
  <1> DEFINE result == [n \in {b[k] : k \in 1..Len(b)} |-> <<>>]
  <1>7. render' = [render EXCEPT !.batch = b, !.untaken = b, !.rest = rest, !.result = result]
    BY <1>3, <1>4, <1>5 DEF StartBatch
  <1>8. (\A k \in 1..m : b[k] \in DOMAIN result) /\ \A n \in DOMAIN result : result[n] = <<>>
    BY <1>6
  <1> HIDE DEF result
  <1>9. render = [f \in RenderFields |-> render[f]]
    BY DEF MosaicInv, MosaicType
  <1>10. /\ render'.phase = "rendering" /\ render'.unchecked = render.unchecked
         /\ render' = [f \in RenderFields |-> render'[f]]
         /\ render'.features = render.features /\ render'.rest = rest
         /\ render'.batch = b /\ render'.untaken = b /\ render'.result = result
    BY <1>1, <1>7, <1>9 DEF RenderFields
  <1>11. Touched' = Touched /\ TileList' = TileList
    BY <1>10, SameTiles
  <1>12. PICK list : list = TileList
    OBVIOUS
  <1>13. PICK a \in Nat : a = Len(archive)
    BY DEF MosaicInv, MosaicType
  <1>14. PICK c \in Nat : c = Len(render.rest)
    BY <1>2
  <1>15. Len(list) \in Nat /\ a + c = Len(list) /\ m \in 1..c
         /\ \A k \in 1..c : render.rest[k] = list[a + k]
    <2>1. Len(render.batch) = 0
      BY <1>1
    <2>2. Len(list) \in Nat
      BY <1>12, TilesListed
    <2> QED BY <1>2, <1>3, <1>12, <1>13, <1>14, <2>1, <2>2
  <1>16. a + Len(b) + Len(rest) = Len(list)
    <2>1. PICK l \in Nat : l = Len(list)
      BY <1>15
    <2>2. Len(b) = m /\ Len(rest) = c - m /\ m \in Nat /\ a + c = l
      BY <1>6, <1>14, <1>15, <2>1
    <2>3. a + m + (c - m) = l
      BY <2>2
    <2> QED BY <2>1, <2>2, <2>3
  <1>17. \A k \in 1..Len(b) : b[k] = list[a + k]
    <2> SUFFICES ASSUME NEW k \in 1..Len(b) PROVE b[k] = list[a + k]
      OBVIOUS
    <2>1. k \in 1..m /\ k \in 1..c
      BY <1>6, <1>15
    <2> QED BY <1>6, <1>15, <2>1
  <1>18. ASSUME NEW k \in 1..Len(rest) PROVE rest[k] = list[a + Len(b) + k]
    <2>1. m + k \in 1..c /\ a + Len(b) + k = a + (m + k)
      BY <1>6, <1>14, <1>15
    <2> QED BY <1>6, <1>15, <2>1
  <1>19. InListOrder'
    <2>1. archive' = archive /\ Len(archive') = a
      BY <1>1, <1>13
    <2> QED BY <1>2, <1>6, <1>8, <1>10, <1>11, <1>12, <1>16, <1>17, <1>18, <2>1 DEF InListOrder, Early
  <1>20. ResultsSound'
    BY <1>8, <1>10 DEF ResultsSound
  <1>21. ArchiveSound' /\ archive' \in Seq(Entry)
    BY <1>1 DEF MosaicInv, MosaicType, ArchiveSound, Explained
  <1> QED BY <1>1, <1>10, <1>19, <1>20, <1>21, RenderKeeps

LEMMA WriteBatchKeeps ==
  ASSUME MosaicInv, WriteBatch
  PROVE  MosaicInv'
  <1>1. /\ render.batch # <<>> /\ \A n \in DOMAIN render.result : render.result[n] # <<>>
        /\ archive' = archive \o [k \in 1..Len(render.batch) |-> render.result[render.batch[k]][1]]
        /\ render' = [render EXCEPT !.batch = <<>>, !.result = <<>>]
        /\ UNCHANGED <<bands, counts, failures, thread>>
    BY DEF WriteBatch
  <1>2. render.phase = "rendering" /\ ~Early
    BY <1>1 DEF MosaicInv, MosaicType, InListOrder, Early
  <1>3. /\ render.rest \in Seq(Touched) /\ render.batch \in Seq(Touched)
        /\ render.untaken \in Seq(Touched)
        /\ Len(archive) + Len(render.batch) + Len(render.rest) = Len(TileList)
        /\ \A k \in 1..Len(archive) : archive[k].tile = TileList[k]
        /\ \A k \in 1..Len(render.batch) : render.batch[k] = TileList[Len(archive) + k]
        /\ \A k \in 1..Len(render.rest) :
             render.rest[k] = TileList[Len(archive) + Len(render.batch) + k]
        /\ \A k \in 1..Len(render.batch) : render.batch[k] \in DOMAIN render.result
    BY <1>2 DEF MosaicInv, InListOrder
  <1>4. render = [f \in RenderFields |-> render[f]]
    BY DEF MosaicInv, MosaicType
  <1>5. /\ render'.phase = "rendering" /\ render'.unchecked = render.unchecked
        /\ render' = [f \in RenderFields |-> render'[f]]
        /\ render'.features = render.features /\ render'.rest = render.rest
        /\ render'.batch = <<>> /\ render'.untaken = render.untaken /\ render'.result = <<>>
    BY <1>1, <1>2, <1>4 DEF RenderFields
  <1>6. Touched' = Touched /\ TileList' = TileList
    BY <1>5, SameTiles
  <1>7. PICK list : list = TileList
    OBVIOUS
  <1>8. PICK a \in Nat : a = Len(archive)
    BY DEF MosaicInv, MosaicType
  <1>9. PICK c \in Nat : c = Len(render.batch)
    BY <1>3
  <1>10. PICK d \in Nat : d = Len(render.rest)
    BY <1>3
  <1>11. a + c + d = Len(list)
    BY <1>3, <1>7, <1>8, <1>9, <1>10
  <1> DEFINE new == [k \in 1..c |-> render.result[render.batch[k]][1]]
  <1>12. ASSUME NEW k \in 1..c
         PROVE  new[k] \in Entry /\ new[k].tile = list[a + k] /\ Explained(new[k])
    <2>1. PICK n : n = render.batch[k] /\ n \in DOMAIN render.result /\ n = list[a + k]
      BY <1>3, <1>7, <1>8, <1>9
    <2>2. PICK e \in Entry : render.result[n] = <<e>> /\ e.tile = n /\ Explained(e)
      BY <1>1, <2>1 DEF MosaicInv, ResultsSound
    <2>3. new[k] = render.result[render.batch[k]][1]
      OBVIOUS
    <2>4. <<e>>[1] = e
      OBVIOUS
    <2>5. new[k] = e
      BY <2>1, <2>2, <2>3, <2>4
    <2> HIDE DEF new
    <2> QED BY <2>1, <2>2, <2>5
  <1>13. new \in Seq(Entry) /\ Len(new) = c
    BY <1>12
  <1>14. archive' = archive \o new
    BY <1>1, <1>9
  <1> HIDE DEF new
  <1>15. archive \in Seq(Entry)
    BY DEF MosaicInv, MosaicType
  <1>16. archive' \in Seq(Entry) /\ Len(archive') = a + c
    BY <1>8, <1>13, <1>14, <1>15
  <1>17. ASSUME NEW k \in 1..(a + c)
         PROVE  archive'[k].tile = list[k] /\ Explained(archive'[k])
    <2>1. CASE k <= a
      <3>1. k \in 1..a /\ archive'[k] = archive[k]
        BY <1>8, <1>13, <1>14, <1>15, <2>1
      <3> QED BY <1>3, <1>7, <1>8, <3>1 DEF MosaicInv, ArchiveSound
    <2>2. CASE ~(k <= a)
      <3>1. PICK j \in 1..c : j = k - a
        BY <2>2
      <3>2. archive'[k] = new[j] /\ k = a + j
        BY <1>8, <1>13, <1>14, <1>15, <3>1
      <3> QED BY <1>12, <3>2
    <2> QED BY <2>1, <2>2
  <1>18. InListOrder'
    <2>1. PICK l \in Nat : l = Len(list)
      BY <1>7, TilesListed
    <2>2. Len(archive') + Len(render'.batch) + Len(render'.rest) = Len(TileList')
      <3>1. Len(render'.batch) = 0 /\ Len(render'.rest) = d
        BY <1>5, <1>10
      <3>2. a + c + 0 + d = l
        BY <1>11, <2>1
      <3> QED BY <1>6, <1>7, <1>16, <2>1, <3>1, <3>2
    <2>3. \A k \in 1..Len(archive') : archive'[k].tile = (TileList')[k]
      BY <1>6, <1>7, <1>16, <1>17
    <2>4. \A k \in 1..Len(render'.rest) :
            render'.rest[k] = (TileList')[Len(archive') + Len(render'.batch) + k]
      <3>1. Len(render'.batch) = 0
        BY <1>5
      <3> SUFFICES ASSUME NEW k \in 1..d PROVE render.rest[k] = list[(a + c) + 0 + k]
        BY <1>5, <1>6, <1>7, <1>10, <1>16, <3>1
      <3>2. (a + c) + 0 + k = a + c + k
        OBVIOUS
      <3> QED BY <1>3, <1>7, <1>8, <1>9, <1>10, <3>2
    <2>5. /\ render'.rest \in Seq(Touched') /\ render'.untaken \in Seq(Touched')
          /\ render'.batch \in Seq(Touched') /\ Len(render'.batch) = 0
      BY <1>3, <1>5, <1>6
    <2> QED BY <1>5, <2>2, <2>3, <2>4, <2>5 DEF InListOrder, Early
  <1>19. ResultsSound'
    BY <1>5 DEF ResultsSound
  <1>20. ArchiveSound'
    <2>1. bands' = bands /\ failures' = failures
      BY <1>1
    <2> QED BY <1>16, <1>17, <2>1 DEF ArchiveSound, Explained
  <1> QED BY <1>1, <1>5, <1>16, <1>18, <1>19, <1>20, RenderKeeps

LEMMA FinalizeKeeps ==
  ASSUME MosaicInv, Finalize
  PROVE  MosaicInv'
  <1>1. /\ render.phase = "rendering" /\ render.batch = <<>> /\ render.rest = <<>>
        /\ UNCHANGED <<bands, counts, failures, thread, archive>>
        /\ render' = [render EXCEPT !.phase = "finalized"]
    BY DEF Finalize
  <1>2. /\ render'.phase = "finalized" /\ render'.unchecked = render.unchecked
        /\ render' = [f \in RenderFields |-> render'[f]]
        /\ render'.features = render.features /\ render'.rest = render.rest
        /\ render'.batch = render.batch /\ render'.untaken = render.untaken
        /\ render'.result = render.result
    BY <1>1 DEF MosaicInv, MosaicType, RenderFields
  <1>3. Touched' = Touched /\ TileList' = TileList
    BY <1>2, SameTiles
  <1>4. InListOrder'
    <2>1. InListOrder /\ ~Early /\ ~Early' /\ archive' = archive
      BY <1>1, <1>2 DEF MosaicInv, Early
    <2>2. /\ render.rest = <<>> /\ render.batch = <<>> /\ Len(archive) = Len(TileList)
          /\ render.untaken \in Seq(Touched)
          /\ \A k \in 1..Len(archive) : archive[k].tile = TileList[k]
      <3>1. Len(archive) + Len(render.batch) + Len(render.rest) = Len(TileList)
        BY <2>1 DEF InListOrder
      <3>2. Len(render.batch) = 0 /\ Len(render.rest) = 0 /\ Len(archive) \in Nat
        BY <1>1 DEF MosaicInv, MosaicType
      <3>3. Len(archive) = Len(TileList)
        BY <3>1, <3>2
      <3> QED BY <1>1, <2>1, <3>3 DEF InListOrder
    <2>3. /\ render'.rest = <<>> /\ render'.batch = <<>> /\ archive' = archive
          /\ render'.untaken = render.untaken
      BY <1>2, <2>1, <2>2
    <2> QED BY <1>3, <2>1, <2>2, <2>3 DEF InListOrder
  <1>5. \A e : Explained(e) => Explained(e)'
    BY <1>1 DEF Explained
  <1>6. ResultsSound'
    <2>1. ResultsSound
      BY DEF MosaicInv
    <2> QED BY <1>2, <1>5, <2>1 DEF ResultsSound
  <1>7. ResultsSound' /\ ArchiveSound' /\ archive' \in Seq(Entry)
    BY <1>1, <1>6 DEF MosaicInv, MosaicType, ArchiveSound, Explained
  <1> QED BY <1>1, <1>2, <1>4, <1>7, RenderKeeps

LEMMA MosaicSteps == MosaicInv /\ [MosaicNext]_mosaicVars => MosaicInv'
  <1> SUFFICES ASSUME MosaicInv, [MosaicNext]_mosaicVars PROVE MosaicInv'
    OBVIOUS
  <1>1. CASE \E t \in Threads :
               TakeTile(t) \/ FilterCog(t) \/ BeginMosaic(t) \/ ReadCog(t) \/ EndRound(t)
    BY <1>1, TakeTileKeeps, FilterCogKeeps, BeginMosaicKeeps, ReadCogKeeps, EndRoundKeeps
  <1>2. CASE LoadFeatures \/ PreValidate \/ ListTiles
    BY <1>2, LoadFeaturesKeeps, PreValidateKeeps, ListTilesKeeps
  <1>3. CASE StartBatch \/ WriteBatch \/ Finalize
    BY <1>3, StartBatchKeeps, WriteBatchKeeps, FinalizeKeeps
  <1>4. CASE UNCHANGED mosaicVars
    <2>1. /\ UNCHANGED <<bands, counts, failures, render, thread, archive>>
      BY <1>4 DEF mosaicVars
    <2>2. Touched' = Touched /\ TileList' = TileList
      BY <2>1, SameTiles
    <2>3. InListOrder'
      BY <2>1, <2>2 DEF MosaicInv, InListOrder, Early
    <2>4. \A e : Explained(e) => Explained(e)'
      BY <2>1 DEF Explained
    <2>5. ResultsSound'
      <3>1. ResultsSound
        BY DEF MosaicInv
      <3> QED BY <2>1, <2>4, <3>1 DEF ResultsSound
    <2>6. /\ ResultsSound' /\ ArchiveSound' /\ MosaicType' /\ FeaturesUsable'
      BY <2>1, <2>5 DEF MosaicInv, MosaicType, ArchiveSound, Explained, FeaturesUsable
    <2>7. ThreadsSound'
      <3> SUFFICES ASSUME NEW t \in Threads PROVE WorkSound(thread[t])'
        BY DEF ThreadsSound
      <3>1. PICK v \in Work : v = thread[t] /\ WorkSound(v)
        BY DEF MosaicInv, MosaicType, ThreadsSound
      <3>2. Steady /\ (v.pc # "idle" => render'.phase \in {"rendering", "finalized"})
        BY <2>1, <3>1 DEF Steady, WorkSound
      <3>3. WorkSound(v)' /\ thread'[t] = v
        BY <2>1, <3>1, <3>2, WorkStays
      <3> QED BY <3>3 DEF WorkSound, Filtering, Reading
    <2> QED BY <2>3, <2>6, <2>7 DEF MosaicInv
  <1> QED BY <1>1, <1>2, <1>3, <1>4 DEF MosaicNext

(* A finished archive has every tile over a usable image once, in the order of
   the list, and a tile is a mask only if an image under it could not be read,
   however the pool's threads interleave and whatever fails. *)
THEOREM MosaicWhole == MosaicSpec => []MosaicIsWhole
  BY MosaicStarts, MosaicSteps, MosaicHolds, PTL DEF MosaicSpec
=============================================================================
