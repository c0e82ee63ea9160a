---------------------------- MODULE RoundsProofs ----------------------------
(***************************************************************************)
(* What holds of the game engine's rounds for every set of rounds and      *)
(* claims, every stake, outcome, balance and reward: what is won was paid  *)
(* for, free spins never go below zero, the history is settled, and        *)
(* rewards are a cooldown apart; and what holds of the games its rounds    *)
(* play, for every stake, params, resolution and stream of values: wins    *)
(* are those of the grid, cells follow their weights, and the page, by its *)
(* own copy of the tables, tells the player what the round was.            *)
(*                                                                         *)
(* The first part is about sums: what SumFunctionOnSet is over a finite    *)
(* set does not depend on the order of its elements.  Its induction is     *)
(* over the set of the subsets that satisfy a formula, proved from the     *)
(* least size of a subset that does not.  From the weights of the classic  *)
(* slot on it is about the games, whose payouts are such sums.             *)
(***************************************************************************)
EXTENDS Rounds, Slots, FiniteSetTheorems, WellFoundedInduction, TLAPS

\* A set of natural numbers has a least element.
LEMMA LeastNumber ==
    ASSUME NEW T \in SUBSET Nat, T # {}
    PROVE  \E n \in T : \A m \in T : n <= m
<1>1. PICK n \in T : \A m \in T : ~ (<<m, n>> \in OpToRel(<, Nat))
  BY NatLessThanWellFounded, WFMin
<1>2. n \in Nat /\ \A m \in T : m \in Nat /\ ~ (m < n)
  BY <1>1 DEF OpToRel
<1>3. \A m \in T : n <= m
  BY <1>2
<1>4. QED
  BY <1>1, <1>3

\* If a subset is good whenever those with one element less are, all of them are.
LEMMA SubsetInduction ==
    ASSUME NEW S, IsFiniteSet(S), NEW Good,
           \A s \in SUBSET S : (\A x \in s : s \ {x} \in Good) => s \in Good
    PROVE  \A s \in SUBSET S : s \in Good
<1> DEFINE Sizes == {Cardinality(s) : s \in {s \in SUBSET S : s \notin Good}}
<1>1. \A s \in SUBSET S : IsFiniteSet(s) /\ Cardinality(s) \in Nat
  BY FS_Subset, FS_CardinalityType
<1>2. SUFFICES ASSUME Sizes # {}
               PROVE  FALSE
  OBVIOUS
<1>3. Sizes \in SUBSET Nat
  BY <1>1
<1>4. PICK n \in Sizes : \A m \in Sizes : n <= m
  BY <1>2, <1>3, LeastNumber
<1>5. PICK s \in SUBSET S : s \notin Good /\ Cardinality(s) = n
  BY <1>4
<1>6. ASSUME NEW x \in s
      PROVE  s \ {x} \in Good
  <2>1. Cardinality(s \ {x}) = Cardinality(s) - 1
    BY <1>1, <1>6, FS_RemoveElement
  <2>2. s \ {x} \notin Good => Cardinality(s \ {x}) \in Sizes
    BY <1>5
  <2>3. ~ (n <= n - 1)
    BY <1>3, <1>4
  <2>4. QED
    BY <1>4, <1>5, <2>1, <2>2, <2>3
<1>7. QED
  BY <1>5, <1>6

---------------------------------------------------------------------------
(* The recursion of the definition.                                        *)

Pick(s) == CHOOSE x \in s : TRUE
Rest(s) == s \ {Pick(s)}

\* g is what the fold over the subsets of S computes.
Iterates(g, f, S) ==
    g = [s \in SUBSET S |-> IF s = {} THEN 0 ELSE f[Pick(s)] + g[Rest(s)]]

Iterated(f, S) == CHOOSE g : Iterates(g, f, S)

\* The library defines a sum as a fold: it is the value that iterating reaches.
LEMMA SumIsIterated ==
    ASSUME NEW f, NEW S
    PROVE  SumFunctionOnSet(f, S) = Iterated(f, S)[S]
BY DEF SumFunctionOnSet, FoldFunctionOnSet, MapThenFoldSet, Iterated, Iterates, Pick, Rest

\* Two folds agree where both are defined.
LEMMA IteratesAgree ==
    ASSUME NEW f, NEW S, NEW U, IsFiniteSet(S), U \subseteq S,
           NEW g, Iterates(g, f, S), NEW h, Iterates(h, f, U)
    PROVE  g[U] = h[U]
<1> DEFINE Good == {s \in SUBSET U : g[s] = h[s]}
<1>1. IsFiniteSet(U)
  BY FS_Subset
<1>2. ASSUME NEW s \in SUBSET U, \A x \in s : s \ {x} \in Good
      PROVE  s \in Good
  <2>1. /\ g[s] = IF s = {} THEN 0 ELSE f[Pick(s)] + g[Rest(s)]
        /\ h[s] = IF s = {} THEN 0 ELSE f[Pick(s)] + h[Rest(s)]
    BY DEF Iterates
  <2>2. CASE s = {}
    BY <2>1, <2>2
  <2>3. CASE s # {}
    <3>1. Pick(s) \in s
      BY <2>3 DEF Pick
    <3>2. Rest(s) \in Good
      BY <1>2, <3>1 DEF Rest
    <3>3. QED
      BY <2>1, <2>3, <3>2
  <2>4. QED
    BY <2>2, <2>3
<1>3. \A s \in SUBSET U : s \in Good
  BY <1>1, <1>2, SubsetInduction
<1>4. QED
  BY <1>3

\* The fold is defined for every finite set.
LEMMA IteratedExists ==
    ASSUME NEW f, NEW S, IsFiniteSet(S)
    PROVE  Iterates(Iterated(f, S), f, S)
<1> DEFINE Good == {s \in SUBSET S : \A u \in SUBSET s : Iterates(Iterated(f, u), f, u)}
<1>1. ASSUME NEW s \in SUBSET S, \A x \in s : s \ {x} \in Good
      PROVE  s \in Good
  <2>1. ASSUME NEW u \in SUBSET s, u # s
        PROVE  Iterates(Iterated(f, u), f, u)
    <3>1. PICK x \in s : x \notin u
      BY <2>1
    <3>2. u \in SUBSET (s \ {x})
      BY <2>1, <3>1
    <3>3. QED
      BY <1>1, <3>1, <3>2
  <2> DEFINE h == [u \in SUBSET s |->
                     IF u = {} THEN 0 ELSE f[Pick(u)] + Iterated(f, Rest(u))[Rest(u)]]
  <2>2. ASSUME NEW u \in SUBSET s, u # s
        PROVE  h[u] = Iterated(f, u)[u]
    <3>1. Iterates(Iterated(f, u), f, u)
      BY <2>1, <2>2
    <3>2. Iterated(f, u)[u] =
             IF u = {} THEN 0 ELSE f[Pick(u)] + Iterated(f, u)[Rest(u)]
      BY <3>1 DEF Iterates
    <3>3. CASE u = {}
      BY <3>2, <3>3
    <3>4. CASE u # {}
      <4>1. Pick(u) \in u /\ Rest(u) \subseteq u /\ Rest(u) # s
        BY <2>2, <3>4 DEF Pick, Rest
      <4>2. Iterates(Iterated(f, Rest(u)), f, Rest(u))
        BY <2>1, <4>1
      <4>3. IsFiniteSet(u)
        BY FS_Subset
      <4>4. Iterated(f, u)[Rest(u)] = Iterated(f, Rest(u))[Rest(u)]
        BY <3>1, <4>1, <4>2, <4>3, IteratesAgree
      <4>5. QED
        BY <3>2, <3>4, <4>4
    <3>5. QED
      BY <3>3, <3>4
  <2>3. ASSUME NEW u \in SUBSET s, u # {}
        PROVE  Iterated(f, Rest(u))[Rest(u)] = h[Rest(u)]
    <3>1. Pick(u) \in u
      BY <2>3 DEF Pick
    <3>2. Rest(u) \in SUBSET s /\ Rest(u) # s
      BY <3>1 DEF Rest
    <3>3. QED
      BY <2>2, <3>2
  <2>4. Iterates(h, f, s)
    <3>1. h = [u \in SUBSET s |-> IF u = {} THEN 0 ELSE f[Pick(u)] + h[Rest(u)]]
      BY <2>3
    <3>2. QED
      BY <3>1 DEF Iterates
  <2>5. Iterates(Iterated(f, s), f, s)
    <3> HIDE DEF h
    <3>1. QED
      BY <2>4 DEF Iterated
  <2>6. QED
    BY <2>1, <2>5
<1>2. \A s \in SUBSET S : s \in Good
  BY <1>1, SubsetInduction
<1>3. QED
  BY <1>2

---------------------------------------------------------------------------
(* Sums over finite sets.                                                  *)

\* The sum of a set takes one element of it and adds the sum of the others.
LEMMA SumDef ==
    ASSUME NEW f, NEW S, IsFiniteSet(S)
    PROVE  SumFunctionOnSet(f, S) =
             IF S = {} THEN 0 ELSE f[Pick(S)] + SumFunctionOnSet(f, Rest(S))
<1> DEFINE g == Iterated(f, S)
<1>1. Iterates(g, f, S)
  BY IteratedExists
<1>2. g[S] = IF S = {} THEN 0 ELSE f[Pick(S)] + g[Rest(S)]
  BY <1>1 DEF Iterates
<1>3. CASE S = {}
  BY <1>2, <1>3, SumIsIterated
<1>4. CASE S # {}
  <2>1. Rest(S) \subseteq S /\ IsFiniteSet(Rest(S))
    BY FS_Subset DEF Rest
  <2>2. Iterates(Iterated(f, Rest(S)), f, Rest(S))
    BY <2>1, IteratedExists
  <2>3. g[Rest(S)] = Iterated(f, Rest(S))[Rest(S)]
    BY <1>1, <2>1, <2>2, IteratesAgree
  <2>4. SumFunctionOnSet(f, Rest(S)) = Iterated(f, Rest(S))[Rest(S)]
    BY SumIsIterated
  <2>5. SumFunctionOnSet(f, S) = g[S]
    BY SumIsIterated
  <2>6. QED
    BY <1>2, <1>4, <2>3, <2>4, <2>5
<1>5. QED
  BY <1>3, <1>4

\* A sum of integers is an integer, and one of natural numbers is natural.
LEMMA SumType ==
    ASSUME NEW f, NEW S, IsFiniteSet(S), \A x \in S : f[x] \in Int
    PROVE  SumFunctionOnSet(f, S) \in Int
<1> DEFINE Good == {s \in SUBSET S : SumFunctionOnSet(f, s) \in Int}
<1>1. ASSUME NEW s \in SUBSET S, \A x \in s : s \ {x} \in Good
      PROVE  s \in Good
  <2>1. SumFunctionOnSet(f, s) =
          IF s = {} THEN 0 ELSE f[Pick(s)] + SumFunctionOnSet(f, Rest(s))
    BY FS_Subset, SumDef
  <2>2. s # {} => Pick(s) \in s
    BY DEF Pick
  <2>3. s # {} => SumFunctionOnSet(f, Rest(s)) \in Int
    BY <1>1, <2>2 DEF Rest
  <2>4. SumFunctionOnSet(f, s) \in Int
    BY <2>1, <2>2, <2>3
  <2>5. QED
    BY <2>4
<1>2. \A s \in SUBSET S : s \in Good
  BY <1>1, SubsetInduction
<1>3. QED
  BY <1>2

\* Summing natural numbers gives one.
LEMMA SumNat ==
    ASSUME NEW f, NEW S, IsFiniteSet(S), \A x \in S : f[x] \in Nat
    PROVE  SumFunctionOnSet(f, S) \in Nat
<1> DEFINE Good == {s \in SUBSET S : SumFunctionOnSet(f, s) \in Nat}
<1>1. ASSUME NEW s \in SUBSET S, \A x \in s : s \ {x} \in Good
      PROVE  s \in Good
  <2>1. SumFunctionOnSet(f, s) =
          IF s = {} THEN 0 ELSE f[Pick(s)] + SumFunctionOnSet(f, Rest(s))
    BY FS_Subset, SumDef
  <2>2. s # {} => Pick(s) \in s
    BY DEF Pick
  <2>3. s # {} => SumFunctionOnSet(f, Rest(s)) \in Nat
    BY <1>1, <2>2 DEF Rest
  <2>4. SumFunctionOnSet(f, s) \in Nat
    BY <2>1, <2>2, <2>3
  <2>5. QED
    BY <2>4
<1>2. \A s \in SUBSET S : s \in Good
  BY <1>1, SubsetInduction
<1>3. QED
  BY <1>2

\* Whichever element is taken out, the sum is short of its value.
LEMMA SumRemove ==
    ASSUME NEW f, NEW S, IsFiniteSet(S), \A x \in S : f[x] \in Int, NEW e \in S
    PROVE  SumFunctionOnSet(f, S) = f[e] + SumFunctionOnSet(f, S \ {e})
<1> DEFINE sum(s) == SumFunctionOnSet(f, s)
           Good == {s \in SUBSET S : \A x \in s : sum(s) = f[x] + sum(s \ {x})}
<1>1. \A s \in SUBSET S : IsFiniteSet(s) /\ sum(s) \in Int
  BY FS_Subset, SumType
<1>2. ASSUME NEW s \in SUBSET S, \A x \in s : s \ {x} \in Good
      PROVE  s \in Good
  <2>1. ASSUME NEW x \in s
        PROVE  sum(s) = f[x] + sum(s \ {x})
    <3> DEFINE p == Pick(s)
    <3>1. p \in s /\ Rest(s) = s \ {p}
      BY <2>1 DEF Pick, Rest
    <3>2. sum(s) = f[p] + sum(s \ {p})
      BY <1>1, <2>1, <3>1, SumDef
    <3>3. CASE x = p
      BY <3>2, <3>3
    <3>4. CASE x # p
      <4> DEFINE both == s \ {p, x}
      <4>1. sum(s \ {p}) = f[x] + sum((s \ {p}) \ {x})
        BY <1>2, <2>1, <3>1, <3>4
      <4>2. sum(s \ {x}) = f[p] + sum((s \ {x}) \ {p})
        BY <1>2, <2>1, <3>1, <3>4
      <4>3. (s \ {p}) \ {x} = both /\ (s \ {x}) \ {p} = both
        OBVIOUS
      <4>4. sum(s \ {p}) = f[x] + sum(both) /\ sum(s \ {x}) = f[p] + sum(both)
        BY <4>1, <4>2, <4>3
      <4>5. /\ f[p] \in Int /\ f[x] \in Int
            /\ sum(both) \in Int /\ sum(s \ {x}) \in Int /\ sum(s \ {p}) \in Int
        <5>1. both \in SUBSET S /\ (s \ {x}) \in SUBSET S /\ (s \ {p}) \in SUBSET S
          OBVIOUS
        <5> HIDE DEF p, both, sum
        <5>2. QED
          BY <1>1, <2>1, <3>1, <5>1
      <4> HIDE DEF p, both, sum
      <4>6. QED
        BY <3>2, <4>4, <4>5
    <3>5. QED
      BY <3>3, <3>4
  <2>2. QED
    BY <2>1
<1>3. \A s \in SUBSET S : s \in Good
  BY <1>2, SubsetInduction
<1>4. S \in Good
  BY <1>3
<1>5. QED
  BY <1>4

\* One more element adds its own value.
LEMMA SumAdd ==
    ASSUME NEW f, NEW S, IsFiniteSet(S), NEW e, e \notin S,
           \A x \in S \cup {e} : f[x] \in Int
    PROVE  SumFunctionOnSet(f, S \cup {e}) = SumFunctionOnSet(f, S) + f[e]
<1> DEFINE T == S \cup {e}
<1>1. IsFiniteSet(T) /\ e \in T /\ T \ {e} = S
  BY FS_AddElement
<1>2. SumFunctionOnSet(f, T) = f[e] + SumFunctionOnSet(f, T \ {e})
  BY <1>1, SumRemove
<1>3. SumFunctionOnSet(f, T) = f[e] + SumFunctionOnSet(f, S)
  BY <1>1, <1>2
<1>4. f[e] \in Int /\ SumFunctionOnSet(f, S) \in Int
  BY SumType
<1>5. QED
  BY <1>3, <1>4

\* Functions with the same values on a set have the same sum over it.
LEMMA SumCongruence ==
    ASSUME NEW f, NEW g, NEW S, IsFiniteSet(S), \A x \in S : f[x] = g[x]
    PROVE  SumFunctionOnSet(f, S) = SumFunctionOnSet(g, S)
<1> DEFINE Good == {s \in SUBSET S : SumFunctionOnSet(f, s) = SumFunctionOnSet(g, s)}
<1>1. ASSUME NEW s \in SUBSET S, \A x \in s : s \ {x} \in Good
      PROVE  s \in Good
  <2>1. /\ SumFunctionOnSet(f, s) =
             IF s = {} THEN 0 ELSE f[Pick(s)] + SumFunctionOnSet(f, Rest(s))
        /\ SumFunctionOnSet(g, s) =
             IF s = {} THEN 0 ELSE g[Pick(s)] + SumFunctionOnSet(g, Rest(s))
    BY FS_Subset, SumDef
  <2>2. s # {} => Pick(s) \in s
    BY DEF Pick
  <2>3. s # {} => SumFunctionOnSet(f, Rest(s)) = SumFunctionOnSet(g, Rest(s))
    BY <1>1, <2>2 DEF Rest
  <2>4. s # {} => f[Pick(s)] = g[Pick(s)]
    BY <2>2
  <2>5. QED
    BY <2>1, <2>3, <2>4
<1>2. \A s \in SUBSET S : s \in Good
  BY <1>1, SubsetInduction
<1>3. QED
  BY <1>2

---------------------------------------------------------------------------
(* The invariant.                                                          *)

\* Only finitely many rounds and claims have touched the count so far.
CountsAreFinite == IsFiniteSet(spent) /\ IsFiniteSet(granted) /\ IsFiniteSet(Rewarded)

\* What the next call of a round says of the calls it has made.
CallsAreMade ==
    \A r \in Round :
        /\ pc[r] \in {"validate", "pay", "bet"} => r \notin Paid
        /\ pc[r] \in {"draw", "win", "grant", "save", "publish"} => r \in Paid
        /\ pc[r] \in {"validate", "pay", "bet", "draw"} => r \notin wins
        /\ pc[r] \in {"validate", "pay", "bet", "draw", "win", "grant"} => r \notin granted
        /\ pc[r] \in {"validate", "pay", "bet", "draw", "win", "grant", "save"} => r \notin saved
        /\ pc[r] \in {"grant", "save"} /\ outcome[r].payout > 0 => r \in wins
        /\ pc[r] = "save" /\ outcome[r].spins > 0 => r \in granted
        /\ pc[r] = "publish" => r \in saved

PrizesInv ==
    /\ wins \cup granted \cup saved \subseteq Paid
    /\ bets \cap spent = {}

RoundsInv == CallsAreMade /\ PrizesInv /\ HistoryIsSettled

\* A claim has its reward from the one update it makes, at a time gone by.
ClaimsInv ==
    /\ \A c \in Claim : claim[c] \in {"idle", "update"} => at[c] = Never
    /\ \A c \in Claim : at[c] <= now
    /\ RewardsKeepTheCooldown

IInv ==
    /\ TypeOK
    /\ CountsAreFinite
    /\ RoundsInv
    /\ ClaimsInv
    /\ FreeSpins >= 0

---------------------------------------------------------------------------
(* The count of free spins.                                                *)

SpinsWon(o, G) == SumFunction([r \in G |-> o[r].spins])

\* The counter of free spins, as what was granted, won and rewarded less what
\* was spent.
LEMMA CountOfSpins ==
    FreeSpins = Spins - Cardinality(spent) + SpinsWon(outcome, granted)
                      + Reward * Cardinality(Rewarded)
BY DEF FreeSpins, Total, SpinsWon

\* The free spins won are counted by a natural number.
LEMMA SpinsWonNat ==
    ASSUME NEW o, NEW G, IsFiniteSet(G), \A r \in G : o[r].spins \in Nat
    PROVE  SpinsWon(o, G) \in Nat
<1> DEFINE f == [r \in G |-> o[r].spins]
<1>1. \A r \in G : f[r] \in Nat
  OBVIOUS
<1>2. DOMAIN f = G
  OBVIOUS
<1>3. SpinsWon(o, G) = SumFunctionOnSet(f, G)
  BY <1>2 DEF SpinsWon, SumFunction
<1> HIDE DEF f
<1>4. QED
  BY <1>1, <1>3, SumNat

\* They depend on the outcomes of the rounds granted alone.
LEMMA SpinsWonSame ==
    ASSUME NEW o, NEW p, NEW G, IsFiniteSet(G), \A r \in G : o[r].spins = p[r].spins
    PROVE  SpinsWon(o, G) = SpinsWon(p, G)
<1>1. [r \in G |-> o[r].spins] = [r \in G |-> p[r].spins]
  OBVIOUS
<1>2. QED
  BY <1>1 DEF SpinsWon

\* Granting one more round adds the spins of its outcome.
LEMMA SpinsWonAdd ==
    ASSUME NEW o, NEW G, IsFiniteSet(G), NEW e, e \notin G,
           \A r \in G \cup {e} : o[r].spins \in Nat
    PROVE  SpinsWon(o, G \cup {e}) = SpinsWon(o, G) + o[e].spins
<1> DEFINE T == G \cup {e}
           f == [r \in G |-> o[r].spins]
           g == [r \in T |-> o[r].spins]
<1>1. DOMAIN f = G /\ DOMAIN g = T
  OBVIOUS
<1>2. SpinsWon(o, G) = SumFunctionOnSet(f, G) /\ SpinsWon(o, T) = SumFunctionOnSet(g, T)
  BY <1>1 DEF SpinsWon, SumFunction
<1>3. \A r \in G : f[r] = g[r]
  OBVIOUS
<1>4. g[e] = o[e].spins /\ \A r \in G \cup {e} : g[r] \in Int
  OBVIOUS
<1> HIDE DEF f, g
<1>5. SumFunctionOnSet(f, G) = SumFunctionOnSet(g, G)
  BY <1>3, SumCongruence
<1>6. SumFunctionOnSet(g, G \cup {e}) = SumFunctionOnSet(g, G) + g[e]
  BY <1>4, SumAdd
<1>7. QED
  BY <1>2, <1>4, <1>5, <1>6

\* What the counter of free spins is made of are numbers.
LEMMA CountTypes ==
    ASSUME TypeOK, CountsAreFinite
    PROVE  /\ \A r \in Round : outcome[r].payout \in Nat /\ outcome[r].spins \in Nat
           /\ Cardinality(spent) \in Nat
           /\ SpinsWon(outcome, granted) \in Nat
           /\ Cardinality(Rewarded) \in Nat
           /\ FreeSpins \in Int
<1>1. \A o \in Outcomes \cup {NoPrize} : o.payout \in Nat /\ o.spins \in Nat
  BY OutcomesAreNatural DEF NoPrize
<1>2. \A r \in Round : outcome[r] \in Outcomes \cup {NoPrize}
  BY DEF TypeOK
<1>3. \A r \in Round : outcome[r].payout \in Nat /\ outcome[r].spins \in Nat
  BY <1>1, <1>2
<1>4. granted \subseteq Round
  BY DEF TypeOK
<1>5. SpinsWon(outcome, granted) \in Nat
  BY <1>3, <1>4, SpinsWonNat DEF CountsAreFinite
<1>6. Cardinality(spent) \in Nat /\ Cardinality(Rewarded) \in Nat
  BY FS_CardinalityType DEF CountsAreFinite
<1>7. Reward * Cardinality(Rewarded) \in Nat
  BY <1>6, RewardsAreNatural
<1>8. FreeSpins \in Int
  BY <1>5, <1>6, <1>7, AccountsAreNatural, CountOfSpins
<1>9. QED
  BY <1>3, <1>5, <1>6, <1>8

\* A step that takes no spin, grants none and rewards nobody leaves the count.
LEMMA CountKept ==
    ASSUME TypeOK, CountsAreFinite, spent' = spent, granted' = granted, at' = at,
           \A r \in granted : outcome'[r].spins = outcome[r].spins
    PROVE  FreeSpins' = FreeSpins /\ CountsAreFinite'
<1>1. Rewarded' = Rewarded
  BY DEF Rewarded
<1>2. SpinsWon(outcome', granted') = SpinsWon(outcome, granted)
  BY SpinsWonSame DEF CountsAreFinite
<1>3. FreeSpins' = Spins - Cardinality(spent') + SpinsWon(outcome', granted')
                         + Reward * Cardinality(Rewarded')
  BY CountOfSpins DEF FreeSpins, Total, SpinsWon
<1>4. QED
  BY <1>1, <1>2, <1>3, CountOfSpins DEF CountsAreFinite

\* A free spin is taken off once.
LEMMA CountTaken ==
    ASSUME TypeOK, CountsAreFinite, NEW r, r \notin spent, spent' = spent \cup {r},
           UNCHANGED <<outcome, granted, at>>
    PROVE  FreeSpins' = FreeSpins - 1 /\ CountsAreFinite'
<1>1. Rewarded' = Rewarded
  BY DEF Rewarded
<1>2. IsFiniteSet(spent') /\ Cardinality(spent') = Cardinality(spent) + 1
  BY FS_AddElement DEF CountsAreFinite
<1>3. FreeSpins' = Spins - Cardinality(spent') + SpinsWon(outcome', granted')
                         + Reward * Cardinality(Rewarded')
  BY DEF FreeSpins, Total, SpinsWon
<1>4. FreeSpins' = Spins - (Cardinality(spent) + 1) + SpinsWon(outcome, granted)
                         + Reward * Cardinality(Rewarded)
  BY <1>1, <1>2, <1>3
<1>5. Reward * Cardinality(Rewarded) \in Int
  BY CountTypes, RewardsAreNatural
<1>6. FreeSpins' = FreeSpins - 1
  BY <1>4, <1>5, CountTypes, CountOfSpins, AccountsAreNatural
<1>7. QED
  BY <1>1, <1>2, <1>6 DEF CountsAreFinite

\* A grant adds what the round has won.
LEMMA CountGranted ==
    ASSUME TypeOK, CountsAreFinite, NEW r \in Round, r \notin granted,
           granted' = granted \cup {r}, UNCHANGED <<outcome, spent, at>>
    PROVE  FreeSpins' = FreeSpins + outcome[r].spins /\ CountsAreFinite'
<1>1. Rewarded' = Rewarded
  BY DEF Rewarded
<1>2. granted \subseteq Round /\ IsFiniteSet(granted')
  BY FS_AddElement DEF CountsAreFinite, TypeOK
<1>3. SpinsWon(outcome, granted \cup {r}) = SpinsWon(outcome, granted) + outcome[r].spins
  BY <1>2, CountTypes, SpinsWonAdd DEF CountsAreFinite
<1>4. FreeSpins' = Spins - Cardinality(spent') + SpinsWon(outcome', granted')
                         + Reward * Cardinality(Rewarded')
  BY DEF FreeSpins, Total, SpinsWon
<1>5. FreeSpins' = Spins - Cardinality(spent)
                         + (SpinsWon(outcome, granted) + outcome[r].spins)
                         + Reward * Cardinality(Rewarded)
  BY <1>1, <1>3, <1>4
<1>6. Reward * Cardinality(Rewarded) \in Int
  BY CountTypes, RewardsAreNatural
<1>7. FreeSpins' = FreeSpins + outcome[r].spins
  BY <1>5, <1>6, CountTypes, CountOfSpins, AccountsAreNatural
<1>8. QED
  BY <1>1, <1>2, <1>7 DEF CountsAreFinite

\* A reward adds the spins of a day.
LEMMA CountRewarded ==
    ASSUME TypeOK, CountsAreFinite, NEW c \in Claim, c \notin Rewarded,
           at' = [at EXCEPT ![c] = now], UNCHANGED <<outcome, spent, granted>>
    PROVE  /\ FreeSpins' = FreeSpins + Reward /\ CountsAreFinite'
           /\ Rewarded' = Rewarded \cup {c}
<1>1. now # Never
  BY RewardsAreNatural DEF TypeOK, Never
<1>2. Rewarded' = Rewarded \cup {c}
  BY <1>1 DEF Rewarded, TypeOK
<1>3. IsFiniteSet(Rewarded') /\ Cardinality(Rewarded') = Cardinality(Rewarded) + 1
  BY <1>2, FS_AddElement DEF CountsAreFinite
<1>4. FreeSpins' = Spins - Cardinality(spent') + SpinsWon(outcome', granted')
                         + Reward * Cardinality(Rewarded')
  BY DEF FreeSpins, Total, SpinsWon
<1>5. Reward * (Cardinality(Rewarded) + 1) = Reward * Cardinality(Rewarded) + Reward
  BY CountTypes, RewardsAreNatural
<1>6. FreeSpins' = Spins - Cardinality(spent) + SpinsWon(outcome, granted)
                         + (Reward * Cardinality(Rewarded) + Reward)
  BY <1>3, <1>4, <1>5
<1>7. Reward * Cardinality(Rewarded) \in Int
  BY CountTypes, RewardsAreNatural
<1>8. FreeSpins' = FreeSpins + Reward
  BY <1>6, <1>7, CountTypes, CountOfSpins, AccountsAreNatural, RewardsAreNatural
<1>9. QED
  BY <1>2, <1>3, <1>8 DEF CountsAreFinite

---------------------------------------------------------------------------
(* The invariant, step by step.                                            *)

\* The first state satisfies the invariant.
LEMMA InitHolds == Init => IInv
<1> SUFFICES ASSUME Init
             PROVE  IInv
  OBVIOUS
<1>1. TypeOK
  BY RewardsAreNatural DEF Init, TypeOK, Point
<1>2. spent = {} /\ granted = {} /\ Rewarded = {}
  BY DEF Init, Rewarded
<1>3. CountsAreFinite
  BY <1>2, FS_EmptySet DEF CountsAreFinite
<1>4. RoundsInv
  BY DEF Init, RoundsInv, CallsAreMade, PrizesInv, HistoryIsSettled, Paid
<1>5. ClaimsInv
  <2>1. \A c \in Claim : at[c] = Never /\ claim[c] = "idle" /\ now = 0
    BY DEF Init
  <2>2. QED
    BY <1>2, <2>1 DEF ClaimsInv, RewardsKeepTheCooldown, Never
<1>6. FreeSpins >= 0
  <2>1. Cardinality({}) = 0
    BY FS_EmptySet
  <2>2. SpinsWon(outcome, granted) \in Nat
    BY <1>1, <1>3, CountTypes
  <2>3. FreeSpins = Spins - 0 + SpinsWon(outcome, granted) + Reward * 0
    BY <1>2, <2>1, CountOfSpins
  <2>4. QED
    BY <2>2, <2>3, AccountsAreNatural, RewardsAreNatural
<1>7. QED
  BY <1>1, <1>3, <1>4, <1>5, <1>6 DEF IInv

\* The type invariant, step by step of a round.
LEMMA StepKeepsType ==
    ASSUME TypeOK, NEW r \in Round, Step(r), UNCHANGED daily
    PROVE  TypeOK'
<1> USE DEF Goto, Answer, Fails, stores, daily
<1>2. CASE Validate(r)
  BY <1>2 DEF Validate, TypeOK, Point
<1>3. CASE UseFreeSpin(r)
  BY <1>3 DEF UseFreeSpin, TypeOK, Point
<1>4. CASE UseFreeSpinFails(r)
  BY <1>4 DEF UseFreeSpinFails, TypeOK, Point
<1>5. CASE CheckFunds(r)
  BY <1>5 DEF CheckFunds, TypeOK, Point
<1>6. CASE Bet(r)
  BY <1>6 DEF Bet, TypeOK, Point
<1>7. CASE BetFails(r)
  BY <1>7 DEF BetFails, TypeOK, Point
<1>8. CASE Draw(r)
  BY <1>8 DEF Draw, TypeOK, Point
<1>9. CASE DrawFails(r)
  BY <1>9 DEF DrawFails, TypeOK, Point
<1>10. CASE Win(r)
  BY <1>10 DEF Win, TypeOK, Point
<1>11. CASE WinFails(r)
  BY <1>11 DEF WinFails, TypeOK, Point
<1>12. CASE Grant(r)
  BY <1>12 DEF Grant, TypeOK, Point
<1>13. CASE GrantFails(r)
  BY <1>13 DEF GrantFails, TypeOK, Point
<1>14. CASE Save(r)
  BY <1>14 DEF Save, TypeOK, Point
<1>15. CASE SaveFails(r)
  BY <1>15 DEF SaveFails, TypeOK, Point
<1>16. CASE Publish(r)
  BY <1>16 DEF Publish, TypeOK, Point
<1>17. QED
  BY <1>2, <1>3, <1>4, <1>5, <1>6, <1>7, <1>8, <1>9, <1>10, <1>11, <1>12, <1>13,
     <1>14, <1>15, <1>16 DEF Step

\* What the rounds owe and are owed, step by step.
LEMMA StepKeepsRounds ==
    ASSUME TypeOK, RoundsInv, NEW r \in Round, Step(r)
    PROVE  RoundsInv'
<1> USE DEF Goto, Answer, Fails, stores, RoundsInv, CallsAreMade, PrizesInv,
            HistoryIsSettled, Paid, TypeOK
<1>2. CASE Validate(r)
  BY <1>2 DEF Validate
<1>3. CASE UseFreeSpin(r)
  BY <1>3 DEF UseFreeSpin
<1>4. CASE UseFreeSpinFails(r)
  BY <1>4 DEF UseFreeSpinFails
<1>5. CASE CheckFunds(r)
  BY <1>5 DEF CheckFunds
<1>6. CASE Bet(r)
  BY <1>6 DEF Bet
<1>7. CASE BetFails(r)
  BY <1>7 DEF BetFails
<1>8. CASE Draw(r)
  BY <1>8 DEF Draw
<1>9. CASE DrawFails(r)
  BY <1>9 DEF DrawFails
<1>10. CASE Win(r)
  BY <1>10 DEF Win
<1>11. CASE WinFails(r)
  BY <1>11 DEF WinFails
<1>12. CASE Grant(r)
  BY <1>12 DEF Grant
<1>13. CASE GrantFails(r)
  BY <1>13 DEF GrantFails
<1>14. CASE Save(r)
  BY <1>14 DEF Save
<1>15. CASE SaveFails(r)
  BY <1>15 DEF SaveFails
<1>16. CASE Publish(r)
  BY <1>16 DEF Publish
<1>17. QED
  BY <1>2, <1>3, <1>4, <1>5, <1>6, <1>7, <1>8, <1>9, <1>10, <1>11, <1>12, <1>13,
     <1>14, <1>15, <1>16 DEF Step

\* No step of a round takes the count of free spins below zero.
LEMMA StepKeepsCount ==
    ASSUME TypeOK, CountsAreFinite, RoundsInv, FreeSpins >= 0,
           NEW r \in Round, Step(r), UNCHANGED daily
    PROVE  FreeSpins' >= 0 /\ CountsAreFinite'
<1>1. at' = at /\ granted \subseteq Round /\ FreeSpins \in Int /\ outcome[r].spins \in Nat
  BY CountTypes DEF daily, TypeOK
<1>2. ASSUME spent' = spent, granted' = granted,
             \A q \in granted : outcome'[q].spins = outcome[q].spins
      PROVE  FreeSpins' >= 0 /\ CountsAreFinite'
  <2>1. FreeSpins' = FreeSpins /\ CountsAreFinite'
    BY <1>1, <1>2, CountKept
  <2>2. QED
    BY <2>1
<1>3. ASSUME FreeSpins > 0, spent' = spent \cup {r}, r \notin spent,
             UNCHANGED <<outcome, granted>>
      PROVE  FreeSpins' >= 0 /\ CountsAreFinite'
  <2>1. FreeSpins' = FreeSpins - 1 /\ CountsAreFinite'
    BY <1>1, <1>3, CountTaken
  <2>2. QED
    BY <1>1, <1>3, <2>1
<1>4. ASSUME granted' = granted \cup {r}, r \notin granted, UNCHANGED <<outcome, spent>>
      PROVE  FreeSpins' >= 0 /\ CountsAreFinite'
  <2>1. FreeSpins' = FreeSpins + outcome[r].spins /\ CountsAreFinite'
    BY <1>1, <1>4, CountGranted
  <2>2. QED
    BY <1>1, <2>1
<1>5. pc[r] = "pay" => r \notin spent
  BY DEF RoundsInv, CallsAreMade, Paid
<1>6. pc[r] = "grant" => r \notin granted
  BY DEF RoundsInv, CallsAreMade
<1>7. CASE UseFreeSpin(r)
  <2>1. CASE FreeSpins > 0
    <3>1. spent' = spent \cup {r} /\ UNCHANGED <<outcome, granted>> /\ r \notin spent
      BY <1>5, <1>7, <2>1 DEF UseFreeSpin
    <3>2. QED
      BY <1>3, <2>1, <3>1
  <2>2. CASE ~ (FreeSpins > 0)
    <3>1. UNCHANGED <<spent, granted, outcome>>
      BY <1>7, <2>2 DEF UseFreeSpin
    <3>2. QED
      BY <1>2, <3>1
  <2>3. QED
    BY <2>1, <2>2
<1>8. CASE UseFreeSpinFails(r)
  <2>1. /\ UNCHANGED <<outcome, granted>> /\ r \notin spent
        /\ UNCHANGED spent \/ (FreeSpins > 0 /\ spent' = spent \cup {r})
    BY <1>5, <1>8 DEF UseFreeSpinFails, Fails
  <2>2. QED
    BY <1>2, <1>3, <2>1
<1>9. CASE Grant(r)
  BY <1>4, <1>6, <1>9 DEF Grant
<1>10. CASE GrantFails(r)
  <2>1. /\ UNCHANGED <<outcome, spent>> /\ r \notin granted
        /\ granted' = granted \/ granted' = granted \cup {r}
    BY <1>6, <1>10 DEF GrantFails, Fails
  <2>2. QED
    BY <1>2, <1>4, <2>1
<1>11. CASE Draw(r)
  <2>1. r \notin granted /\ UNCHANGED <<spent, granted>>
    BY <1>11 DEF Draw, stores, RoundsInv, CallsAreMade
  <2>2. \A q \in granted : outcome'[q] = outcome[q]
    BY <1>1, <1>11, <2>1 DEF Draw, TypeOK
  <2>3. QED
    BY <1>2, <2>1, <2>2
<1>12. CASE \/ Validate(r) \/ CheckFunds(r) \/ Bet(r) \/ BetFails(r) \/ DrawFails(r)
            \/ Win(r) \/ WinFails(r) \/ Save(r) \/ SaveFails(r) \/ Publish(r)
  <2>1. UNCHANGED <<outcome, spent, granted>>
    BY <1>12 DEF Validate, CheckFunds, Bet, BetFails, DrawFails, Win, WinFails, Save,
                 SaveFails, Publish, Fails, stores
  <2>2. QED
    BY <1>2, <2>1
<1>13. QED
  BY <1>7, <1>8, <1>9, <1>10, <1>11, <1>12 DEF Step

---------------------------------------------------------------------------
\* A claim that is rewarded now is a cooldown after every reward before it.
LEMMA RewardKeepsClaims ==
    ASSUME TypeOK, ClaimsInv, NEW c \in Claim, claim[c] = "update", CooldownIsOver,
           NEW what \in {"ok", "error"}, claim' = [claim EXCEPT ![c] = what],
           at' = [at EXCEPT ![c] = now], UNCHANGED now
    PROVE  ClaimsInv'
<1>1. now \in Nat /\ Cooldown \in Nat /\ Never = -1
  BY RewardsAreNatural DEF TypeOK, Never
<1>2. \A d \in Claim : /\ at'[d] = IF d = c THEN now ELSE at[d]
                       /\ claim'[d] = IF d = c THEN what ELSE claim[d]
  BY DEF TypeOK
<1>3. \A d \in Claim : at[d] \in Int
  BY RewardsAreNatural DEF TypeOK, Never
<1>4. c \notin Rewarded
  BY DEF ClaimsInv, Rewarded
<1>5. Rewarded' = Rewarded \cup {c}
  BY <1>1, <1>2 DEF Rewarded
<1>6. \A d \in Rewarded : d \in Claim /\ d # c /\ at[d] + Cooldown <= now
  BY <1>1, <1>3, <1>4 DEF CooldownIsOver, Rewarded
<1>7. \A d, e \in Rewarded' :
         d # e => at'[d] + Cooldown <= at'[e] \/ at'[e] + Cooldown <= at'[d]
  BY <1>2, <1>5, <1>6 DEF ClaimsInv, RewardsKeepTheCooldown
<1>8. \A d \in Claim : /\ claim'[d] = "ok" => d \in Rewarded'
                       /\ claim'[d] = "refused" => d \notin Rewarded'
  BY <1>2, <1>5 DEF ClaimsInv, RewardsKeepTheCooldown
<1>9. \A d \in Claim : claim'[d] \in {"idle", "update"} => at'[d] = Never
  BY <1>2 DEF ClaimsInv
<1>10. \A d \in Claim : at'[d] <= now'
  BY <1>1, <1>2 DEF ClaimsInv
<1>11. QED
  BY <1>7, <1>8, <1>9, <1>10 DEF ClaimsInv, RewardsKeepTheCooldown

\* A claim that is not rewarded disturbs nothing.
LEMMA ClaimKeepsClaims ==
    ASSUME TypeOK, ClaimsInv, NEW c \in Claim, claim[c] \in {"idle", "update"},
           NEW what \in {"update", "refused", "error"},
           claim' = [claim EXCEPT ![c] = what], UNCHANGED <<at, now>>
    PROVE  ClaimsInv'
<1>1. at[c] = Never /\ c \notin Rewarded /\ Rewarded' = Rewarded
  BY DEF ClaimsInv, Rewarded
<1>2. \A d \in Claim : claim'[d] = IF d = c THEN what ELSE claim[d]
  BY DEF TypeOK
<1>3. \A d \in Claim : claim'[d] \in {"idle", "update"} => at'[d] = Never
  BY <1>1, <1>2 DEF ClaimsInv
<1>4. \A d \in Claim : /\ claim'[d] = "ok" => d \in Rewarded'
                       /\ claim'[d] = "refused" => d \notin Rewarded'
  BY <1>1, <1>2 DEF ClaimsInv, RewardsKeepTheCooldown
<1>5. QED
  BY <1>1, <1>3, <1>4 DEF ClaimsInv, RewardsKeepTheCooldown

\* The daily reward leaves the rounds alone and the invariant whole.
LEMMA DailyKeepsAll ==
    ASSUME IInv, Daily, UNCHANGED rounds
    PROVE  IInv'
<1>1. TypeOK'
  <2>1. CASE Tick
    BY <2>1, RewardsAreNatural DEF IInv, TypeOK, Tick, rounds, stores
  <2>2. CASE \E c \in Claim : EnsureProfile(c) \/ ClaimDaily(c) \/ ClaimFails(c)
    BY <2>2 DEF IInv, TypeOK, EnsureProfile, ClaimDaily, ClaimFails, rounds, stores
  <2>3. QED
    BY <2>1, <2>2 DEF Daily
<1>2. RoundsInv'
  BY DEF IInv, RoundsInv, CallsAreMade, PrizesInv, HistoryIsSettled, Paid, rounds, stores
<1>3. ASSUME UNCHANGED at
      PROVE  FreeSpins' >= 0 /\ CountsAreFinite'
  <2>1. FreeSpins' = FreeSpins /\ CountsAreFinite'
    BY <1>3, CountKept DEF IInv, rounds, stores
  <2>2. QED
    BY <2>1 DEF IInv
<1>4. ASSUME NEW c \in Claim, claim[c] = "update", at' = [at EXCEPT ![c] = now]
      PROVE  FreeSpins' >= 0 /\ CountsAreFinite'
  <2>1. c \notin Rewarded
    BY <1>4 DEF IInv, ClaimsInv, Rewarded
  <2>2. FreeSpins' = FreeSpins + Reward /\ CountsAreFinite'
    BY <1>4, <2>1, CountRewarded DEF IInv, rounds, stores
  <2>3. FreeSpins \in Int
    BY CountTypes DEF IInv
  <2>4. QED
    BY <2>2, <2>3, RewardsAreNatural DEF IInv
<1>5. CASE Tick
  <2>1. now \in Nat /\ now' = now + 1 /\ UNCHANGED <<at, claim>>
    BY <1>5, RewardsAreNatural DEF Tick, IInv, TypeOK
  <2>2. \A c \in Claim : at[c] \in Int /\ at[c] <= now
    BY RewardsAreNatural DEF IInv, TypeOK, ClaimsInv, Never
  <2>3. \A c \in Claim : at'[c] <= now'
    BY <2>1, <2>2
  <2>4. ClaimsInv'
    BY <2>1, <2>3 DEF IInv, ClaimsInv, RewardsKeepTheCooldown, Rewarded
  <2>5. QED
    BY <1>1, <1>2, <1>3, <2>1, <2>4 DEF IInv
<1>6. ASSUME NEW c \in Claim, EnsureProfile(c)
      PROVE  IInv'
  <2>1. ClaimsInv'
    BY <1>6, ClaimKeepsClaims DEF EnsureProfile, IInv
  <2>2. QED
    BY <1>1, <1>2, <1>3, <1>6, <2>1 DEF EnsureProfile, IInv
<1>7. ASSUME NEW c \in Claim, ClaimDaily(c)
      PROVE  IInv'
  <2>1. CASE CooldownIsOver
    <3>1. ClaimsInv'
      BY <1>7, <2>1, RewardKeepsClaims DEF ClaimDaily, IInv
    <3>2. QED
      BY <1>1, <1>2, <1>4, <1>7, <2>1, <3>1 DEF ClaimDaily, IInv
  <2>2. CASE ~CooldownIsOver
    <3>1. ClaimsInv'
      BY <1>7, <2>2, ClaimKeepsClaims DEF ClaimDaily, IInv
    <3>2. QED
      BY <1>1, <1>2, <1>3, <1>7, <2>2, <3>1 DEF ClaimDaily, IInv
  <2>3. QED
    BY <2>1, <2>2
<1>8. ASSUME NEW c \in Claim, ClaimFails(c)
      PROVE  IInv'
  <2>1. CASE UNCHANGED at
    <3>1. ClaimsInv'
      BY <1>8, <2>1, ClaimKeepsClaims DEF ClaimFails, IInv
    <3>2. QED
      BY <1>1, <1>2, <1>3, <2>1, <3>1 DEF IInv
  <2>2. CASE claim[c] = "update" /\ CooldownIsOver /\ at' = [at EXCEPT ![c] = now]
    <3>1. ClaimsInv'
      BY <1>8, <2>2, RewardKeepsClaims DEF ClaimFails, IInv
    <3>2. QED
      BY <1>1, <1>2, <1>4, <2>2, <3>1 DEF IInv
  <2>3. QED
    BY <1>8, <2>1, <2>2 DEF ClaimFails
<1>9. QED
  BY <1>5, <1>6, <1>7, <1>8 DEF Daily

\* What a restart cuts off stays as it is: paid or not, it promises nothing new.
LEMMA RestartKeepsAll ==
    ASSUME IInv, Restart
    PROVE  IInv'
<1>1. TypeOK'
  BY DEF IInv, TypeOK, Restart, stores, Point
<1>2. RoundsInv'
  <2>1. UNCHANGED <<outcome, bets, wins, spent, granted, saved, published, answer>>
    BY DEF Restart, stores
  <2>2. \A r \in Round : pc'[r] = "end" \/ (pc[r] = "validate" /\ pc'[r] = "validate")
    BY DEF Restart
  <2>3. CallsAreMade'
    BY <2>1, <2>2 DEF IInv, RoundsInv, CallsAreMade, Paid
  <2>4. PrizesInv' /\ HistoryIsSettled'
    BY <2>1 DEF IInv, RoundsInv, PrizesInv, HistoryIsSettled, Paid
  <2>5. QED
    BY <2>3, <2>4 DEF RoundsInv
<1>3. FreeSpins' = FreeSpins /\ CountsAreFinite'
  BY CountKept DEF IInv, Restart, stores
<1>4. ClaimsInv'
  <2>1. UNCHANGED <<now, at>> /\ Rewarded' = Rewarded
    BY DEF Restart, Rewarded
  <2>2. \A c \in Claim : claim'[c] = "error" \/ claim'[c] = claim[c]
    BY DEF Restart
  <2>3. QED
    BY <2>1, <2>2 DEF IInv, ClaimsInv, RewardsKeepTheCooldown
<1>5. QED
  BY <1>1, <1>2, <1>3, <1>4 DEF IInv

\* The invariant holds from the start and every step keeps it.
THEOREM Invariance == Spec => []IInv
<1>1. IInv /\ [Next]_vars => IInv'
  <2> SUFFICES ASSUME IInv, [Next]_vars
               PROVE  IInv'
    OBVIOUS
  <2>1. CASE Restart
    BY <2>1, RestartKeepsAll
  <2>2. ASSUME NEW r \in Round, Step(r), UNCHANGED daily
        PROVE  IInv'
    <3>1. TypeOK' /\ RoundsInv'
      BY <2>2, StepKeepsType, StepKeepsRounds DEF IInv
    <3>2. FreeSpins' >= 0 /\ CountsAreFinite'
      BY <2>2, StepKeepsCount DEF IInv
    <3>3. ClaimsInv'
      BY <2>2 DEF IInv, ClaimsInv, RewardsKeepTheCooldown, Rewarded, daily
    <3>4. QED
      BY <3>1, <3>2, <3>3 DEF IInv
  <2>3. CASE Daily /\ UNCHANGED rounds
    BY <2>3, DailyKeepsAll
  <2>4. CASE UNCHANGED vars
    <3>1. TypeOK'
      BY <2>4 DEF IInv, TypeOK, vars, rounds, daily, stores
    <3>2. RoundsInv'
      BY <2>4 DEF IInv, RoundsInv, CallsAreMade, PrizesInv, HistoryIsSettled, Paid,
                  vars, rounds, stores
    <3>3. ClaimsInv'
      BY <2>4 DEF IInv, ClaimsInv, RewardsKeepTheCooldown, Rewarded, vars, daily
    <3>4. FreeSpins' = FreeSpins /\ CountsAreFinite'
      BY <2>4, CountKept DEF IInv, vars, rounds, daily, stores
    <3>5. QED
      BY <3>1, <3>2, <3>3, <3>4 DEF IInv
  <2>5. QED
    BY <2>1, <2>2, <2>3, <2>4 DEF Next
<1>2. QED
  BY <1>1, InitHolds, PTL DEF Spec

\* Nothing is won, granted or saved without a stake, no round pays twice, and
\* the rounds and rewards of one player never take the free spins below zero.
THEOREM PrizesHaveStakes == Spec => []PrizesArePaidFor
<1>1. IInv => PrizesArePaidFor
  BY DEF IInv, RoundsInv, PrizesInv, PrizesArePaidFor
<1>2. QED
  BY <1>1, Invariance, PTL

\* Two daily rewards are a cooldown apart, and the answers to claims are true.
THEOREM RewardsAreApart == Spec => []RewardsKeepTheCooldown
<1>1. IInv => RewardsKeepTheCooldown
  BY DEF IInv, ClaimsInv
<1>2. QED
  BY <1>1, Invariance, PTL

\* A round in the history is settled; a round answered "ok" or published is there.
THEOREM HistorySettles == Spec => []HistoryIsSettled
<1>1. IInv => HistoryIsSettled
  BY DEF IInv, RoundsInv
<1>2. QED
  BY <1>1, Invariance, PTL

---------------------------------------------------------------------------
(* The weights of the classic slot.                                        *)

\* The values the loop of weightedIndex goes through.
Takes(rest, v, weights) ==
    rest = [i \in 0..Len(weights) |->
              IF i = 0 THEN v * SumFunction(weights) ELSE rest[i-1] - weights[i] * Resolution]

\* The loop, whichever way its values are written down.
Taken(v, weights) == CHOOSE rest : Takes(rest, v, weights)

\* The option taken is the first whose value is below zero.
LEMMA IndexIsFirstBelow ==
    ASSUME NEW v, NEW weights
    PROVE  WeightedIndex(v, weights) =
             Min({i \in 1..Len(weights) : Taken(v, weights)[i] < 0} \cup {Len(weights)})
BY DEF WeightedIndex, Taken, Takes

\* A function is summed over its domain.
LEMMA SumIsOnDomain ==
    ASSUME NEW f
    PROVE  SumFunction(f) = SumFunctionOnSet(f, DOMAIN f)
BY DEF SumFunction, SumFunctionOnSet, FoldFunction, FoldFunctionOnSet

\* The sum of the first numbers is the one before and the last.
LEMMA SumUpTo ==
    ASSUME NEW f, NEW n \in Nat, \A i \in 1..n+1 : f[i] \in Int
    PROVE  SumFunctionOnSet(f, 1..n+1) = SumFunctionOnSet(f, 1..n) + f[n+1]
<1> DEFINE S == 1..n
           e == n + 1
<1>1. IsFiniteSet(S) /\ e \notin S /\ S \cup {e} = 1..n+1
  BY FS_Interval
<1>2. \A x \in S \cup {e} : f[x] \in Int
  BY <1>1
<1>3. SumFunctionOnSet(f, S \cup {e}) = SumFunctionOnSet(f, S) + f[e]
  <2> HIDE DEF S, e
  <2>1. QED
    BY <1>1, <1>2, SumAdd
<1>4. QED
  BY <1>1, <1>3

\* The sum of six numbers.
LEMMA SumOfSix ==
    ASSUME NEW f, DOMAIN f = 1..6, \A i \in 1..6 : f[i] \in Int
    PROVE  SumFunction(f) = f[1] + f[2] + f[3] + f[4] + f[5] + f[6]
<1> DEFINE sum(n) == SumFunctionOnSet(f, 1..n)
<1>1. sum(0) = 0
  BY SumDef, FS_EmptySet, FS_Interval, 1..0 = {}
<1>2. \A n \in 0..5 : sum(n+1) = sum(n) + f[n+1]
  BY SumUpTo
<1>3. SumFunction(f) = sum(6)
  BY SumIsOnDomain
<1> HIDE DEF sum
<1>4. /\ sum(1) = sum(0) + f[1] /\ sum(2) = sum(1) + f[2] /\ sum(3) = sum(2) + f[3]
      /\ sum(4) = sum(3) + f[4] /\ sum(5) = sum(4) + f[5] /\ sum(6) = sum(5) + f[6]
  BY <1>2
<1>5. QED
  BY <1>1, <1>3, <1>4

\* Where the shares of the classic slot's symbols end, in hundredths.
Share == <<30, 58, 78, 90, 96, 100>>
Below(k) == IF k = 0 THEN 0 ELSE Share[k]

\* The six weights.
LEMMA WeightsAre ==
    /\ Len(ClassicWeights) = 6 /\ DOMAIN ClassicWeights = 1..6
    /\ ClassicWeights[1] = 30 /\ ClassicWeights[2] = 28 /\ ClassicWeights[3] = 20
    /\ ClassicWeights[4] = 12 /\ ClassicWeights[5] = 6 /\ ClassicWeights[6] = 4
BY DEF ClassicWeights

\* A share ends where the one before it does and its own weight on.
LEMMA SharesAre ==
    /\ Below(0) = 0 /\ Below(1) = 30 /\ Below(2) = 58 /\ Below(3) = 78
    /\ Below(4) = 90 /\ Below(5) = 96 /\ Below(6) = 100
    /\ \A k \in 0..6 : Below(k) \in 0..100
    /\ \A k \in 1..6 : Below(k) = Below(k-1) + ClassicWeights[k]
<1>1. /\ Below(0) = 0 /\ Below(1) = 30 /\ Below(2) = 58 /\ Below(3) = 78
      /\ Below(4) = 90 /\ Below(5) = 96 /\ Below(6) = 100
  BY DEF Below, Share
<1>2. \A k \in 0..6 : k = 0 \/ k = 1 \/ k = 2 \/ k = 3 \/ k = 4 \/ k = 5 \/ k = 6
  OBVIOUS
<1>3. QED
  BY <1>1, <1>2, WeightsAre

\* They are the sums of the weights.
LEMMA WeightsAddUp ==
    /\ SumFunction(ClassicWeights) = 100
    /\ \A k \in 0..6 : SumFunction([j \in 1..k |-> ClassicWeights[j]]) = Below(k)
<1> DEFINE w == ClassicWeights
           sum(n) == SumFunctionOnSet(w, 1..n)
<1>1. sum(0) = 0
  BY SumDef, FS_EmptySet, FS_Interval, 1..0 = {}
<1>2. \A n \in 0..5 : \A i \in 1..n+1 : w[i] \in Int
  BY WeightsAre
<1>3. \A n \in 0..5 : sum(n+1) = sum(n) + w[n+1]
  BY <1>2, SumUpTo
<1>4. ASSUME NEW k \in 0..6
      PROVE  SumFunction([j \in 1..k |-> w[j]]) = sum(k)
  <2> DEFINE f == [j \in 1..k |-> w[j]]
  <2>1. DOMAIN f = 1..k /\ \A j \in 1..k : f[j] = w[j]
    OBVIOUS
  <2>2. IsFiniteSet(1..k)
    BY FS_Interval
  <2> HIDE DEF f, w
  <2>3. SumFunctionOnSet(f, 1..k) = sum(k)
    BY <2>1, <2>2, SumCongruence
  <2>4. SumFunction(f) = sum(k)
    BY <2>1, <2>3, SumIsOnDomain
  <2>5. QED
    BY <2>4 DEF f
<1>5. SumFunction(w) = sum(6)
  BY SumIsOnDomain, WeightsAre
<1> HIDE DEF sum
<1>6. /\ sum(1) = sum(0) + w[1] /\ sum(2) = sum(1) + w[2] /\ sum(3) = sum(2) + w[3]
      /\ sum(4) = sum(3) + w[4] /\ sum(5) = sum(4) + w[5] /\ sum(6) = sum(5) + w[6]
  BY <1>3
<1>7. sum(1) = 30 /\ sum(2) = 58 /\ sum(3) = 78 /\ sum(4) = 90 /\ sum(5) = 96 /\ sum(6) = 100
  BY <1>1, <1>6, WeightsAre
<1>8. \A k \in 0..6 : sum(k) = Below(k)
  BY <1>1, <1>7, SharesAre
<1>9. QED
  BY <1>4, <1>5, <1>7, <1>8

\* What the loop has left after k weights.
LEMMA TakenIs ==
    ASSUME NEW v \in Nat
    PROVE  \A k \in 0..6 : Taken(v, ClassicWeights)[k] = v * 100 - Below(k) * Resolution
<1> DEFINE left == [k \in 0..6 |-> v * 100 - Below(k) * Resolution]
           t == Taken(v, ClassicWeights)
<1>1. Resolution \in Nat
  BY ResolutionIsPositive
<1>2. ASSUME NEW k \in 0..6, k # 0
      PROVE  left[k] = left[k-1] - ClassicWeights[k] * Resolution
  <2>1. /\ k - 1 \in 0..6 /\ k \in 1..6
        /\ Below(k) \in Int /\ Below(k-1) \in Int /\ ClassicWeights[k] \in Int
    BY <1>2, SharesAre, WeightsAre
  <2>2. Below(k) * Resolution = Below(k-1) * Resolution + ClassicWeights[k] * Resolution
    BY <2>1, <1>1, SharesAre
  <2>3. QED
    BY <2>1, <2>2, <1>1
<1>3. left[0] = v * SumFunction(ClassicWeights)
  BY <1>1, SharesAre, WeightsAddUp
<1>4. left = [k \in 0..6 |-> IF k = 0 THEN v * SumFunction(ClassicWeights)
                             ELSE left[k-1] - ClassicWeights[k] * Resolution]
  BY <1>2, <1>3
<1>5. Takes(left, v, ClassicWeights)
  BY <1>4, WeightsAre DEF Takes
<1> HIDE DEF left
<1>6. Takes(t, v, ClassicWeights)
  BY <1>5 DEF Taken
<1>7. t = [k \in 0..6 |-> IF k = 0 THEN v * SumFunction(ClassicWeights)
                          ELSE t[k-1] - ClassicWeights[k] * Resolution]
  BY <1>6, WeightsAre DEF Takes
<1> HIDE DEF t
<1>8. t[0] = v * 100 - Below(0) * Resolution
  BY <1>7, <1>1, WeightsAddUp, SharesAre
<1>9. ASSUME NEW k \in 1..6, t[k-1] = v * 100 - Below(k-1) * Resolution
      PROVE  t[k] = v * 100 - Below(k) * Resolution
  <2>1. t[k] = t[k-1] - ClassicWeights[k] * Resolution
    BY <1>7
  <2>2. Below(k) \in Int /\ Below(k-1) \in Int /\ ClassicWeights[k] \in Int
    BY SharesAre, WeightsAre
  <2>3. Below(k) * Resolution = Below(k-1) * Resolution + ClassicWeights[k] * Resolution
    BY <2>2, <1>1, SharesAre
  <2>4. QED
    BY <1>9, <2>1, <2>2, <2>3, <1>1
<1>10. \A k \in 0..6 : t[k] = v * 100 - Below(k) * Resolution
  <2>1. t[1] = v * 100 - Below(1) * Resolution
    BY <1>8, <1>9
  <2>2. t[2] = v * 100 - Below(2) * Resolution
    BY <2>1, <1>9
  <2>3. t[3] = v * 100 - Below(3) * Resolution
    BY <2>2, <1>9
  <2>4. t[4] = v * 100 - Below(4) * Resolution
    BY <2>3, <1>9
  <2>5. t[5] = v * 100 - Below(5) * Resolution
    BY <2>4, <1>9
  <2>6. t[6] = v * 100 - Below(6) * Resolution
    BY <2>5, <1>9
  <2>7. QED
    BY <1>8, <2>1, <2>2, <2>3, <2>4, <2>5, <2>6
<1>11. QED
  BY <1>10 DEF t

\* The symbol drawn is the one in whose share the value falls.
LEMMA IndexIsInShare ==
    ASSUME NEW v \in 0..Resolution-1
    PROVE  LET i == WeightedIndex(v, ClassicWeights)
           IN /\ i \in 1..6
              /\ Below(i-1) * Resolution <= v * 100 /\ v * 100 < Below(i) * Resolution
<1> DEFINE T == {i \in 1..6 : v * 100 < Below(i) * Resolution}
<1>1. Resolution \in Nat /\ v \in Nat /\ v < Resolution
  BY ResolutionIsPositive
<1>2. \A i \in 0..6 : Below(i) * Resolution \in Int
  BY <1>1, SharesAre
<1>3. \A i \in 1..6 : Taken(v, ClassicWeights)[i] < 0 <=> i \in T
  BY <1>1, <1>2, TakenIs
<1>4. 6 \in T
  BY <1>1, SharesAre
<1>5. T = {i \in 1..Len(ClassicWeights) : Taken(v, ClassicWeights)[i] < 0}
            \cup {Len(ClassicWeights)}
  BY <1>3, <1>4, WeightsAre
<1>6. WeightedIndex(v, ClassicWeights) = Min(T)
  BY <1>5, IndexIsFirstBelow
<1>7. Min(T) \in T /\ \A j \in T : Min(T) <= j
  <2>1. T \in SUBSET Nat /\ T # {}
    BY <1>4
  <2>2. \E n \in T : \A m \in T : n <= m
    BY <2>1, LeastNumber
  <2>3. QED
    BY <2>2 DEF Min
<1>8. ASSUME NEW i \in T, \A j \in T : i <= j
      PROVE  Below(i-1) * Resolution <= v * 100
  <2>1. CASE i = 1
    BY <2>1, <1>1, SharesAre
  <2>2. CASE i # 1
    <3>1. i - 1 \in 1..6 /\ i - 1 \notin T
      BY <1>8, <2>2
    <3>2. QED
      BY <3>1, <1>1, <1>2
  <2>3. QED
    BY <2>1, <2>2
<1>9. QED
  BY <1>6, <1>7, <1>8

---------------------------------------------------------------------------
(* The runs of the video slot's lines.                                     *)

\* The symbols lines pay as.
PayingSymbols == {"TEN", "JACK", "QUEEN", "KING", "ACE", "GEM", "CROWN"}

\* They are neither the wild nor the scatter.
LEMMA SymbolsAre ==
    /\ DOMAIN LinePays = PayingSymbols
    /\ VideoSymbols = PayingSymbols \cup {"WILD", "SCATTER"}
    /\ "WILD" \notin PayingSymbols /\ "SCATTER" \notin PayingSymbols /\ "none" \notin VideoSymbols
BY DEF LinePays, PayingSymbols, VideoSymbols

\* The run before the first cell, and with one cell more.
NoRun == [symbol |-> "none", count |-> 0, over |-> FALSE]

Longer(run, c) ==
    IF run.over THEN run
    ELSE IF c = "WILD" THEN [run EXCEPT !.count = @ + 1]
    ELSE IF c # "SCATTER" /\ run.symbol \in {"none", c}
         THEN [run EXCEPT !.count = @ + 1, !.symbol = c]
    ELSE [run EXCEPT !.over = TRUE]

\* The runs the loop goes through.
Reads(step, cells) ==
    step = [i \in 0..Len(cells) |-> IF i = 0 THEN NoRun ELSE Longer(step[i-1], cells[i])]

\* The loop, whichever way its runs are written down.
Readings(cells) == CHOOSE step : Reads(step, cells)

\* A line pays by the last of them.
LEMMA RunIsLastReading ==
    ASSUME NEW cells
    PROVE  Run(cells) = Readings(cells)[Len(cells)]
BY DEF Run, Readings, Reads, Longer, NoRun

\* There are such runs.
LEMMA ReadingsExist ==
    ASSUME NEW cells, Len(cells) = 5
    PROVE  Reads(Readings(cells), cells)
<1> DEFINE r1 == Longer(NoRun, cells[1])
           r2 == Longer(r1, cells[2])
           r3 == Longer(r2, cells[3])
           r4 == Longer(r3, cells[4])
           r5 == Longer(r4, cells[5])
           step == [i \in 0..5 |-> IF i = 0 THEN NoRun ELSE IF i = 1 THEN r1 ELSE IF i = 2 THEN r2
                                   ELSE IF i = 3 THEN r3 ELSE IF i = 4 THEN r4 ELSE r5]
<1>1. /\ step[0] = NoRun /\ step[1] = r1 /\ step[2] = r2 /\ step[3] = r3
      /\ step[4] = r4 /\ step[5] = r5
  <2> HIDE DEF r1, r2, r3, r4, r5
  <2>1. QED
    OBVIOUS
<1>2. \A i \in 1..5 : step[i] = Longer(step[i-1], cells[i])
  <2>1. \A i \in 1..5 : i = 1 \/ i = 2 \/ i = 3 \/ i = 4 \/ i = 5
    OBVIOUS
  <2>2. /\ step[1] = Longer(step[0], cells[1]) /\ step[2] = Longer(step[1], cells[2])
        /\ step[3] = Longer(step[2], cells[3]) /\ step[4] = Longer(step[3], cells[4])
        /\ step[5] = Longer(step[4], cells[5])
    <3>1. /\ r2 = Longer(r1, cells[2]) /\ r3 = Longer(r2, cells[3])
          /\ r4 = Longer(r3, cells[4]) /\ r5 = Longer(r4, cells[5]) /\ r1 = Longer(NoRun, cells[1])
      OBVIOUS
    <3> HIDE DEF step, r1, r2, r3, r4, r5
    <3>2. QED
      BY <1>1, <3>1
  <2> HIDE DEF step
  <2>3. QED
    BY <2>1, <2>2
<1>3. DOMAIN step = 0..5 /\ step = [i \in DOMAIN step |-> step[i]]
  <2> HIDE DEF r1, r2, r3, r4, r5
  <2>1. QED
    OBVIOUS
<1> HIDE DEF step
<1>4. step = [i \in 0..5 |-> IF i = 0 THEN NoRun ELSE Longer(step[i-1], cells[i])]
  BY <1>1, <1>2, <1>3
<1>5. Reads(step, cells)
  BY <1>4 DEF Reads
<1>6. QED
  BY <1>5 DEF Readings

\* What a run says of the cells read so far.
Says(s, n, over, cells, i) ==
    /\ s \in PayingSymbols \cup {"none"} /\ n \in 0..i /\ over \in BOOLEAN
    /\ \A j \in 1..n : cells[j] \in {s, "WILD"}
    /\ s # "none" => \E j \in 1..n : cells[j] = s
    /\ ~over => n = i
    /\ over => /\ n < i /\ cells[n+1] \notin {s, "WILD"}
               /\ s = "none" => cells[n+1] = "SCATTER"

RunOf(run, cells, i) ==
    /\ DOMAIN run = {"symbol", "count", "over"}
    /\ Says(run.symbol, run.count, run.over, cells, i)

\* How a cell changes a run: it is over, the cell is a wild, its symbol, or neither.
LEMMA OverStays ==
    ASSUME NEW run, NEW c, run.over
    PROVE  Longer(run, c) = run
BY DEF Longer

\* A wild is one more, of whatever symbol.
LEMMA WildsExtend ==
    ASSUME NEW run, DOMAIN run = {"symbol", "count", "over"}, NEW c, ~run.over, c = "WILD"
    PROVE  LET next == Longer(run, c)
           IN /\ DOMAIN next = {"symbol", "count", "over"}
              /\ next.symbol = run.symbol /\ next.count = run.count + 1 /\ next.over = run.over
BY DEF Longer

\* A symbol that is none, or the run's own, is one more.
LEMMA SymbolsExtend ==
    ASSUME NEW run, DOMAIN run = {"symbol", "count", "over"}, NEW c, ~run.over,
           c \notin {"WILD", "SCATTER"}, run.symbol \in {"none", c}
    PROVE  LET next == Longer(run, c)
           IN /\ DOMAIN next = {"symbol", "count", "over"}
              /\ next.symbol = c /\ next.count = run.count + 1 /\ next.over = run.over
BY DEF Longer

\* A scatter, or another symbol, ends the run and changes nothing else.
LEMMA OthersEnd ==
    ASSUME NEW run, DOMAIN run = {"symbol", "count", "over"}, NEW c, ~run.over,
           c # "WILD", c = "SCATTER" \/ run.symbol \notin {"none", c}
    PROVE  LET next == Longer(run, c)
           IN /\ DOMAIN next = {"symbol", "count", "over"}
              /\ next.symbol = run.symbol /\ next.count = run.count /\ next.over = TRUE
BY DEF Longer

\* What a run says stays true with one cell more.
LEMMA LongerRuns ==
    ASSUME NEW cells \in [1..5 -> VideoSymbols], NEW i \in 0..4, NEW run, RunOf(run, cells, i)
    PROVE  RunOf(Longer(run, cells[i+1]), cells, i+1)
<1> DEFINE s == run.symbol
           n == run.count
           b == run.over
<1>1. PICK c \in PayingSymbols \cup {"WILD", "SCATTER"} : c = cells[i+1]
  BY SymbolsAre
<1>2. DOMAIN run = {"symbol", "count", "over"} /\ Says(s, n, b, cells, i)
  BY DEF RunOf
<1>3. n \in 0..i /\ b \in BOOLEAN /\ s \in PayingSymbols \cup {"none"}
  BY <1>2 DEF Says
<1> DEFINE next == Longer(run, c)
<1>4. CASE b
  <2>1. next = run
    BY <1>4, OverStays
  <2> HIDE DEF s, n, b, next
  <2>2. Says(s, n, b, cells, i+1)
    BY <1>2, <1>3, <1>4 DEF Says
  <2>3. RunOf(next, cells, i+1)
    BY <1>2, <2>1, <2>2 DEF RunOf, s, n, b
  <2>4. QED
    BY <1>1, <2>3 DEF next
<1>5. CASE ~b /\ c = "WILD"
  <2>1. /\ DOMAIN next = {"symbol", "count", "over"}
        /\ next.symbol = s /\ next.count = n + 1 /\ next.over = b
    BY <1>2, <1>5, WildsExtend
  <2> HIDE DEF s, n, b, next
  <2>2. n = i /\ \A j \in 1..n : cells[j] \in {s, "WILD"}
    BY <1>2, <1>5 DEF Says
  <2>3. \A j \in 1..n+1 : cells[j] \in {s, "WILD"}
    <3>1. cells[n+1] = "WILD"
      BY <1>1, <1>5, <2>2
    <3>2. QED
      BY <2>2, <3>1
  <2>4. s # "none" => \E j \in 1..n+1 : cells[j] = s
    BY <1>2, <1>3 DEF Says
  <2>5. Says(s, n + 1, b, cells, i+1)
    BY <1>3, <1>5, <2>2, <2>3, <2>4 DEF Says
  <2>6. RunOf(next, cells, i+1)
    BY <2>1, <2>5 DEF RunOf
  <2>7. QED
    BY <1>1, <2>6 DEF next
<1>6. CASE ~b /\ c \in PayingSymbols /\ s \in {"none", c}
  <2>1. /\ DOMAIN next = {"symbol", "count", "over"}
        /\ next.symbol = c /\ next.count = n + 1 /\ next.over = b
    BY <1>2, <1>6, SymbolsAre, SymbolsExtend
  <2> HIDE DEF s, n, b, next
  <2>2. n = i /\ \A j \in 1..n : cells[j] \in {s, "WILD"} /\ cells[j] # "none"
    BY <1>2, <1>6, SymbolsAre DEF Says
  <2>3. \A j \in 1..n+1 : cells[j] \in {c, "WILD"}
    BY <1>1, <1>3, <1>6, <2>2
  <2>4. Says(c, n + 1, b, cells, i+1)
    BY <1>1, <1>3, <1>6, <2>2, <2>3 DEF Says
  <2>5. RunOf(next, cells, i+1)
    BY <2>1, <2>4 DEF RunOf
  <2>6. QED
    BY <1>1, <2>5 DEF next
<1>7. CASE ~b /\ (c = "SCATTER" \/ (c \in PayingSymbols /\ s \notin {"none", c}))
  <2>1. /\ DOMAIN next = {"symbol", "count", "over"}
        /\ next.symbol = s /\ next.count = n /\ next.over = TRUE
    BY <1>2, <1>7, SymbolsAre, OthersEnd
  <2> HIDE DEF s, n, b, next
  <2>2. n = i /\ c \notin {s, "WILD"} /\ (s = "none" => c = "SCATTER")
    BY <1>2, <1>3, <1>7, SymbolsAre DEF Says
  <2>3. Says(s, n, TRUE, cells, i+1)
    BY <1>1, <1>2, <1>3, <2>2 DEF Says
  <2>4. RunOf(next, cells, i+1)
    BY <2>1, <2>3 DEF RunOf
  <2>5. QED
    BY <1>1, <2>4 DEF next
<1>8. QED
  BY <1>3, <1>4, <1>5, <1>6, <1>7

\* What the run of a whole line says of it.
LEMMA RunSays ==
    ASSUME NEW cells \in [1..5 -> VideoSymbols], Len(cells) = 5
    PROVE  RunOf(Run(cells), cells, 5)
<1> DEFINE step == Readings(cells)
<1>1. step = [i \in 0..5 |-> IF i = 0 THEN NoRun ELSE Longer(step[i-1], cells[i])]
  BY ReadingsExist DEF Reads
<1> HIDE DEF step
<1>2. step[0] = NoRun /\ \A i \in 0..4 : step[i+1] = Longer(step[i], cells[i+1])
  BY <1>1
<1>3. RunOf(step[0], cells, 0)
  BY <1>2 DEF RunOf, Says, NoRun
<1>4. \A i \in 0..4 : RunOf(step[i], cells, i) => RunOf(step[i+1], cells, i+1)
  BY <1>2, LongerRuns
<1>5. RunOf(step[1], cells, 1)
  BY <1>3, <1>4, 0 + 1 = 1
<1>6. RunOf(step[2], cells, 2)
  BY <1>5, <1>4, 1 + 1 = 2
<1>7. RunOf(step[3], cells, 3)
  BY <1>6, <1>4, 2 + 1 = 3
<1>8. RunOf(step[4], cells, 4)
  BY <1>7, <1>4, 3 + 1 = 4
<1>9. RunOf(step[5], cells, 5)
  BY <1>8, <1>4, 4 + 1 = 5
<1>10. QED
  BY <1>9, RunIsLastReading DEF step

\* The symbol a run pays as fills it, and no symbol fills a longer one.
LEMMA RunIsLongest ==
    ASSUME NEW cells \in [1..5 -> VideoSymbols], Len(cells) = 5
    PROVE  LET run == Run(cells)
           IN /\ run.count \in 0..5 /\ PaySymbol(run) \in PayingSymbols
              /\ \A j \in 1..run.count : cells[j] \in {PaySymbol(run), "WILD"}
              /\ {cells[j] : j \in 1..run.count} \ {"WILD"} =
                    IF run.symbol = "none" THEN {} ELSE {PaySymbol(run)}
              /\ \A s \in PayingSymbols, k \in 0..5 :
                    (\A j \in 1..k : cells[j] \in {s, "WILD"}) => k <= run.count
<1> DEFINE run == Run(cells)
           n == run.count
<1>1. RunOf(run, cells, 5)
  BY RunSays
<1> HIDE DEF run
<1>2. n \in 0..5 /\ PaySymbol(run) \in PayingSymbols
  BY <1>1 DEF RunOf, Says, PaySymbol, PayingSymbols
<1>3. run.symbol = "none" => \A j \in 1..n : cells[j] = "WILD"
  BY <1>1, <1>2, SymbolsAre DEF RunOf, Says
<1>4. run.symbol # "none" => /\ PaySymbol(run) = run.symbol
                             /\ \A j \in 1..n : cells[j] \in {run.symbol, "WILD"}
                             /\ \E j \in 1..n : cells[j] = run.symbol
  BY <1>1 DEF RunOf, Says, PaySymbol
<1>5. \A j \in 1..n : cells[j] \in {PaySymbol(run), "WILD"}
  BY <1>3, <1>4
<1>6. {cells[j] : j \in 1..n} \ {"WILD"} = IF run.symbol = "none" THEN {} ELSE {PaySymbol(run)}
  <2>1. CASE run.symbol = "none"
    BY <2>1, <1>3
  <2>2. CASE run.symbol # "none"
    <3>1. PaySymbol(run) # "WILD"
      BY <1>2, SymbolsAre
    <3>2. QED
      BY <2>2, <1>4, <3>1
  <2>3. QED
    BY <2>1, <2>2
<1>7. ASSUME NEW s \in PayingSymbols, NEW k \in 0..5,
             \A j \in 1..k : cells[j] \in {s, "WILD"}, k > n
      PROVE  FALSE
  <2>1. run.over /\ n + 1 \in 1..k /\ n + 1 \in 1..5
    BY <1>7, <1>1, <1>2 DEF RunOf, Says
  <2>2. cells[n+1] = s /\ s # run.symbol /\ run.symbol # "none"
    BY <1>1, <1>7, <2>1, SymbolsAre DEF RunOf, Says
  <2>3. PICK j \in 1..n : cells[j] = run.symbol
    BY <1>4, <2>2
  <2>4. j \in 1..k /\ run.symbol # "WILD"
    BY <1>2, <1>4, <1>7, <2>2, SymbolsAre
  <2>5. QED
    BY <1>7, <2>2, <2>3, <2>4
<1>8. QED
  BY <1>2, <1>5, <1>6, <1>7 DEF run

---------------------------------------------------------------------------
(* The reels of the video slot.                                            *)

\* Where a strip of length n shows, above, at and below its stop.
Shown(stop, row, n) == ((stop + row - 1 + n) % n) + 1

\* The three cells of a reel are three places of its strip.
LEMMA WindowIsOnStrip ==
    ASSUME NEW stop \in Int, NEW n \in {20, 21, 22}
    PROVE  /\ \A row \in 0..2 : Shown(stop, row, n) \in 1..n
           /\ \A a, b \in 0..2 : Shown(stop, a, n) = Shown(stop, b, n) => a = b
<1>1. CASE n = 20
  BY <1>1 DEF Shown
<1>2. CASE n = 21
  BY <1>2 DEF Shown
<1>3. CASE n = 22
  BY <1>3 DEF Shown
<1>4. QED
  BY <1>1, <1>2, <1>3

\* Where the strips have their scatter.
ScatterAt == <<13, 15, 15, 16, 16>>

\* The strips are of 20 to 22 symbols, one of them the scatter.
LEMMA StripsAre ==
    \A r \in 0..4 : LET strip == Strips[r+1]
                    IN /\ Len(strip) \in {20, 21, 22}
                       /\ \A i \in 1..Len(strip) :
                             /\ strip[i] \in VideoSymbols
                             /\ strip[i] = "SCATTER" <=> i = ScatterAt[r+1]
<1> DEFINE Fine(r) == LET strip == Strips[r+1]
                      IN /\ Len(strip) \in {20, 21, 22}
                         /\ \A i \in 1..Len(strip) :
                               /\ strip[i] \in VideoSymbols
                               /\ strip[i] = "SCATTER" <=> i = ScatterAt[r+1]
<1>1. Fine(0)
  BY SymbolsAre DEF Strips, ScatterAt, PayingSymbols
<1>2. Fine(1)
  BY SymbolsAre DEF Strips, ScatterAt, PayingSymbols
<1>3. Fine(2)
  BY SymbolsAre DEF Strips, ScatterAt, PayingSymbols
<1>4. Fine(3)
  BY SymbolsAre DEF Strips, ScatterAt, PayingSymbols
<1>5. Fine(4)
  BY SymbolsAre DEF Strips, ScatterAt, PayingSymbols
<1> HIDE DEF Fine
<1>6. \A r \in 0..4 : Fine(r)
  <2>1. \A r \in 0..4 : r = 0 \/ r = 1 \/ r = 2 \/ r = 3 \/ r = 4
    OBVIOUS
  <2>2. QED
    BY <1>1, <1>2, <1>3, <1>4, <1>5, <2>1
<1>7. QED
  BY <1>6 DEF Fine

\* A value chooses among n by its part of the resolution.
LEMMA NextIntIsInt ==
    ASSUME NEW v \in Int, NEW n \in Int
    PROVE  NextInt(v, n) \in Int
<1>1. v * n \in Int /\ Resolution \in Int /\ Resolution > 0
  BY ResolutionIsPositive
<1>2. \A x \in Int : x \div Resolution \in Int
  BY <1>1
<1>3. QED
  BY <1>1, <1>2 DEF NextInt

\* The reels show symbols, and one scatter each at most.
LEMMA VideoGridIs ==
    ASSUME NEW d \in [1..5 -> 0..Resolution-1]
    PROVE  /\ VideoGrid(d) \in Grids(5, VideoSymbols)
           /\ \A reel \in 0..4 : \A a, b \in 0..2 :
                 VideoGrid(d)[reel][a] = "SCATTER" /\ VideoGrid(d)[reel][b] = "SCATTER" => a = b
<1> DEFINE stop(r) == NextInt(d[r+1], Len(Strips[r+1]))
           cell(r, row) == Strips[r+1][Shown(stop(r), row, Len(Strips[r+1]))]
<1>1. VideoGrid(d) = [r \in 0..4 |-> [row \in 0..2 |-> cell(r, row)]]
  BY DEF VideoGrid, Shown
<1>2. ASSUME NEW r \in 0..4
      PROVE  /\ \A row \in 0..2 : cell(r, row) \in VideoSymbols
             /\ \A a, b \in 0..2 : cell(r, a) = "SCATTER" /\ cell(r, b) = "SCATTER" => a = b
  <2> DEFINE n == Len(Strips[r+1])
             s == stop(r)
  <2>1. n \in {20, 21, 22} /\ \A i \in 1..n : /\ Strips[r+1][i] \in VideoSymbols
                                              /\ Strips[r+1][i] = "SCATTER" <=> i = ScatterAt[r+1]
    BY StripsAre
  <2>2. d[r+1] \in Int /\ n \in Int
    BY <2>1, ResolutionIsPositive
  <2>3. s \in Int
    <3>1. s = NextInt(d[r+1], n)
      OBVIOUS
    <3> HIDE DEF s, n
    <3>2. QED
      BY <2>2, <3>1, NextIntIsInt
  <2> HIDE DEF n, s
  <2>4. /\ \A row \in 0..2 : Shown(s, row, n) \in 1..n
        /\ \A a, b \in 0..2 : Shown(s, a, n) = Shown(s, b, n) => a = b
    BY <2>1, <2>3, WindowIsOnStrip
  <2>5. \A row \in 0..2 : cell(r, row) = Strips[r+1][Shown(s, row, n)]
    BY DEF s, n
  <2> HIDE DEF cell
  <2>6. QED
    BY <2>1, <2>4, <2>5
<1> HIDE DEF cell
<1>3. VideoGrid(d) \in [0..4 -> [0..2 -> VideoSymbols]]
  BY <1>1, <1>2
<1>4. QED
  BY <1>1, <1>2, <1>3 DEF Grids

\* Then the scatters that show are the reels that show one.
LEMMA ScattersOnReels ==
    ASSUME NEW g \in Grids(5, VideoSymbols),
           \A reel \in 0..4 : \A a, b \in 0..2 :
              g[reel][a] = "SCATTER" /\ g[reel][b] = "SCATTER" => a = b
    PROVE  /\ CountScatters(g) = Cardinality({reel \in 0..4 : "SCATTER" \in Range(g[reel])})
           /\ CountScatters(g) \in 0..5
<1> DEFINE C == {cell \in (0..4) \X (0..2) : g[cell[1]][cell[2]] = "SCATTER"}
           R == {reel \in 0..4 : "SCATTER" \in Range(g[reel])}
           f == [cell \in C |-> cell[1]]
<1>1. \A reel \in 0..4 : DOMAIN g[reel] = 0..2
  BY DEF Grids
<1>2. IsFiniteSet(0..4) /\ IsFiniteSet(0..2) /\ Cardinality(0..4) = 5
  <2>1. IsFiniteSet(0..4) /\ Cardinality(0..4) = IF 0 > 4 THEN 0 ELSE 4 - 0 + 1
    BY FS_Interval, 0 \in Int, 4 \in Int
  <2>2. IsFiniteSet(0..2)
    BY FS_Interval, 0 \in Int, 2 \in Int
  <2>3. QED
    BY <2>1, <2>2
<1>3. IsFiniteSet(C) /\ IsFiniteSet(R) /\ Cardinality(R) <= 5
  <2>1. C \subseteq (0..4) \X (0..2) /\ R \subseteq 0..4
    OBVIOUS
  <2>2. IsFiniteSet((0..4) \X (0..2))
    BY <1>2, FS_Product
  <2> HIDE DEF C, R
  <2>3. IsFiniteSet(C)
    BY <2>1, <2>2, FS_Subset
  <2>4. IsFiniteSet(R) /\ Cardinality(R) <= Cardinality(0..4)
    BY <1>2, <2>1, FS_Subset
  <2>5. QED
    BY <1>2, <2>3, <2>4
<1>4. f \in [C -> R]
  <2>1. \A cell \in C : cell[1] \in 0..4 /\ cell[2] \in 0..2 /\ g[cell[1]][cell[2]] = "SCATTER"
    OBVIOUS
  <2>2. \A cell \in C : cell[1] \in R
    BY <1>1, <2>1 DEF Range
  <2>3. QED
    BY <2>2
<1>5. \A c1, c2 \in C : f[c1] = f[c2] => c1 = c2
  <2>1. \A c \in C : /\ c = <<c[1], c[2]>> /\ c[1] \in 0..4 /\ c[2] \in 0..2
                     /\ g[c[1]][c[2]] = "SCATTER" /\ f[c] = c[1]
    OBVIOUS
  <2>2. QED
    BY <2>1
<1>6. \A r \in R : \E c \in C : f[c] = r
  <2>1. ASSUME NEW r \in R
        PROVE  \E c \in C : f[c] = r
    <3>1. PICK row \in 0..2 : g[r][row] = "SCATTER"
      BY <1>1 DEF Range
    <3>2. <<r, row>> \in C /\ f[<<r, row>>] = r
      BY <3>1
    <3>3. QED
      BY <3>2
  <2>2. QED
    BY <2>1
<1>7. f \in Surjection(C, R) /\ f \in Injection(C, R)
  <2>1. DOMAIN f = C
    OBVIOUS
  <2> HIDE DEF C, R, f
  <2>2. QED
    BY <1>4, <1>5, <1>6, <2>1 DEF Surjection, Injection, IsInjective
<1>8. Cardinality(R) = Cardinality(C)
  BY <1>3, <1>7, FS_Surjection
<1>9. Cardinality(C) \in Nat
  BY <1>3, FS_CardinalityType
<1>10. CountScatters(g) = Cardinality(C)
  BY DEF CountScatters
<1> HIDE DEF C, R, f
<1>11. CountScatters(g) = Cardinality(R) /\ CountScatters(g) \in 0..5
  BY <1>3, <1>8, <1>9, <1>10
<1>12. QED
  BY <1>11 DEF R

---------------------------------------------------------------------------
(* What a round of the video slot returns.                                 *)

\* The twenty lines have a row on each of the five reels.
LEMMA LinesAre ==
    /\ Len(Lines) = 20
    /\ \A i \in 1..20 : Lines[i] \in [1..5 -> 0..2] /\ Len(Lines[i]) = 5
BY DEF Lines

\* A line of a grid is five of its symbols.
LEMMA CellsAre ==
    ASSUME NEW g \in Grids(5, VideoSymbols), NEW i \in 1..20
    PROVE  Cells(g, Lines[i]) \in [1..5 -> VideoSymbols] /\ Len(Cells(g, Lines[i])) = 5
<1>1. Lines[i] \in [1..5 -> 0..2] /\ Len(Lines[i]) = 5
  BY LinesAre
<1>2. Cells(g, Lines[i]) = [reel \in 1..5 |-> g[reel-1][Lines[i][reel]]]
  BY <1>1 DEF Cells
<1>3. \A reel \in 1..5 : g[reel-1][Lines[i][reel]] \in VideoSymbols
  BY <1>1 DEF Grids
<1>4. Cells(g, Lines[i]) \in [1..5 -> VideoSymbols]
  BY <1>2, <1>3
<1>5. QED
  BY <1>4

\* The tables' prizes.
LEMMA PrizesAre ==
    /\ \A s \in PayingSymbols, n \in 3..5 : LinePays[s][n-2] \in 0..600
    /\ \A n \in 3..5 : /\ ScatterPays[n-2] \in 0..60
                       /\ ScatterFreeSpins[n-2] \in Range(ScatterFreeSpins)
    /\ Range(ScatterFreeSpins) \subseteq Nat
<1>1. \A n \in 3..5 : n = 3 \/ n = 4 \/ n = 5
  OBVIOUS
<1>2. \A s \in PayingSymbols :
         LinePays[s][1] \in 0..600 /\ LinePays[s][2] \in 0..600 /\ LinePays[s][3] \in 0..600
  BY DEF LinePays, PayingSymbols
<1>3. \A s \in PayingSymbols, n \in 3..5 : LinePays[s][n-2] \in 0..600
  BY <1>1, <1>2
<1>4. \A n \in 3..5 : /\ ScatterPays[n-2] \in 0..60
                      /\ ScatterFreeSpins[n-2] \in Range(ScatterFreeSpins)
  <2>1. \A n \in 3..5 : ScatterPays[n-2] \in 0..60 /\ n - 2 \in DOMAIN ScatterFreeSpins
    BY <1>1 DEF ScatterPays, ScatterFreeSpins
  <2>2. QED
    BY <2>1 DEF Range
<1>5. Range(ScatterFreeSpins) \subseteq Nat
  BY DEF Range, ScatterFreeSpins
<1>6. QED
  BY <1>3, <1>4, <1>5

\* A sum is at most the number of its terms times what each is at most.
LEMMA SumBound ==
    ASSUME NEW f, NEW S, IsFiniteSet(S), NEW m \in Nat, \A x \in S : f[x] \in 0..m
    PROVE  SumFunctionOnSet(f, S) \in Nat /\ SumFunctionOnSet(f, S) <= Cardinality(S) * m
<1> DEFINE sum(s) == SumFunctionOnSet(f, s)
           Good == {s \in SUBSET S : sum(s) <= Cardinality(s) * m}
<1>1. \A s \in SUBSET S : IsFiniteSet(s) /\ Cardinality(s) \in Nat /\ sum(s) \in Int
  BY FS_Subset, FS_CardinalityType, SumType
<1>2. ASSUME NEW s \in SUBSET S, \A x \in s : s \ {x} \in Good
      PROVE  s \in Good
  <2>1. CASE s = {}
    <3>1. sum(s) = 0 /\ Cardinality(s) = 0
      BY <1>1, <2>1, SumDef, FS_EmptySet
    <3>2. QED
      BY <3>1
  <2>2. CASE s # {}
    <3>1. PICK x \in s : TRUE
      BY <2>2
    <3>2. sum(s) = f[x] + sum(s \ {x})
      BY <1>1, SumRemove
    <3>3. Cardinality(s) = Cardinality(s \ {x}) + 1
      <4>1. Cardinality(s \ {x}) = Cardinality(s) - 1 /\ Cardinality(s) \in Nat
        BY <1>1, FS_RemoveElement
      <4>2. QED
        BY <4>1
    <3>4. sum(s \ {x}) <= Cardinality(s \ {x}) * m
      BY <1>2
    <3>5. s \ {x} \in SUBSET S /\ f[x] \in 0..m
      OBVIOUS
    <3> DEFINE c == Cardinality(s \ {x})
    <3>6. c \in Nat /\ sum(s \ {x}) \in Int
      BY <1>1, <3>5
    <3>7. (c + 1) * m = c * m + m /\ c * m \in Int
      BY <3>6
    <3> HIDE DEF sum, c
    <3>8. f[x] + sum(s \ {x}) <= c * m + m
      BY <3>4, <3>5, <3>6, <3>7 DEF c
    <3>9. sum(s) <= Cardinality(s) * m
      BY <3>2, <3>3, <3>7, <3>8 DEF c
    <3>10. QED
      BY <3>9
  <2>3. QED
    BY <2>1, <2>2
<1>3. \A s \in SUBSET S : s \in Good
  BY <1>2, SubsetInduction
<1>4. sum(S) \in Nat
  BY SumNat
<1>5. QED
  BY <1>3, <1>4

\* The run of a line, the lines that win, and what they win.
LineRun(g, i) == Run(Cells(g, Lines[i]))
\* The lines that win.
Won(g, lines) == {i \in 1..lines : LineRun(g, i).count >= 3}
\* What a line wins.
Wins(g, bet, i) == bet * LinePays[PaySymbol(LineRun(g, i))][LineRun(g, i).count - 2]
\* What the scatters win, by their table.
Prize(n, table) == IF n >= 3 THEN table[Min({n, 5}) - 2] ELSE 0

\* The result, part by part.
LEMMA VideoResultIs ==
    ASSUME NEW g, NEW bet, NEW lines
    PROVE  LET e == EvaluateVideo(g, bet, lines)
           IN /\ DOMAIN e.wins = Won(g, lines)
              /\ \A i \in Won(g, lines) :
                    e.wins[i] = [symbol |-> PaySymbol(LineRun(g, i)), count |-> LineRun(g, i).count,
                                 win |-> Wins(g, bet, i)]
              /\ e.scatters = CountScatters(g)
              /\ e.freeSpins = Prize(CountScatters(g), ScatterFreeSpins)
              /\ e.payout = SumFunction([i \in Won(g, lines) |-> Wins(g, bet, i)])
                               + bet * lines * Prize(CountScatters(g), ScatterPays)
<1> DEFINE run == [i \in 1..lines |-> Run(Cells(g, Lines[i]))]
           won == {i \in 1..lines : run[i].count >= 3}
           w == [i \in won |-> LET s == PaySymbol(run[i]) n == run[i].count
                               IN [symbol |-> s, count |-> n, win |-> bet * LinePays[s][n - 2]]]
           sc == CountScatters(g)
           prize(table) == IF sc >= 3 THEN table[Min({sc, 5}) - 2] ELSE 0
<1>1. EvaluateVideo(g, bet, lines) =
        [wins |-> w, scatters |-> sc, freeSpins |-> prize(ScatterFreeSpins),
         payout |-> SumFunction([i \in won |-> w[i].win]) + bet * lines * prize(ScatterPays)]
  BY DEF EvaluateVideo
<1>2. \A i \in 1..lines : run[i] = LineRun(g, i)
  BY DEF LineRun
<1>3. won = Won(g, lines)
  BY <1>2 DEF Won
<1>4. \A i \in won : w[i] = [symbol |-> PaySymbol(LineRun(g, i)), count |-> LineRun(g, i).count,
                             win |-> Wins(g, bet, i)]
  BY <1>2 DEF Wins
<1>5. DOMAIN w = won
  OBVIOUS
<1>6. /\ prize(ScatterFreeSpins) = Prize(sc, ScatterFreeSpins)
      /\ prize(ScatterPays) = Prize(sc, ScatterPays)
  BY DEF Prize
<1> HIDE DEF run, won, w, sc, prize
<1>7. [i \in won |-> w[i].win] = [i \in won |-> Wins(g, bet, i)]
  <2>1. ASSUME NEW i \in won
        PROVE  w[i].win = Wins(g, bet, i)
    <3>1. w[i] = [symbol |-> PaySymbol(LineRun(g, i)), count |-> LineRun(g, i).count,
                  win |-> Wins(g, bet, i)]
      BY <1>4
    <3>2. QED
      BY <3>1
  <2>2. QED
    BY <2>1
<1>8. QED
  BY <1>1, <1>3, <1>4, <1>5, <1>6, <1>7 DEF sc

\* The same, of the lines alone.
LEMMA VideoWinsAre ==
    ASSUME NEW g, NEW bet, NEW lines
    PROVE  /\ DOMAIN EvaluateVideo(g, bet, lines).wins = Won(g, lines)
           /\ \A i \in Won(g, lines) :
                 EvaluateVideo(g, bet, lines).wins[i] =
                    [symbol |-> PaySymbol(LineRun(g, i)), count |-> LineRun(g, i).count,
                     win |-> Wins(g, bet, i)]
BY VideoResultIs

\* Three to five scatters are in the tables.
LEMMA PrizeIs ==
    ASSUME NEW n \in 0..5, NEW table
    PROVE  Prize(n, table) = IF n < 3 THEN 0 ELSE table[n - 2]
<1>1. n >= 3 => Min({n, 5}) = n
  <2>1. n >= 3 => n \in {n, 5} /\ \A y \in {n, 5} : n <= y
    OBVIOUS
  <2>2. \A x \in {n, 5} : (\A y \in {n, 5} : x <= y) => n >= x
    OBVIOUS
  <2>3. QED
    BY <2>1, <2>2 DEF Min
<1>2. QED
  BY <1>1 DEF Prize

\* What a line wins, and what it wins at most.
LEMMA WinsAre ==
    ASSUME NEW g \in Grids(5, VideoSymbols), NEW bet \in Nat, NEW lines \in 1..20,
           NEW i \in Won(g, lines)
    PROVE  Wins(g, bet, i) \in 0..bet * 600
<1> DEFINE cells == Cells(g, Lines[i])
           s == PaySymbol(LineRun(g, i))
           n == LineRun(g, i).count
<1>1. cells \in [1..5 -> VideoSymbols] /\ Len(cells) = 5
  BY CellsAre DEF Won
<1>2. n \in 3..5 /\ s \in PayingSymbols
  BY <1>1, RunIsLongest DEF LineRun, Won
<1> DEFINE p == LinePays[s][n-2]
<1>3. p \in 0..600
  BY <1>2, PrizesAre
<1>4. Wins(g, bet, i) = bet * p
  BY DEF Wins
<1> HIDE DEF p
<1>5. bet * p \in 0..bet * 600
  <2>1. 600 - p \in Nat /\ bet * (600 - p) \in Nat /\ bet * p \in Nat
    BY <1>3
  <2>2. bet * 600 = bet * p + bet * (600 - p)
    BY <1>3
  <2>3. QED
    BY <2>1, <2>2
<1>6. QED
  BY <1>4, <1>5

\* The video slot's payout has its ceiling: every line and the scatters pay their best.
Most(bet, lines) == bet * lines * (600 + 60)

\* The lines and the scatters stay under the ceiling together.
LEMMA VideoCeiling ==
    ASSUME NEW g \in Grids(5, VideoSymbols), CountScatters(g) \in 0..5,
           NEW bet \in Nat, NEW lines \in 1..20
    PROVE  /\ EvaluateVideo(g, bet, lines).payout \in Nat
           /\ EvaluateVideo(g, bet, lines).payout <= Most(bet, lines)
<1> DEFINE W == Won(g, lines)
           f == [i \in W |-> Wins(g, bet, i)]
           sum == SumFunctionOnSet(f, W)
           p == Prize(CountScatters(g), ScatterPays)
           c == Cardinality(W)
<1>1. EvaluateVideo(g, bet, lines).payout = sum + bet * lines * p
  <2>1. SumFunction(f) = sum
    BY SumIsOnDomain
  <2>2. QED
    BY <2>1, VideoResultIs
<1>2. p \in 0..60
  BY PrizeIs, PrizesAre
<1>3. IsFiniteSet(W) /\ c \in 0..lines
  <2>1. W \subseteq 1..lines
    BY DEF Won
  <2>2. IsFiniteSet(1..lines) /\ Cardinality(1..lines) = IF 1 > lines THEN 0 ELSE lines - 1 + 1
    BY FS_Interval, 1 \in Int, lines \in Int
  <2> HIDE DEF W
  <2>3. IsFiniteSet(W) /\ c \in Nat /\ c <= Cardinality(1..lines)
    BY <2>1, <2>2, FS_Subset, FS_CardinalityType
  <2>4. QED
    BY <2>2, <2>3
<1>4. \A i \in W : f[i] \in 0..bet * 600
  BY WinsAre
<1> HIDE DEF f, W, p
<1>5. sum \in Nat /\ sum <= c * (bet * 600)
  BY <1>3, <1>4, SumBound
<1> HIDE DEF sum, c
<1>6. c * (bet * 600) <= lines * (bet * 600)
  <2> DEFINE m == bet * 600
  <2>1. m \in Nat /\ lines - c \in Nat
    BY <1>3
  <2> HIDE DEF m
  <2>2. (lines - c) * m \in Nat /\ lines * m = c * m + (lines - c) * m /\ c * m \in Nat
    BY <1>3, <2>1
  <2>3. c * m <= lines * m
    BY <2>2
  <2>4. QED
    BY <2>3 DEF m
<1> DEFINE total == bet * lines
<1>7. total \in Nat /\ lines * (bet * 600) = total * 600
  OBVIOUS
<1> HIDE DEF total
<1>8. total * p \in Nat /\ total * p <= total * 60
  <2>1. (60 - p) \in Nat /\ total * (60 - p) \in Nat /\ total * 60 = total * p + total * (60 - p)
        /\ total * p \in Nat
    BY <1>2, <1>7
  <2>2. QED
    BY <2>1
<1>9. sum <= total * 600 /\ total * 600 + total * 60 = total * (600 + 60)
  <2>1. c * (bet * 600) \in Int /\ lines * (bet * 600) \in Int
    BY <1>3
  <2>2. QED
    BY <1>5, <1>6, <1>7, <2>1
<1>10. QED
  BY <1>1, <1>5, <1>7, <1>8, <1>9 DEF total, Most

---------------------------------------------------------------------------
(* What a round of the classic slot returns.                               *)

\* The tables fit each other: every symbol has its place and pays at most 201.
LEMMA ClassicTablesAre ==
    /\ DOMAIN ClassicSymbols = 1..6 /\ ClassicSymbols \in [1..6 -> Range(ClassicSymbols)]
    /\ "WILD" \in Range(ClassicSymbols) /\ "none" \notin Range(ClassicSymbols)
    /\ Len(ClassicLines) = 5
    /\ \A i \in 1..5 : ClassicLines[i] \in [1..3 -> 0..2] /\ Len(ClassicLines[i]) = 3
    /\ \A s \in Range(ClassicSymbols) : ClassicPays[s] \in 0..201
<1>1. Range(ClassicSymbols) = {"CHERRY", "LEMON", "BELL", "STAR", "SEVEN", "WILD"}
  BY DEF ClassicSymbols, Range
<1>2. DOMAIN ClassicSymbols = 1..6 /\ ClassicSymbols \in [1..6 -> Range(ClassicSymbols)]
  BY DEF ClassicSymbols, Range
<1>3. Len(ClassicLines) = 5
      /\ \A i \in 1..5 : ClassicLines[i] \in [1..3 -> 0..2] /\ Len(ClassicLines[i]) = 3
  BY DEF ClassicLines
<1>4. \A s \in Range(ClassicSymbols) : ClassicPays[s] \in 0..201
  BY <1>1 DEF ClassicPays
<1>5. QED
  BY <1>1, <1>2, <1>3, <1>4

\* The grid's cells are drawn by their shares.
LEMMA ClassicGridIs ==
    ASSUME NEW d \in [1..9 -> 0..Resolution-1]
    PROVE  /\ ClassicGrid(d) \in Grids(3, Range(ClassicSymbols))
           /\ \A col \in 0..2, row \in 0..2 : \E i \in 1..6 :
                 /\ ClassicSymbols[i] = ClassicGrid(d)[col][row]
                 /\ Below(i-1) * Resolution <= d[3 * col + row + 1] * 100
                 /\ d[3 * col + row + 1] * 100 < Below(i) * Resolution
<1> DEFINE place(col, row) == 3 * col + row + 1
           cell(col, row) == ClassicSymbols[WeightedIndex(d[place(col, row)], ClassicWeights)]
<1>1. ClassicGrid(d) = [col \in 0..2 |-> [row \in 0..2 |-> cell(col, row)]]
  BY DEF ClassicGrid
<1>2. \A col \in 0..2, row \in 0..2 : place(col, row) \in 1..9
  OBVIOUS
<1> HIDE DEF place
<1>3. ASSUME NEW col \in 0..2, NEW row \in 0..2
      PROVE  /\ cell(col, row) \in Range(ClassicSymbols)
             /\ \E i \in 1..6 : /\ ClassicSymbols[i] = cell(col, row)
                                /\ Below(i-1) * Resolution <= d[place(col, row)] * 100
                                /\ d[place(col, row)] * 100 < Below(i) * Resolution
  <2>1. d[place(col, row)] \in 0..Resolution-1
    BY <1>2
  <2> DEFINE v == d[place(col, row)]
             j == WeightedIndex(v, ClassicWeights)
  <2>2. /\ j \in 1..6 /\ Below(j-1) * Resolution <= v * 100
        /\ v * 100 < Below(j) * Resolution
    BY <2>1, IndexIsInShare
  <2>3. ClassicSymbols[j] \in Range(ClassicSymbols)
    BY <2>2, ClassicTablesAre
  <2>4. cell(col, row) = ClassicSymbols[j]
    OBVIOUS
  <2> HIDE DEF cell, j
  <2>5. QED
    BY <2>2, <2>3, <2>4
<1>4. \A col \in 0..2, row \in 0..2 : ClassicGrid(d)[col][row] = cell(col, row)
  BY <1>1
<1>5. ClassicGrid(d) \in Grids(3, Range(ClassicSymbols))
  <2> HIDE DEF cell
  <2>1. QED
    BY <1>1, <1>3 DEF Grids
<1> HIDE DEF cell
<1>6. QED
  BY <1>3, <1>4, <1>5 DEF place

\* A line pays as a symbol, or not at all.
LEMMA LinePaysAsSymbol ==
    ASSUME NEW cells, NEW S, Range(cells) \subseteq S, "WILD" \in S
    PROVE  ResolveLineSymbol(cells) \in S \cup {"none"}
<1> DEFINE nonWild == Range(cells) \ {"WILD"}
<1>1. CASE nonWild = {}
  <2>1. Cardinality(nonWild) # 1
    BY <1>1, FS_EmptySet
  <2>2. QED
    BY <1>1, <2>1 DEF ResolveLineSymbol
<1>2. CASE nonWild # {} /\ Cardinality(nonWild) = 1
  <2>1. ResolveLineSymbol(cells) = CHOOSE c \in nonWild : TRUE
    BY <1>2 DEF ResolveLineSymbol
  <2>2. (CHOOSE c \in nonWild : TRUE) \in nonWild
    BY <1>2
  <2>3. QED
    BY <2>1, <2>2
<1>3. CASE nonWild # {} /\ Cardinality(nonWild) # 1
  BY <1>3 DEF ResolveLineSymbol
<1>4. QED
  BY <1>1, <1>2, <1>3

LineSymbol(g, i) == ResolveLineSymbol(Cells(g, ClassicLines[i]))
\* The lines that win.
ClassicWon(g) == {i \in 1..5 : LineSymbol(g, i) # "none"}

\* The result, part by part.
LEMMA ClassicResultIs ==
    ASSUME NEW g, NEW stake
    PROVE  LET e == EvaluateClassic(g, stake)
           IN /\ e.freeSpins = 0
              /\ DOMAIN e.wins = ClassicWon(g)
              /\ \A i \in ClassicWon(g) :
                    e.wins[i].win = LineStake(stake) * ClassicPays[LineSymbol(g, i)]
              /\ e.payout = SumFunction([i \in ClassicWon(g) |->
                                           LineStake(stake) * ClassicPays[LineSymbol(g, i)]])
<1> DEFINE symbol(i) == ResolveLineSymbol(Cells(g, ClassicLines[i]))
           won == {i \in 1..Len(ClassicLines) : symbol(i) # "none"}
           w == [i \in won |-> [symbol |-> symbol(i), count |-> 3,
                                win |-> LineStake(stake) * ClassicPays[symbol(i)]]]
<1>1. EvaluateClassic(g, stake) =
        [wins |-> w, scatters |-> 0, freeSpins |-> 0,
         payout |-> SumFunction([i \in won |-> w[i].win])]
  BY DEF EvaluateClassic
<1>2. won = ClassicWon(g)
  BY ClassicTablesAre DEF ClassicWon, LineSymbol
<1>3. DOMAIN w = won /\ \A i \in won : w[i].win = LineStake(stake) * ClassicPays[LineSymbol(g, i)]
  BY DEF LineSymbol
<1> HIDE DEF won, w
<1>4. [i \in won |-> w[i].win] = [i \in won |-> LineStake(stake) * ClassicPays[LineSymbol(g, i)]]
  BY <1>3
<1>5. QED
  BY <1>1, <1>2, <1>3, <1>4

\* A line of a classic grid shows symbols of the slot.
LEMMA ClassicCellsAre ==
    ASSUME NEW g \in Grids(3, Range(ClassicSymbols)), NEW i \in 1..5
    PROVE  /\ Range(Cells(g, ClassicLines[i])) \subseteq Range(ClassicSymbols)
           /\ Range(Cells(g, ClassicLines[i])) # {}
           /\ IsFiniteSet(Range(Cells(g, ClassicLines[i])))
<1> DEFINE cells == Cells(g, ClassicLines[i])
<1>1. ClassicLines[i] \in [1..3 -> 0..2] /\ Len(ClassicLines[i]) = 3
  BY ClassicTablesAre
<1>2. cells = [reel \in 1..3 |-> g[reel-1][ClassicLines[i][reel]]]
  BY <1>1 DEF Cells
<1>3. \A reel \in 1..3 : g[reel-1][ClassicLines[i][reel]] \in Range(ClassicSymbols)
  BY <1>1 DEF Grids
<1>4. Range(cells) \subseteq Range(ClassicSymbols)
  BY <1>2, <1>3 DEF Range
<1>5. cells[1] \in Range(cells)
  BY <1>2 DEF Range
<1>6. IsFiniteSet(Range(cells))
  <2>1. Range(cells) = ({cells[1]} \cup {cells[2]}) \cup {cells[3]}
    BY <1>2 DEF Range
  <2> HIDE DEF cells
  <2>2. IsFiniteSet({cells[1]} \cup {cells[2]})
    BY FS_Singleton, FS_AddElement
  <2>3. IsFiniteSet(({cells[1]} \cup {cells[2]}) \cup {cells[3]})
    BY <2>2, FS_AddElement
  <2>4. QED
    BY <2>1, <2>3
<1>7. QED
  BY <1>4, <1>5, <1>6

\* The classic slot's payout has its ceiling.
LEMMA ClassicCeiling ==
    ASSUME NEW g \in Grids(3, Range(ClassicSymbols)), NEW stake \in Nat
    PROVE  /\ EvaluateClassic(g, stake).payout \in Nat
           /\ EvaluateClassic(g, stake).payout <= stake * 201
<1> DEFINE W == ClassicWon(g)
           share == LineStake(stake)
           f == [i \in W |-> share * ClassicPays[LineSymbol(g, i)]]
           sum == SumFunctionOnSet(f, W)
           c == Cardinality(W)
<1>1. EvaluateClassic(g, stake).payout = sum
  BY SumIsOnDomain, ClassicResultIs
<1>2. share \in Nat /\ 5 * share <= stake
  BY ClassicTablesAre DEF LineStake
<1>3. IsFiniteSet(W) /\ c \in 0..5
  <2>1. W \subseteq 1..5
    BY DEF ClassicWon
  <2>2. IsFiniteSet(1..5) /\ Cardinality(1..5) = IF 1 > 5 THEN 0 ELSE 5 - 1 + 1
    BY FS_Interval, 1 \in Int, 5 \in Int
  <2> HIDE DEF W
  <2>3. IsFiniteSet(W) /\ c \in Nat /\ c <= Cardinality(1..5)
    BY <2>1, <2>2, FS_Subset, FS_CardinalityType
  <2>4. QED
    BY <2>2, <2>3
<1>4. ASSUME NEW i \in W
      PROVE  f[i] \in 0..share * 201
  <2> DEFINE p == ClassicPays[LineSymbol(g, i)]
  <2>1. i \in 1..5
    BY DEF ClassicWon
  <2>2. LineSymbol(g, i) \in Range(ClassicSymbols)
    BY <2>1, ClassicCellsAre, ClassicTablesAre, LinePaysAsSymbol DEF ClassicWon, LineSymbol
  <2>3. p \in 0..201
    BY <2>2, ClassicTablesAre
  <2>4. f[i] = share * p
    OBVIOUS
  <2> HIDE DEF p, share, f, W
  <2>5. 201 - p \in Nat /\ share * (201 - p) \in Nat /\ share * p \in Nat
        /\ share * 201 = share * p + share * (201 - p)
    BY <1>2, <2>3
  <2>6. QED
    BY <2>4, <2>5
<1> HIDE DEF f, W, share
<1>5. sum \in Nat /\ sum <= c * (share * 201)
  <2>1. share * 201 \in Nat
    BY <1>2
  <2>2. QED
    BY <1>3, <1>4, <2>1, SumBound
<1> HIDE DEF sum, c
<1>6. c * (share * 201) <= 5 * (share * 201)
  <2> DEFINE m == share * 201
  <2>1. m \in Nat /\ 5 - c \in Nat
    BY <1>2, <1>3
  <2> HIDE DEF m
  <2>2. (5 - c) * m \in Nat /\ 5 * m = c * m + (5 - c) * m /\ c * m \in Nat
    BY <1>3, <2>1
  <2>3. c * m <= 5 * m
    BY <2>2
  <2>4. QED
    BY <2>3 DEF m
<1>7. sum <= stake * 201
  <2>1. c * (share * 201) \in Int
    BY <1>2, <1>3
  <2>2. QED
    BY <1>2, <1>5, <1>6, <2>1
<1>8. QED
  BY <1>1, <1>5, <1>7

---------------------------------------------------------------------------
(* The theorems of the games.                                              *)

\* A round that was played was accepted, and returns what its game makes of the draws.
GameInv ==
    /\ call \in Orders /\ reply \in {"none", "refused", "played"}
    /\ reply # "played" => draws = <<>> /\ grid = NoGrid /\ result = NoResult
    /\ reply = "played" => Accepted(call)
    /\ Played(Classic) => /\ draws \in ClassicDraws /\ grid = ClassicGrid(draws)
                          /\ result = EvaluateClassic(grid, call.stake)
    /\ Played(Video) => /\ draws \in VideoDraws /\ grid = VideoGrid(draws)
                        /\ result = EvaluateVideo(grid, call.lineBet, call.lines)

\* What a game returns is a function of what its round was asked and drew.
THEOREM RoundsAreEvaluated == GameSpec => []GameInv
<1>1. GameInit => GameInv
  BY DEF GameInit, GameInv, Played
<1>2. ASSUME GameInv, [GameNext]_gameVars
      PROVE  GameInv'
  <2>1. CASE Refuse
    BY <1>2, <2>1 DEF GameInv, Refuse, Played
  <2>2. CASE PlayClassic
    <3>1. Classic # Video
      BY DEF Classic, Video
    <3>2. QED
      BY <1>2, <2>2, <3>1 DEF GameInv, PlayClassic, Played, Accepted, ValidParams
  <2>3. CASE PlayVideo
    <3>1. Classic # Video
      BY DEF Classic, Video
    <3>2. QED
      BY <1>2, <2>3, <3>1 DEF GameInv, PlayVideo, Played, Accepted, ValidParams
  <2>4. CASE UNCHANGED gameVars
    BY <1>2, <2>4 DEF GameInv, gameVars, Played, Accepted, ValidParams
  <2>5. QED
    BY <1>2, <2>1, <2>2, <2>3, <2>4 DEF GameNext
<1>3. QED
  BY <1>1, <1>2, PTL DEF GameSpec

\* A classic round that was played.
LEMMA ClassicPlayed ==
    ASSUME GameInv, Played(Classic)
    PROVE  /\ draws \in [1..9 -> 0..Resolution-1] /\ call.stake \in Nat
           /\ grid = ClassicGrid(draws) /\ result = EvaluateClassic(grid, call.stake)
           /\ grid \in Grids(3, Range(ClassicSymbols))
<1>1. draws \in [1..9 -> 0..Resolution-1] /\ call.stake \in Nat
  BY DrawsAreValues, StakesAreDigits DEF GameInv
<1>2. QED
  BY <1>1, ClassicGridIs DEF GameInv

\* A round of the video slot that was played.
LEMMA VideoPlayed ==
    ASSUME GameInv, Played(Video)
    PROVE  /\ draws \in [1..5 -> 0..Resolution-1] /\ call.lineBet \in 1..100 /\ call.lines \in 1..20
           /\ grid = VideoGrid(draws) /\ result = EvaluateVideo(grid, call.lineBet, call.lines)
           /\ grid \in Grids(5, VideoSymbols)
           /\ CountScatters(grid) = Cardinality({reel \in 0..4 : "SCATTER" \in Range(grid[reel])})
           /\ CountScatters(grid) \in 0..5
<1>1. draws \in [1..5 -> 0..Resolution-1]
  BY DrawsAreValues DEF GameInv
<1>2. call.lineBet \in 1..100 /\ call.lines \in 1..20
  BY LinesAre DEF GameInv, Played, Accepted, ValidParams, MaxLineBet
<1>3. grid = VideoGrid(draws) /\ result = EvaluateVideo(grid, call.lineBet, call.lines)
  BY DEF GameInv
<1>4. /\ grid \in Grids(5, VideoSymbols)
      /\ \A reel \in 0..4 : \A a, b \in 0..2 :
            grid[reel][a] = "SCATTER" /\ grid[reel][b] = "SCATTER" => a = b
  BY <1>1, <1>3, VideoGridIs
<1>5. QED
  BY <1>1, <1>2, <1>3, <1>4, ScattersOnReels

\* The values of a round are what the tables allow.
LEMMA ResultsAreTyped ==
    ASSUME GameInv
    PROVE  ResultOK
<1>1. /\ call \in Orders /\ reply \in {"none", "refused", "played"}
      /\ reply # "played" => draws = <<>> /\ grid = NoGrid /\ result = NoResult
  BY DEF GameInv
<1>2. Classic # Video /\ (reply = "played" => Played(Classic) \/ Played(Video))
  BY DEF GameInv, Played, Accepted, Classic, Video
<1>3. draws \in {<<>>} \cup ClassicDraws \cup VideoDraws
  BY <1>1, <1>2 DEF GameInv
<1>4. ASSUME Played(Classic)
      PROVE  /\ grid \in Grids(3, Range(ClassicSymbols))
             /\ result.payout \in Nat /\ result.freeSpins = 0
  <2>1. /\ grid \in Grids(3, Range(ClassicSymbols)) /\ call.stake \in Nat
        /\ result = EvaluateClassic(grid, call.stake)
    BY <1>4, ClassicPlayed
  <2>2. result.payout \in Nat
    BY <2>1, ClassicCeiling
  <2>3. result.freeSpins = 0
    BY <2>1, ClassicResultIs
  <2>4. QED
    BY <2>1, <2>2, <2>3
<1>5. ASSUME Played(Video)
      PROVE  /\ grid \in Grids(5, VideoSymbols) /\ call.game # Classic
             /\ result.payout \in Nat /\ result.freeSpins \in {0} \cup Range(ScatterFreeSpins)
  <2>1. /\ grid \in Grids(5, VideoSymbols) /\ call.lineBet \in Nat /\ call.lines \in 1..20
        /\ result = EvaluateVideo(grid, call.lineBet, call.lines) /\ CountScatters(grid) \in 0..5
    BY <1>5, VideoPlayed
  <2>2. result.payout \in Nat
    BY <2>1, VideoCeiling
  <2>3. result.freeSpins = Prize(CountScatters(grid), ScatterFreeSpins)
    BY <2>1, VideoResultIs
  <2>4. result.freeSpins \in {0} \cup Range(ScatterFreeSpins)
    BY <2>1, <2>3, PrizeIs, PrizesAre
  <2>5. QED
    BY <1>2, <1>5, <2>1, <2>2, <2>4 DEF Played
<1>6. QED
  BY <1>1, <1>2, <1>3, <1>4, <1>5 DEF ResultOK, Played

\* The line is paid for its longest run: the run's own symbol pays it, no other has a longer one.
LEMMA RunsAreTheLongest ==
    ASSUME GameInv
    PROVE  RunsAreLongest
<1> SUFFICES ASSUME Played(Video), NEW i \in 1..call.lines
             PROVE  LET cells == Cells(grid, Lines[i])
                        of(s) == {k \in 0..5 : \A j \in 1..k : cells[j] \in {s, "WILD"}}
                        longest == Max(UNION {of(s) : s \in DOMAIN LinePays})
                        shown == {cells[j] : j \in 1..longest} \ {"WILD"}
                    IN /\ i \in DOMAIN result.wins <=> longest >= 3
                       /\ longest >= 3 => /\ result.wins[i].count = longest
                                          /\ {result.wins[i].symbol} =
                                               IF shown = {} THEN {"CROWN"} ELSE shown
  BY DEF RunsAreLongest
<1> DEFINE cells == Cells(grid, Lines[i])
           of(s) == {k \in 0..5 : \A j \in 1..k : cells[j] \in {s, "WILD"}}
           all == UNION {of(s) : s \in DOMAIN LinePays}
           shown(n) == {cells[j] : j \in 1..n} \ {"WILD"}
           run == Run(cells)
           n == run.count
<1>1. i \in 1..20 /\ grid \in Grids(5, VideoSymbols)
      /\ result = EvaluateVideo(grid, call.lineBet, call.lines)
  BY VideoPlayed
<1>2. cells \in [1..5 -> VideoSymbols] /\ Len(cells) = 5
  BY <1>1, CellsAre
<1> HIDE DEF cells
<1>3. /\ n \in 0..5 /\ PaySymbol(run) \in PayingSymbols
      /\ \A j \in 1..n : cells[j] \in {PaySymbol(run), "WILD"}
      /\ shown(n) = IF run.symbol = "none" THEN {} ELSE {PaySymbol(run)}
      /\ \A s \in PayingSymbols, k \in 0..5 : (\A j \in 1..k : cells[j] \in {s, "WILD"}) => k <= n
  BY <1>2, RunIsLongest
<1> HIDE DEF run
<1>4. Max(all) = n
  <2>1. n \in all /\ \A k \in all : k <= n /\ k \in Int
    BY <1>3, SymbolsAre
  <2> HIDE DEF all
  <2>2. n \in Int /\ (\A y \in all : n >= y)
    BY <2>1, <1>3
  <2>3. Max(all) \in all /\ \A y \in all : Max(all) >= y
    BY <2>1, <2>2 DEF Max
  <2>4. QED
    BY <2>1, <2>2, <2>3
<1>5. run.symbol = "none" => PaySymbol(run) = "CROWN"
  BY DEF PaySymbol
<1>6. LineRun(grid, i) = run
  BY DEF LineRun, run, cells
<1>7. i \in DOMAIN result.wins <=> n >= 3
  <2>1. DOMAIN EvaluateVideo(grid, call.lineBet, call.lines).wins = Won(grid, call.lines)
    BY VideoWinsAre
  <2>2. QED
    BY <1>1, <1>6, <2>1 DEF Won
<1>8. ASSUME n >= 3
      PROVE  result.wins[i].count = n /\ result.wins[i].symbol = PaySymbol(run)
  <2>1. i \in Won(grid, call.lines)
    BY <1>6, <1>8 DEF Won
  <2>2. EvaluateVideo(grid, call.lineBet, call.lines).wins[i] =
          [symbol |-> PaySymbol(LineRun(grid, i)), count |-> LineRun(grid, i).count,
           win |-> Wins(grid, call.lineBet, i)]
    BY <2>1, VideoWinsAre
  <2>3. QED
    BY <1>1, <1>6, <2>2
<1>9. {PaySymbol(run)} = IF shown(n) = {} THEN {"CROWN"} ELSE shown(n)
  BY <1>3, <1>5
<1> HIDE DEF n, all, shown
<1>10. /\ i \in DOMAIN result.wins <=> Max(all) >= 3
       /\ Max(all) >= 3 => /\ result.wins[i].count = Max(all)
                           /\ {result.wins[i].symbol} =
                                IF shown(Max(all)) = {} THEN {"CROWN"} ELSE shown(Max(all))
  BY <1>4, <1>7, <1>8, <1>9
<1>11. QED
  BY <1>10 DEF all, shown, cells

\* The run of the line without the wild is one of the line with it.
LEMMA WildsShortenNoRun ==
    ASSUME GameInv
    PROVE  WildsNeverShorten
<1> SUFFICES ASSUME Played(Video), NEW i \in 1..call.lines, NEW reel \in 1..5
             PROVE  LET cells == Cells(grid, Lines[i])
                    IN Run([cells EXCEPT ![reel] = "WILD"]).count >= Run(cells).count
  BY DEF WildsNeverShorten
<1> DEFINE cells == Cells(grid, Lines[i])
           wilder == [cells EXCEPT ![reel] = "WILD"]
<1>1. i \in 1..20 /\ grid \in Grids(5, VideoSymbols)
  BY VideoPlayed
<1>2. cells \in [1..5 -> VideoSymbols] /\ Len(cells) = 5
  BY <1>1, CellsAre
<1> HIDE DEF cells
<1>3. wilder \in [1..5 -> VideoSymbols] /\ Len(wilder) = 5
      /\ \A j \in 1..5 : wilder[j] \in {cells[j], "WILD"}
  BY <1>2, SymbolsAre
<1> HIDE DEF wilder
<1>4. /\ Run(cells).count \in 0..5 /\ PaySymbol(Run(cells)) \in PayingSymbols
      /\ \A j \in 1..Run(cells).count : cells[j] \in {PaySymbol(Run(cells)), "WILD"}
  BY <1>2, RunIsLongest
<1>5. \A j \in 1..Run(cells).count : wilder[j] \in {PaySymbol(Run(cells)), "WILD"}
  BY <1>3, <1>4
<1>6. Run(cells).count <= Run(wilder).count /\ Run(wilder).count \in 0..5
  BY <1>3, <1>4, <1>5, RunIsLongest
<1>7. Run(wilder).count >= Run(cells).count
  BY <1>4, <1>6
<1>8. QED
  BY <1>7 DEF wilder, cells

\* Scatters are counted by cell and stand for their reels.
LEMMA ScattersAreTheReels ==
    ASSUME GameInv
    PROVE  ScattersAreReels
<1> SUFFICES ASSUME Played(Video)
             PROVE  LET reels == Cardinality({reel \in 0..4 : "SCATTER" \in Range(grid[reel])})
                    IN /\ result.scatters = reels
                       /\ result.freeSpins = IF reels < 3 THEN 0 ELSE ScatterFreeSpins[reels - 2]
  BY DEF ScattersAreReels
<1>1. /\ result = EvaluateVideo(grid, call.lineBet, call.lines) /\ CountScatters(grid) \in 0..5
      /\ CountScatters(grid) = Cardinality({reel \in 0..4 : "SCATTER" \in Range(grid[reel])})
  BY VideoPlayed
<1>2. result.scatters = CountScatters(grid)
  BY <1>1, VideoResultIs
<1>3. result.freeSpins = Prize(CountScatters(grid), ScatterFreeSpins)
  BY <1>1, VideoResultIs
<1>4. QED
  BY <1>1, <1>2, <1>3, PrizeIs

\* Line by line, and with the scatters.
LEMMA PayoutsHaveTheirCeiling ==
    ASSUME GameInv
    PROVE  PayoutHasItsCeiling
<1>1. Played(Classic) => result.payout <= call.stake * 201
  BY ClassicPlayed, ClassicCeiling
<1>2. ASSUME Played(Video)
      PROVE  result.payout <= call.lineBet * call.lines * (600 + 60)
  <2>1. /\ grid \in Grids(5, VideoSymbols) /\ call.lineBet \in Nat /\ call.lines \in 1..20
        /\ result = EvaluateVideo(grid, call.lineBet, call.lines) /\ CountScatters(grid) \in 0..5
    BY <1>2, VideoPlayed
  <2>2. EvaluateVideo(grid, call.lineBet, call.lines).payout <= Most(call.lineBet, call.lines)
    BY <2>1, VideoCeiling
  <2>3. result.payout <= Most(call.lineBet, call.lines)
    BY <2>1, <2>2
  <2>4. QED
    BY <2>3 DEF Most
<1>3. QED
  BY <1>1, <1>2 DEF PayoutHasItsCeiling

\* A round wins what its grid, its stake and the tables allow, whatever was drawn.
THEOREM WinsAreAlwaysOnTheGrid == GameSpec => []WinsAreOnTheGrid
<1>1. GameInv => WinsAreOnTheGrid
  BY ResultsAreTyped, RunsAreTheLongest, WildsShortenNoRun, ScattersAreTheReels,
     PayoutsHaveTheirCeiling DEF WinsAreOnTheGrid
<1>2. QED
  BY <1>1, RoundsAreEvaluated, PTL

\* A symbol shows exactly for the values in its share, at every resolution.
THEOREM CellsAlwaysFollowWeights == GameSpec => []CellsFollowWeights
<1>1. ASSUME GameInv
      PROVE  CellsFollowWeights
  <2> SUFFICES ASSUME Played(Classic), NEW col \in 0..2, NEW row \in 0..2
               PROVE  \E i \in 1..6 :
                        LET below(k) == SumFunction([j \in 1..k |-> ClassicWeights[j]]) * Resolution
                            v == draws[3 * col + row + 1] * 100
                        IN ClassicSymbols[i] = grid[col][row] /\ below(i - 1) <= v /\ v < below(i)
    BY DEF CellsFollowWeights
  <2>1. PICK i \in 1..6 : /\ ClassicSymbols[i] = grid[col][row]
                          /\ Below(i-1) * Resolution <= draws[3 * col + row + 1] * 100
                          /\ draws[3 * col + row + 1] * 100 < Below(i) * Resolution
    BY <1>1, ClassicPlayed, ClassicGridIs
  <2>2. i - 1 \in 0..6 /\ i \in 0..6
    OBVIOUS
  <2>3. SumFunction([j \in 1..i-1 |-> ClassicWeights[j]]) = Below(i-1)
    BY <2>2, WeightsAddUp
  <2>4. SumFunction([j \in 1..i |-> ClassicWeights[j]]) = Below(i)
    BY <2>2, WeightsAddUp
  <2>5. QED
    BY <2>1, <2>3, <2>4
<1>2. QED
  BY <1>1, RoundsAreEvaluated, PTL

---------------------------------------------------------------------------
(* The return of the classic slot.                                         *)

\* What a symbol pays by its place in the table, nothing where symbols differ.
Pay(m) == IF m = 0 THEN 0 ELSE ClassicPays[ClassicSymbols[m]]

\* The symbol two cells pay as together, 6 the wild, 0 none.
Meet(x, y) == IF x = 6 THEN y ELSE IF y \in {x, 6} THEN x ELSE 0

\* The seven pays; no two symbols are the same.
LEMMA PaysAre ==
    /\ Pay(0) = 0 /\ Pay(1) = 6 /\ Pay(2) = 8 /\ Pay(3) = 16
    /\ Pay(4) = 30 /\ Pay(5) = 101 /\ Pay(6) = 201
    /\ ClassicSymbols[6] = "WILD"
    /\ \A i, j \in 1..6 : ClassicSymbols[i] = ClassicSymbols[j] => i = j
    /\ \A i \in 1..6 : ClassicSymbols[i] # "none"
<1>1. /\ ClassicSymbols[1] = "CHERRY" /\ ClassicSymbols[2] = "LEMON" /\ ClassicSymbols[3] = "BELL"
      /\ ClassicSymbols[4] = "STAR" /\ ClassicSymbols[5] = "SEVEN" /\ ClassicSymbols[6] = "WILD"
  BY DEF ClassicSymbols
<1>2. \A i \in 1..6 : i = 1 \/ i = 2 \/ i = 3 \/ i = 4 \/ i = 5 \/ i = 6
  OBVIOUS
<1>3. \A i, j \in 1..6 : ClassicSymbols[i] = ClassicSymbols[j] => i = j
  BY <1>1, <1>2
<1>4. \A i \in 1..6 : ClassicSymbols[i] # "none"
  BY <1>1, <1>2
<1>5. /\ Pay(0) = 0 /\ Pay(1) = 6 /\ Pay(2) = 8 /\ Pay(3) = 16
      /\ Pay(4) = 30 /\ Pay(5) = 101 /\ Pay(6) = 201
  BY <1>1 DEF Pay, ClassicPays
<1>6. QED
  BY <1>1, <1>3, <1>4, <1>5

\* What a line of three pays.
LEMMA LinePaysTheMeet ==
    ASSUME NEW i \in 1..6, NEW j \in 1..6, NEW k \in 1..6
    PROVE  LET s == ResolveLineSymbol(<<ClassicSymbols[i], ClassicSymbols[j], ClassicSymbols[k]>>)
           IN Pay(Meet(Meet(i, j), k)) = IF s = "none" THEN 0 ELSE ClassicPays[s]
<1> DEFINE sym(n) == ClassicSymbols[n]
           cells == <<sym(i), sym(j), sym(k)>>
           nonWild == Range(cells) \ {"WILD"}
           m == Meet(Meet(i, j), k)
           s == ResolveLineSymbol(cells)
<1>1. \A n \in 1..6 : sym(n) = "WILD" <=> n = 6
  BY PaysAre
<1>2. \A a, b \in 1..6 : sym(a) = sym(b) <=> a = b
  BY PaysAre
<1>3. \A n \in 1..6 : sym(n) # "none"
  BY PaysAre
<1> HIDE DEF sym
<1>4. nonWild = {sym(n) : n \in {i, j, k} \ {6}}
  <2>1. Range(cells) = {sym(i), sym(j), sym(k)}
    BY DEF Range
  <2> HIDE DEF cells
  <2>2. QED
    BY <1>1, <2>1
<1> HIDE DEF cells
<1>5. m = IF {i, j, k} \ {6} = {} THEN 6
          ELSE IF \E n \in 1..5 : {i, j, k} \ {6} = {n}
               THEN CHOOSE n \in 1..5 : {i, j, k} \ {6} = {n}
          ELSE 0
  <2>1. CASE {i, j, k} \ {6} = {}
    BY <2>1 DEF Meet
  <2>2. ASSUME NEW n \in 1..5, {i, j, k} \ {6} = {n}
        PROVE  m = n /\ (CHOOSE c \in 1..5 : {i, j, k} \ {6} = {c}) = n
    <3>1. i \in {n, 6} /\ j \in {n, 6} /\ k \in {n, 6} /\ (i = n \/ j = n \/ k = n) /\ n # 6
      BY <2>2
    <3>2. m = n
      BY <3>1 DEF Meet
    <3>3. (CHOOSE c \in 1..5 : {i, j, k} \ {6} = {c}) = n
      BY <2>2
    <3>4. QED
      BY <3>2, <3>3
  <2>3. CASE {i, j, k} \ {6} # {} /\ ~\E n \in 1..5 : {i, j, k} \ {6} = {n}
    <3>1. PICK x \in {i, j, k} \ {6} : TRUE
      BY <2>3
    <3>2. PICK y \in {i, j, k} \ {6} : y # x
      BY <2>3, <3>1
    <3>3. m = 0
      BY <3>1, <3>2 DEF Meet
    <3>4. QED
      BY <2>3, <3>3
  <2> HIDE DEF m
  <2>4. QED
    BY <2>1, <2>2, <2>3
<1> HIDE DEF m
<1>6. ASSUME {i, j, k} \ {6} = {}
      PROVE  Pay(m) = IF s = "none" THEN 0 ELSE ClassicPays[s]
  <2>1. m = 6 /\ nonWild = {}
    BY <1>4, <1>5, <1>6
  <2>2. Cardinality(nonWild) # 1
    BY <2>1, FS_EmptySet
  <2>3. s = "WILD"
    BY <2>1, <2>2 DEF ResolveLineSymbol
  <2>4. QED
    <3>1. ClassicSymbols[6] = "WILD"
      BY PaysAre
    <3>2. Pay(m) = ClassicPays["WILD"]
      BY <2>1, <3>1 DEF Pay
    <3> HIDE DEF s
    <3>3. QED
      BY <2>3, <3>2
<1>7. ASSUME NEW n \in 1..5, {i, j, k} \ {6} = {n}
      PROVE  Pay(m) = IF s = "none" THEN 0 ELSE ClassicPays[s]
  <2>1. m = n /\ nonWild = {sym(n)}
    BY <1>4, <1>5, <1>7
  <2>2. Cardinality(nonWild) = 1 /\ nonWild # {}
    BY <2>1, FS_Singleton
  <2>3. s = CHOOSE c \in nonWild : TRUE
    BY <2>2 DEF ResolveLineSymbol
  <2>4. s = sym(n)
    BY <2>1, <2>3
  <2>5. QED
    BY <1>3, <2>1, <2>4 DEF Pay, sym
<1>8. ASSUME {i, j, k} \ {6} # {}, ~\E n \in 1..5 : {i, j, k} \ {6} = {n}
      PROVE  Pay(m) = IF s = "none" THEN 0 ELSE ClassicPays[s]
  <2>1. m = 0
    BY <1>5, <1>8
  <2>2. PICK x \in {i, j, k} \ {6} : TRUE
    BY <1>8
  <2>3. PICK y \in {i, j, k} \ {6} : y # x
    BY <1>8, <2>2
  <2>4. sym(x) \in nonWild /\ sym(y) \in nonWild /\ sym(x) # sym(y)
    BY <1>2, <1>4, <2>2, <2>3
  <2>5. Cardinality(nonWild) # 1
    <3> HIDE DEF nonWild
    <3>1. SUFFICES ASSUME Cardinality(nonWild) = 1
                   PROVE  FALSE
      OBVIOUS
    <3>2. IsFiniteSet(nonWild)
      <4>1. nonWild = {sym(i), sym(j), sym(k)} \ {"WILD"}
        BY DEF nonWild, cells, Range
      <4>2. IsFiniteSet({sym(i), sym(j), sym(k)})
        <5>1. IsFiniteSet({sym(i)})
          BY FS_Singleton
        <5>2. IsFiniteSet({sym(i)} \cup {sym(j)})
          BY <5>1, FS_AddElement
        <5>3. IsFiniteSet(({sym(i)} \cup {sym(j)}) \cup {sym(k)})
          BY <5>2, FS_AddElement
        <5>4. {sym(i), sym(j), sym(k)} = ({sym(i)} \cup {sym(j)}) \cup {sym(k)}
          OBVIOUS
        <5>5. QED
          BY <5>3, <5>4
      <4>3. QED
        BY <4>1, <4>2, FS_Subset
    <3>3. \E c : nonWild = {c}
      BY <3>1, <3>2, FS_Singleton
    <3>4. QED
      BY <2>4, <3>3
  <2>6. s = "none"
    <3>1. nonWild # {}
      BY <2>4
    <3>2. QED
      BY <2>5, <3>1 DEF ResolveLineSymbol
  <2>7. Pay(m) = 0
    BY <2>1, PaysAre
  <2> HIDE DEF s
  <2>8. QED
    BY <2>6, <2>7
<1>9. Pay(m) = IF s = "none" THEN 0 ELSE ClassicPays[s]
  BY <1>6, <1>7, <1>8 DEF cells, sym
<1>10. QED
  BY <1>9 DEF m, cells, sym

\* The return of a line, cell by cell: of its last cell where the first two
\* are known, and of its last two where the first is.
LinePay(c) ==
    LET s == ResolveLineSymbol(<<ClassicSymbols[c[1]], ClassicSymbols[c[2]], ClassicSymbols[c[3]]>>)
    IN IF s = "none" THEN 0 ELSE ClassicPays[s]
AfterTwo(i, j) == SumFunction([k \in 1..6 |-> ClassicWeights[k] * LinePay(<<i, j, k>>)])
AfterOne(i) == SumFunction([j \in 1..6 |-> ClassicWeights[j] * AfterTwo(i, j)])

\* The return is the sum, over the first cell, of what may follow.
LEMMA ReturnIsNested == ExactReturn = SumFunction([i \in 1..6 |-> ClassicWeights[i] * AfterOne(i)])
BY DEF ExactReturn, AfterOne, AfterTwo, LinePay

\* The six products of a weighted sum.
LEMMA WeightedSum ==
    ASSUME NEW f, DOMAIN f = 1..6,
           NEW a1 \in Int, NEW a2 \in Int, NEW a3 \in Int,
           NEW a4 \in Int, NEW a5 \in Int, NEW a6 \in Int,
           f[1] = 30 * a1, f[2] = 28 * a2, f[3] = 20 * a3,
           f[4] = 12 * a4, f[5] = 6 * a5, f[6] = 4 * a6
    PROVE  SumFunction(f) = 30 * a1 + 28 * a2 + 20 * a3 + 12 * a4 + 6 * a5 + 4 * a6
<1>1. \A i \in 1..6 : i = 1 \/ i = 2 \/ i = 3 \/ i = 4 \/ i = 5 \/ i = 6
  OBVIOUS
<1>2. \A i \in 1..6 : f[i] \in Int
  BY <1>1
<1>3. SumFunction(f) = f[1] + f[2] + f[3] + f[4] + f[5] + f[6]
  BY <1>2, SumOfSix
<1>4. QED
  BY <1>3

\* What two cells that pay together as one symbol return.
Returns(m) == IF m = 0 THEN 0 ELSE <<204, 256, 384, 480, 1010, 2494>>[m]

\* A line whose first two cells are known returns by what they pay as.
LEMMA AfterTwoIs ==
    ASSUME NEW i \in 1..6, NEW j \in 1..6
    PROVE  AfterTwo(i, j) = Returns(Meet(i, j))
<1>1. PICK m : m = Meet(i, j) /\ m \in 0..6
  BY DEF Meet
<1>2. ASSUME NEW k \in 1..6
      PROVE  LinePay(<<i, j, k>>) = Pay(Meet(m, k))
  BY <1>1, LinePaysTheMeet DEF LinePay
<1>3. PICK f : f = [k \in 1..6 |-> ClassicWeights[k] * LinePay(<<i, j, k>>)]
  OBVIOUS
<1>4. /\ f[1] = 30 * Pay(Meet(m, 1)) /\ f[2] = 28 * Pay(Meet(m, 2)) /\ f[3] = 20 * Pay(Meet(m, 3))
      /\ f[4] = 12 * Pay(Meet(m, 4)) /\ f[5] = 6 * Pay(Meet(m, 5)) /\ f[6] = 4 * Pay(Meet(m, 6))
  BY <1>2, <1>3, WeightsAre
<1>5. \A k \in 1..6 : Meet(m, k) \in 0..6
  BY <1>1 DEF Meet
<1>6. \A n \in 0..6 : n = 0 \/ n = 1 \/ n = 2 \/ n = 3 \/ n = 4 \/ n = 5 \/ n = 6
  OBVIOUS
<1>7. \A n \in 0..6 : Pay(n) \in Int
  BY <1>6, PaysAre
<1>8. DOMAIN f = 1..6
  BY <1>3
<1>9. /\ Pay(Meet(m, 1)) \in Int /\ Pay(Meet(m, 2)) \in Int /\ Pay(Meet(m, 3)) \in Int
      /\ Pay(Meet(m, 4)) \in Int /\ Pay(Meet(m, 5)) \in Int /\ Pay(Meet(m, 6)) \in Int
  BY <1>5, <1>7
<1>10. SumFunction(f) = 30 * Pay(Meet(m, 1)) + 28 * Pay(Meet(m, 2)) + 20 * Pay(Meet(m, 3))
                      + 12 * Pay(Meet(m, 4)) + 6 * Pay(Meet(m, 5)) + 4 * Pay(Meet(m, 6))
  BY <1>4, <1>8, <1>9, WeightedSum
<1>11. SumFunction(f) = Returns(m)
  <2>1. /\ Returns(0) = 0 /\ Returns(1) = 204 /\ Returns(2) = 256 /\ Returns(3) = 384
        /\ Returns(4) = 480 /\ Returns(5) = 1010 /\ Returns(6) = 2494
    BY DEF Returns
  <2>2. CASE m = 0
    BY <1>10, <2>1, <2>2, PaysAre DEF Meet
  <2>3. CASE m = 1
    BY <1>10, <2>1, <2>3, PaysAre DEF Meet
  <2>4. CASE m = 2
    BY <1>10, <2>1, <2>4, PaysAre DEF Meet
  <2>5. CASE m = 3
    BY <1>10, <2>1, <2>5, PaysAre DEF Meet
  <2>6. CASE m = 4
    BY <1>10, <2>1, <2>6, PaysAre DEF Meet
  <2>7. CASE m = 5
    BY <1>10, <2>1, <2>7, PaysAre DEF Meet
  <2>8. CASE m = 6
    BY <1>10, <2>1, <2>8, PaysAre DEF Meet
  <2>9. QED
    BY <1>1, <1>6, <2>2, <2>3, <2>4, <2>5, <2>6, <2>7, <2>8
<1>12. QED
  BY <1>1, <1>3, <1>11 DEF AfterTwo

\* What follows a first cell.
LEMMA AfterOneIs ==
    /\ AfterOne(1) = 6936 /\ AfterOne(2) = 8192 /\ AfterOne(3) = 9216
    /\ AfterOne(4) = 7680 /\ AfterOne(5) = 10100 /\ AfterOne(6) = 42764
<1>1. ASSUME NEW i \in 1..6
      PROVE  AfterOne(i) = 30 * Returns(Meet(i, 1)) + 28 * Returns(Meet(i, 2))
                         + 20 * Returns(Meet(i, 3)) + 12 * Returns(Meet(i, 4))
                         + 6 * Returns(Meet(i, 5)) + 4 * Returns(Meet(i, 6))
  <2>1. PICK f : f = [j \in 1..6 |-> ClassicWeights[j] * AfterTwo(i, j)]
    OBVIOUS
  <2>2. /\ f[1] = 30 * Returns(Meet(i, 1)) /\ f[2] = 28 * Returns(Meet(i, 2))
        /\ f[3] = 20 * Returns(Meet(i, 3)) /\ f[4] = 12 * Returns(Meet(i, 4))
        /\ f[5] = 6 * Returns(Meet(i, 5)) /\ f[6] = 4 * Returns(Meet(i, 6))
    BY <2>1, AfterTwoIs, WeightsAre
  <2>3. \A j \in 1..6 : Meet(i, j) \in 0..6
    BY DEF Meet
  <2>4. \A n \in 0..6 : n = 0 \/ n = 1 \/ n = 2 \/ n = 3 \/ n = 4 \/ n = 5 \/ n = 6
    OBVIOUS
  <2>5. \A n \in 0..6 : Returns(n) \in Int
    BY <2>4 DEF Returns
  <2>6. /\ Returns(Meet(i, 1)) \in Int /\ Returns(Meet(i, 2)) \in Int /\ Returns(Meet(i, 3)) \in Int
        /\ Returns(Meet(i, 4)) \in Int /\ Returns(Meet(i, 5)) \in Int /\ Returns(Meet(i, 6)) \in Int
    BY <2>3, <2>5
  <2>7. DOMAIN f = 1..6
    BY <2>1
  <2>8. QED
    BY <2>1, <2>2, <2>6, <2>7, WeightedSum DEF AfterOne
<1>2. /\ Returns(0) = 0 /\ Returns(1) = 204 /\ Returns(2) = 256 /\ Returns(3) = 384
      /\ Returns(4) = 480 /\ Returns(5) = 1010 /\ Returns(6) = 2494
  BY DEF Returns
<1>3. AfterOne(1) = 6936
  BY <1>1, <1>2 DEF Meet
<1>4. AfterOne(2) = 8192
  BY <1>1, <1>2 DEF Meet
<1>5. AfterOne(3) = 9216
  BY <1>1, <1>2 DEF Meet
<1>6. AfterOne(4) = 7680
  BY <1>1, <1>2 DEF Meet
<1>7. AfterOne(5) = 10100
  BY <1>1, <1>2 DEF Meet
<1>8. AfterOne(6) = 42764
  BY <1>1, <1>2 DEF Meet
<1>9. QED
  BY <1>3, <1>4, <1>5, <1>6, <1>7, <1>8

\* The table returns 945,592 millionths of a line's stake.
LEMMA ReturnIs == ExactReturn = 945592
<1>1. PICK f : f = [i \in 1..6 |-> ClassicWeights[i] * AfterOne(i)]
  OBVIOUS
<1>2. /\ f[1] = 30 * 6936 /\ f[2] = 28 * 8192 /\ f[3] = 20 * 9216
      /\ f[4] = 12 * 7680 /\ f[5] = 6 * 10100 /\ f[6] = 4 * 42764
  BY <1>1, AfterOneIs, WeightsAre
<1>3. DOMAIN f = 1..6
  BY <1>1
<1>4. SumFunction(f) = 945592
  BY <1>2, <1>3, WeightedSum
<1>5. QED
  BY <1>1, <1>4, ReturnIsNested

---------------------------------------------------------------------------
(* What the page makes of a classic round.                                 *)

\* The page's copy of the tables is the backend's, and its least stake is a
\* chip for each line.
LEMMA CopiesAgree ==
    /\ PanelSymbols = ClassicSymbols /\ PanelLines = ClassicLines
    /\ PanelPays = ClassicPays /\ DOMAIN PanelPays = Range(ClassicSymbols)
    /\ \A s \in Range(ClassicSymbols) : ClassicPays[s] \in 1..201
    /\ MinBet = 5
<1>1. Range(ClassicSymbols) = {"CHERRY", "LEMON", "BELL", "STAR", "SEVEN", "WILD"}
  BY DEF ClassicSymbols, Range
<1>2. PanelSymbols = ClassicSymbols
  BY DEF PanelSymbols, ClassicSymbols
<1>3. PanelLines = ClassicLines
  BY DEF PanelLines, ClassicLines
<1>4. PanelPays = ClassicPays
  BY DEF PanelPays, ClassicPays
<1>5. DOMAIN PanelPays = {"CHERRY", "LEMON", "BELL", "STAR", "SEVEN", "WILD"}
  BY DEF PanelPays
<1>6. \A s \in Range(ClassicSymbols) : ClassicPays[s] \in 1..201
  BY <1>1 DEF ClassicPays
<1>7. QED
  BY <1>1, <1>2, <1>3, <1>4, <1>5, <1>6 DEF MinBet

\* Three of a symbol, as the player reads them.
Three(cells, s) == s \in Range(cells) /\ Range(cells) \subseteq {s, "WILD"}

\* A line pays as the one symbol the player sees three of, and not at all where
\* there is none.
LEMMA LinePaysTheThree ==
    ASSUME NEW cells, NEW S, Range(cells) \subseteq S, Range(cells) # {},
           IsFiniteSet(Range(cells)), "none" \notin S, NEW s \in S
    PROVE  Three(cells, s) <=> ResolveLineSymbol(cells) = s
<1> DEFINE nonWild == Range(cells) \ {"WILD"}
<1>1. CASE nonWild = {}
  <2>1. Cardinality(nonWild) # 1 /\ Range(cells) = {"WILD"}
    BY <1>1, FS_EmptySet
  <2>2. ResolveLineSymbol(cells) = "WILD"
    BY <1>1, <2>1 DEF ResolveLineSymbol
  <2>3. QED
    BY <2>1, <2>2 DEF Three
<1>2. CASE nonWild # {} /\ Cardinality(nonWild) = 1
  <2>1. ResolveLineSymbol(cells) = CHOOSE c \in nonWild : TRUE
    BY <1>2 DEF ResolveLineSymbol
  <2>2. (CHOOSE c \in nonWild : TRUE) \in nonWild
    BY <1>2
  <2>3. \E x : nonWild = {x}
    BY <1>2, FS_Subset, FS_Singleton
  <2>4. QED
    BY <2>1, <2>2, <2>3 DEF Three
<1>3. CASE nonWild # {} /\ Cardinality(nonWild) # 1
  <2>1. ResolveLineSymbol(cells) = "none"
    BY <1>3 DEF ResolveLineSymbol
  <2>2. ~Three(cells, s)
    <3> SUFFICES ASSUME Three(cells, s) PROVE FALSE
      OBVIOUS
    <3>1. nonWild = {s}
      BY <1>3 DEF Three
    <3>2. QED
      BY <1>3, <3>1, FS_Singleton
  <2>3. QED
    BY <2>1, <2>2
<1>4. QED
  BY <1>1, <1>2, <1>3

\* Where a line wins, a stake of a chip for each line or more pays something.
LEMMA WinnersPay ==
    ASSUME NEW g \in Grids(3, Range(ClassicSymbols)), NEW stake \in Nat, stake >= 5,
           ClassicWon(g) # {}
    PROVE  EvaluateClassic(g, stake).payout > 0
<1> DEFINE W == ClassicWon(g)
           share == LineStake(stake)
           f == [i \in W |-> share * ClassicPays[LineSymbol(g, i)]]
<1>1. EvaluateClassic(g, stake).payout = SumFunctionOnSet(f, W)
  BY SumIsOnDomain, ClassicResultIs
<1>2. share \in Nat /\ share >= 1
  BY ClassicTablesAre DEF LineStake
<1>3. IsFiniteSet(W)
  <2>1. W \subseteq 1..5 /\ IsFiniteSet(1..5)
    BY FS_Interval, 1 \in Int, 5 \in Int DEF ClassicWon
  <2> HIDE DEF W
  <2>2. QED
    BY <2>1, FS_Subset
<1>4. ASSUME NEW i \in W
      PROVE  f[i] \in Nat /\ f[i] >= 1
  <2> DEFINE pay == ClassicPays[LineSymbol(g, i)]
  <2>1. i \in 1..5
    BY DEF ClassicWon
  <2>2. LineSymbol(g, i) \in Range(ClassicSymbols)
    BY <2>1, ClassicCellsAre, ClassicTablesAre, LinePaysAsSymbol DEF ClassicWon, LineSymbol
  <2>3. pay \in 1..201 /\ f[i] = share * pay
    BY <2>2, CopiesAgree
  <2> HIDE DEF pay, share, f
  <2>4. share * pay \in Nat /\ share * pay >= 1
    BY <1>2, <2>3
  <2>5. QED
    BY <2>3, <2>4
<1>5. PICK e \in W : TRUE
  OBVIOUS
<1> HIDE DEF f, W, share
<1>6. SumFunctionOnSet(f, W) = f[e] + SumFunctionOnSet(f, W \ {e})
  BY <1>3, <1>4, SumRemove
<1>7. SumFunctionOnSet(f, W \ {e}) \in Nat
  BY <1>3, <1>4, FS_Subset, SumNat
<1>8. QED
  BY <1>1, <1>4, <1>6, <1>7

\* The lines that light up are those with three of a symbol, and pay as listed.
LEMMA LinesAreTold ==
    ASSUME GameInv, Played(Classic), call.stake >= MinBet
    PROVE  /\ LitLines = {i \in 1..5 : \E s \in Range(ClassicSymbols) :
                                         Three(Cells(grid, ClassicLines[i]), s)}
           /\ \A i \in LitLines : \A s \in Range(ClassicSymbols) :
                 Three(Cells(grid, ClassicLines[i]), s) =>
                    result.wins[i].win = LineStake(call.stake) * ClassicPays[s]
<1> DEFINE W == ClassicWon(grid)
<1>1. /\ grid \in Grids(3, Range(ClassicSymbols)) /\ call.stake \in Nat /\ call.stake >= 5
      /\ result = EvaluateClassic(grid, call.stake)
  BY ClassicPlayed, CopiesAgree
<1>2. LitLines = W
  <2>1. DOMAIN result.wins = W /\ (W # {} => result.payout > 0)
    BY <1>1, ClassicResultIs, WinnersPay
  <2>2. QED
    BY <2>1 DEF LitLines
<1>3. \A i \in 1..5 : \A s \in Range(ClassicSymbols) :
         Three(Cells(grid, ClassicLines[i]), s) <=> LineSymbol(grid, i) = s
  BY <1>1, ClassicCellsAre, ClassicTablesAre, LinePaysTheThree DEF LineSymbol
<1>4. \A i \in 1..5 : LineSymbol(grid, i) \in Range(ClassicSymbols) \cup {"none"}
  BY <1>1, ClassicCellsAre, ClassicTablesAre, LinePaysAsSymbol DEF LineSymbol
<1>5. W = {i \in 1..5 : \E s \in Range(ClassicSymbols) : LineSymbol(grid, i) = s}
  BY <1>4, ClassicTablesAre DEF ClassicWon
<1>6. \A i \in W : i \in 1..5
                   /\ result.wins[i].win = LineStake(call.stake) * ClassicPays[LineSymbol(grid, i)]
  BY <1>1, ClassicResultIs DEF ClassicWon
<1> HIDE DEF W
<1>7. QED
  BY <1>2, <1>3, <1>5, <1>6

\* The closed form, computed from the page's copy, is 945,592 millionths too.
LEMMA PanelIs == PanelReturn = 945592
<1>1. PICK f : f = [i \in 1..6 |->
                      LET s == PanelSymbols[i] wild == PanelWeights["WILD"]
                      IN PanelPays[s] * (IF s = "WILD" THEN Cube(wild)
                                         ELSE Cube(PanelWeights[s] + wild) - Cube(wild))]
  OBVIOUS
<1>2. /\ PanelSymbols[1] = "CHERRY" /\ PanelSymbols[2] = "LEMON" /\ PanelSymbols[3] = "BELL"
      /\ PanelSymbols[4] = "STAR" /\ PanelSymbols[5] = "SEVEN" /\ PanelSymbols[6] = "WILD"
  BY DEF PanelSymbols
<1>3. /\ PanelPays["CHERRY"] = 6 /\ PanelPays["LEMON"] = 8 /\ PanelPays["BELL"] = 16
      /\ PanelPays["STAR"] = 30 /\ PanelPays["SEVEN"] = 101 /\ PanelPays["WILD"] = 201
  BY DEF PanelPays
<1>4. /\ PanelWeights["CHERRY"] = 30 /\ PanelWeights["LEMON"] = 28 /\ PanelWeights["BELL"] = 20
      /\ PanelWeights["STAR"] = 12 /\ PanelWeights["SEVEN"] = 6 /\ PanelWeights["WILD"] = 4
  BY DEF PanelWeights
<1>5. /\ Cube(4) = 64 /\ Cube(34) = 39304 /\ Cube(32) = 32768
      /\ Cube(24) = 13824 /\ Cube(16) = 4096 /\ Cube(10) = 1000
  BY DEF Cube
<1>6. f[1] = 235440
  BY <1>1, <1>2, <1>3, <1>4, <1>5
<1>7. f[2] = 261632
  BY <1>1, <1>2, <1>3, <1>4, <1>5
<1>8. f[3] = 220160
  BY <1>1, <1>2, <1>3, <1>4, <1>5
<1>9. f[4] = 120960
  BY <1>1, <1>2, <1>3, <1>4, <1>5
<1>10. f[5] = 94536
  BY <1>1, <1>2, <1>3, <1>4, <1>5
<1>11. f[6] = 12864
  BY <1>1, <1>2, <1>3, <1>4, <1>5
<1>12. SumFunction(f) = f[1] + f[2] + f[3] + f[4] + f[5] + f[6]
  <2>1. \A i \in 1..6 : i = 1 \/ i = 2 \/ i = 3 \/ i = 4 \/ i = 5 \/ i = 6
    OBVIOUS
  <2>2. \A i \in 1..6 : f[i] \in Int
    BY <1>6, <1>7, <1>8, <1>9, <1>10, <1>11, <2>1
  <2>3. DOMAIN f = 1..6
    BY <1>1
  <2>4. QED
    BY <2>2, <2>3, SumOfSix
<1>13. SumFunction(f) = 945592
  BY <1>6, <1>7, <1>8, <1>9, <1>10, <1>11, <1>12
<1>14. QED
  BY <1>1, <1>13 DEF PanelReturn

\* Whatever the draws and for every stake the page's button takes, the lines that
\* light up are those on which the player sees three of a symbol or wilds, each is
\* paid the multiplier the page lists times the line bet, and the return the page
\* publishes, by its closed form, is the one of the tables the rounds are paid by.
THEOREM PageAlwaysTellsTheRound == GameSpec => []PageTellsTheRound
<1>1. ASSUME GameInv
      PROVE  PageTellsTheRound
  <2> SUFFICES ASSUME Played(Classic), call.stake >= MinBet
               PROVE  PageTellsTheRound
    BY DEF PageTellsTheRound
  <2> DEFINE cells(i) == Range(Cells(grid, PanelLines[i]))
             three(i) == {s \in DOMAIN PanelPays : s \in cells(i) /\ cells(i) \subseteq {s, "WILD"}}
             symbols == Range(ClassicSymbols)
  <2>1. \A i : three(i) = {s \in symbols : Three(Cells(grid, ClassicLines[i]), s)}
    BY CopiesAgree DEF Three
  <2>2. Len(PanelLines) = 5 /\ LineStake(call.stake) = call.stake \div Len(PanelLines)
    BY CopiesAgree, ClassicTablesAre DEF LineStake
  <2> HIDE DEF three
  <2>3. LitLines = {i \in 1..Len(PanelLines) : three(i) # {}}
    BY <1>1, <2>1, <2>2, LinesAreTold
  <2>4. \A i \in LitLines : \A s \in three(i) :
           result.wins[i].win = (call.stake \div Len(PanelLines)) * PanelPays[s]
    BY <1>1, <2>1, <2>2, LinesAreTold, CopiesAgree
  <2>5. PanelReturn = ExactReturn
    BY ReturnIs, PanelIs
  <2>6. QED
    BY <2>3, <2>4, <2>5 DEF PageTellsTheRound, three
<1>2. QED
  BY <1>1, RoundsAreEvaluated, PTL
=============================================================================
