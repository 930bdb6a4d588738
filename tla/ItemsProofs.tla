------------------------------ MODULE ItemsProofs ------------------------------
(***************************************************************************)
(* What players do with items, for any kinds, recipes, smeltings, sizes of *)
(* the inventories, players and boxes: stacks stay sound (PlayersTyped),   *)
(* and nothing appears or is gone but in the ways that lapses and slips    *)
(* name (NothingLost).                                                     *)
(*                                                                         *)
(* What is somewhere is weighed: an item by its Worth in a player's own    *)
(* window, where a craft makes one kind of others, and as One in boxes.    *)
(* Load is the weight of some slots, Lying that of the ground.  A click    *)
(* changes one slot, so that the loads before and after differ by what it  *)
(* had and has (LoadChange); a shift-click and a pickup change the slots   *)
(* of an order one after the other, which takes an induction along the     *)
(* order (FillUpExists, Merges), and what is spilled is summed over kinds  *)
(* and over slots (SpilledLies).                                           *)
(*                                                                         *)
(* The invariants (WindowInv, BoxesInv) hold the slots sound and, as long  *)
(* as nothing went wrong, the total at what it was in the beginning.  A    *)
(* window of a box adds nothing but its cursor: a copy that is written     *)
(* back is either what the box and the bag hold or a slip (WriteBackFacts).*)
(***************************************************************************)
EXTENDS MCPlayers, FiniteSetTheorems, TLAPS

-----------------------------------------------------------------------------
(* Induction.  The library's principles take a predicate, which the provers    *)
(* cannot instantiate; here it is the set of what the predicate holds of.      *)

Below == {ss \in Nat \X Nat : ss[1] < ss[2]}

\* Numbers have a least one among them.
LEMMA LeastNumber ==
    ASSUME NEW T, T \subseteq Nat, T # {}
    PROVE  \E m \in T : \A n \in T : m <= n
<1>1. IsWellFoundedOn(OpToRel(<,Nat), Nat)
  BY NatLessThanWellFounded
<1>2. OpToRel(<,Nat) = Below
  BY DEF OpToRel, Below
<1>3. IsWellFoundedOn(Below, Nat)
  BY <1>1, <1>2
<1>4. PICK m \in T : \A n \in T : ~ (<<n, m>> \in Below)
  BY <1>3, WFMin
<1>5. \A n \in T : ~ (n < m)
  BY <1>4 DEF Below
<1> QED BY <1>5

\* What holds of 0 and of i + 1 if of i, up to N.
LEMMA Induction ==
    ASSUME NEW N \in Nat, NEW Good, 0 \in Good,
           \A i \in 0..(N - 1) : i \in Good => i + 1 \in Good
    PROVE  \A i \in 0..N : i \in Good
<1> SUFFICES ASSUME NEW i \in 0..N, i \notin Good PROVE FALSE
  OBVIOUS
<1> DEFINE Bad == {j \in 0..N : j \notin Good}
<1>1. Bad \subseteq Nat /\ Bad # {}
  OBVIOUS
<1>2. PICK m \in Bad : \A n \in Bad : m <= n
  BY <1>1, LeastNumber
<1>3. m \in Nat /\ m # 0 /\ m - 1 \in 0..(N - 1)
  BY <1>2
<1>4. m - 1 \notin Bad
  BY <1>2, <1>3
<1>5. m - 1 \in Good
  BY <1>3, <1>4
<1>6. (m - 1) + 1 \in Good
  BY <1>3, <1>5
<1>7. (m - 1) + 1 = m
  BY <1>3
<1> QED BY <1>2, <1>6, <1>7

(* What holds of the empty set, and of T and one more element if of T, holds
   of every finite set. *)
LEMMA SetInduction ==
    ASSUME NEW S, IsFiniteSet(S), NEW Good, {} \in Good,
           \A T \in SUBSET S : \A x \in S \ T : T \in Good => T \cup {x} \in Good
    PROVE  S \in Good
<1> DEFINE Size == {n \in 0..Cardinality(S) :
                       \A T \in SUBSET S : Cardinality(T) = n => T \in Good}
<1>1. Cardinality(S) \in Nat
  BY FS_CardinalityType
<1>2. 0 \in Size
  <2>1. \A T \in SUBSET S : Cardinality(T) = 0 => T = {}
    BY FS_Subset, FS_EmptySet
  <2>2. \A T \in SUBSET S : Cardinality(T) = 0 => T \in Good
    BY <2>1
  <2>3. 0 \in 0..Cardinality(S)
    BY <1>1
  <2> QED BY <2>2, <2>3
<1>3. ASSUME NEW n \in 0..(Cardinality(S) - 1), n \in Size PROVE n + 1 \in Size
  <2>1. n + 1 \in 0..Cardinality(S) /\ n \in Nat
    BY <1>1
  <2>2. ASSUME NEW T \in SUBSET S, Cardinality(T) = n + 1 PROVE T \in Good
    <3>1. IsFiniteSet(T) /\ T # {}
      BY <2>1, <2>2, FS_Subset, FS_EmptySet
    <3>2. PICK x \in T : TRUE
      BY <3>1
    <3>3. Cardinality(T \ {x}) = n
      <4>1. Cardinality(T \ {x}) = Cardinality(T) - 1
        BY <3>1, <3>2, FS_RemoveElement
      <4> QED BY <2>1, <2>2, <4>1
    <3>4. T \ {x} \in Good
      BY <1>3, <3>3
    <3>5. (T \ {x}) \cup {x} \in Good
      BY <3>4
    <3>6. (T \ {x}) \cup {x} = T
      OBVIOUS
    <3> QED BY <3>5, <3>6
  <2> QED BY <2>1, <2>2
<1> HIDE DEF Size
<1>4. Cardinality(S) \in Size
  BY <1>1, <1>2, <1>3, Induction
<1> QED BY <1>4 DEF Size

-----------------------------------------------------------------------------
(* Sums *)

Chosen(T) == CHOOSE x \in T : TRUE

\* g is what SumFunctionOnSet counts with: the sums of f over the subsets of S.
SumsUp(f, S, g) ==
    g = [T \in SUBSET S |-> IF T = {} THEN 0 ELSE f[Chosen(T)] + g[T \ {Chosen(T)}]]

Sums(f, S) == CHOOSE g : SumsUp(f, S, g)

LEMMA SumIsSums == ASSUME NEW f, NEW S PROVE SumFunctionOnSet(f, S) = Sums(f, S)[S]
BY DEF SumFunctionOnSet, FoldFunctionOnSet, MapThenFoldSet, Sums, SumsUp, Chosen

\* The recursion by which SumFunctionOnSet is defined has a solution.
LEMMA SumsExist ==
    ASSUME NEW f, NEW S, IsFiniteSet(S)
    PROVE  SumsUp(f, S, Sums(f, S))
<1> DEFINE Body(g, T) == IF T = {} THEN 0 ELSE f[Chosen(T)] + g[T \ {Chosen(T)}]
           Upto(n, g) == \A T \in SUBSET S : Cardinality(T) <= n => g[T] = Body(g, T)
           Size == {n \in 0..Cardinality(S) : \E g : Upto(n, g)}
<1>1. Cardinality(S) \in Nat
  BY FS_CardinalityType
<1>2. \A T \in SUBSET S : IsFiniteSet(T) /\ Cardinality(T) \in Nat /\ Cardinality(T) <= Cardinality(S)
  BY FS_Subset, FS_CardinalityType
<1>3. \A T \in SUBSET S : T # {} => /\ Chosen(T) \in T /\ T \ {Chosen(T)} \in SUBSET S
                                   /\ Cardinality(T \ {Chosen(T)}) = Cardinality(T) - 1
  BY <1>2, FS_RemoveElement DEF Chosen
<1>4. 0 \in Size
  <2> DEFINE g == [T \in SUBSET S |-> 0]
  <2>1. \A T \in SUBSET S : Cardinality(T) <= 0 => T = {}
    BY <1>2, FS_EmptySet
  <2>2. Upto(0, g)
    BY <2>1
  <2> HIDE DEF g
  <2>3. \E k : Upto(0, k)
    BY <2>2
  <2>4. 0 \in 0..Cardinality(S)
    BY <1>1
  <2> QED BY <2>3, <2>4
<1>5. ASSUME NEW n \in 0..(Cardinality(S) - 1), n \in Size PROVE n + 1 \in Size
  <2>1. n + 1 \in 0..Cardinality(S) /\ n \in Nat
    BY <1>1
  <2>2. PICK g : Upto(n, g)
    BY <1>5
  <2> DEFINE h == [T \in SUBSET S |-> IF Cardinality(T) <= n THEN g[T] ELSE Body(g, T)]
  <2>3. ASSUME NEW T \in SUBSET S, Cardinality(T) <= n + 1 PROVE h[T] = Body(h, T)
    <3>1. h[T] = Body(g, T)
      BY <2>2
    <3>2. CASE T = {}
      BY <3>1, <3>2
    <3>3. CASE T # {}
      <4> DEFINE U == T \ {Chosen(T)}
      <4>1. U \in SUBSET S /\ Cardinality(U) <= n
        BY <1>2, <1>3, <2>1, <2>3, <3>3
      <4>2. h[U] = g[U]
        BY <4>1
      <4> QED BY <3>1, <3>3, <4>2
    <3> QED BY <3>2, <3>3
  <2> HIDE DEF h
  <2>4. Upto(n + 1, h)
    BY <2>3
  <2> QED BY <2>1, <2>4
<1> HIDE DEF Size
<1>6. Cardinality(S) \in Size
  BY <1>1, <1>4, <1>5, Induction
<1>7. PICK g : Upto(Cardinality(S), g)
  BY <1>6 DEF Size
<1> DEFINE h == [T \in SUBSET S |-> g[T]]
<1>8. \A T \in SUBSET S : h[T] = Body(h, T)
  BY <1>2, <1>3, <1>7
<1>9. h = [T \in SUBSET S |-> Body(h, T)]
  BY <1>8
<1>10. SumsUp(f, S, h)
  BY <1>9 DEF SumsUp
<1> QED BY <1>10 DEF Sums

(* Two ways of counting agree where their functions do. *)
LEMMA SumsAgree ==
    ASSUME NEW f, NEW g, NEW S, NEW T, NEW F, NEW G,
           SumsUp(f, S, F), SumsUp(g, T, G),
           NEW U, IsFiniteSet(U), U \subseteq S, U \subseteq T, \A x \in U : f[x] = g[x]
    PROVE  F[U] = G[U]
<1> DEFINE Size == {n \in 0..Cardinality(U) :
                       \A V \in SUBSET U : Cardinality(V) = n => F[V] = G[V]}
<1>1. Cardinality(U) \in Nat
  BY FS_CardinalityType
<1>2. \A V \in SUBSET U : IsFiniteSet(V) /\ Cardinality(V) \in Nat
  BY FS_Subset, FS_CardinalityType
<1>3. \A V \in SUBSET U : /\ F[V] = IF V = {} THEN 0 ELSE f[Chosen(V)] + F[V \ {Chosen(V)}]
                          /\ G[V] = IF V = {} THEN 0 ELSE g[Chosen(V)] + G[V \ {Chosen(V)}]
  BY DEF SumsUp
<1>4. \A V \in SUBSET U : V # {} => Chosen(V) \in V
  BY DEF Chosen
<1>5. 0 \in Size
  <2>1. \A V \in SUBSET U : Cardinality(V) = 0 => V = {}
    BY <1>2, FS_EmptySet
  <2>2. \A V \in SUBSET U : Cardinality(V) = 0 => F[V] = G[V]
    BY <1>3, <2>1
  <2>3. 0 \in 0..Cardinality(U)
    BY <1>1
  <2> QED BY <2>2, <2>3
<1>6. ASSUME NEW n \in 0..(Cardinality(U) - 1), n \in Size PROVE n + 1 \in Size
  <2>1. n + 1 \in 0..Cardinality(U) /\ n \in Nat
    BY <1>1
  <2>2. ASSUME NEW V \in SUBSET U, Cardinality(V) = n + 1 PROVE F[V] = G[V]
    <3>1. V # {}
      BY <2>1, <2>2, FS_EmptySet
    <3> DEFINE W == V \ {Chosen(V)}
    <3>2. W \in SUBSET U /\ Cardinality(W) = n
      <4>1. Cardinality(W) = Cardinality(V) - 1
        BY <1>2, <1>4, <3>1, FS_RemoveElement
      <4> QED BY <2>1, <2>2, <4>1
    <3>3. F[W] = G[W]
      BY <1>6, <3>2
    <3>4. f[Chosen(V)] = g[Chosen(V)]
      BY <1>4, <3>1
    <3> QED BY <1>3, <3>1, <3>3, <3>4
  <2> QED BY <2>1, <2>2
<1> HIDE DEF Size
<1>7. Cardinality(U) \in Size
  BY <1>1, <1>5, <1>6, Induction
<1> QED BY <1>7 DEF Size

\* The sum depends on the values alone.
LEMMA SumSame ==
    ASSUME NEW f, NEW g, NEW S, IsFiniteSet(S), \A x \in S : f[x] = g[x]
    PROVE  SumFunctionOnSet(f, S) = SumFunctionOnSet(g, S)
<1>1. SumsUp(f, S, Sums(f, S)) /\ SumsUp(g, S, Sums(g, S))
  BY SumsExist
<1>2. Sums(f, S)[S] = Sums(g, S)[S]
  BY <1>1, SumsAgree
<1> QED BY <1>2, SumIsSums

(* The sum over no element; the sum over some, without the one that is added last. *)
LEMMA SumChosen ==
    ASSUME NEW f, NEW S, IsFiniteSet(S)
    PROVE  SumFunctionOnSet(f, S) =
             IF S = {} THEN 0
             ELSE f[Chosen(S)] + SumFunctionOnSet(f, S \ {Chosen(S)})
<1>1. SumsUp(f, S, Sums(f, S))
  BY SumsExist
<1>2. Sums(f, S)[S] = IF S = {} THEN 0 ELSE f[Chosen(S)] + Sums(f, S)[S \ {Chosen(S)}]
  BY <1>1 DEF SumsUp
<1> DEFINE T == S \ {Chosen(S)}
<1>3. IsFiniteSet(T) /\ T \subseteq S
  BY FS_RemoveElement
<1>4. SumsUp(f, T, Sums(f, T))
  BY <1>3, SumsExist
<1>5. Sums(f, S)[T] = Sums(f, T)[T]
  BY <1>1, <1>3, <1>4, SumsAgree
<1> QED BY <1>2, <1>5, SumIsSums

LEMMA SumType ==
    ASSUME NEW f, NEW S, IsFiniteSet(S), \A x \in S : f[x] \in Nat
    PROVE  SumFunctionOnSet(f, S) \in Nat
<1> DEFINE Size == {n \in 0..Cardinality(S) :
                       \A T \in SUBSET S : Cardinality(T) = n => SumFunctionOnSet(f, T) \in Nat}
<1>1. Cardinality(S) \in Nat
  BY FS_CardinalityType
<1>2. \A T \in SUBSET S : IsFiniteSet(T) /\ Cardinality(T) \in Nat
  BY FS_Subset, FS_CardinalityType
<1>3. 0 \in Size
  <2>1. \A T \in SUBSET S : Cardinality(T) = 0 => SumFunctionOnSet(f, T) = 0
    BY <1>2, FS_EmptySet, SumChosen
  <2>2. 0 \in 0..Cardinality(S)
    BY <1>1
  <2> QED BY <2>1, <2>2
<1>4. ASSUME NEW n \in 0..(Cardinality(S) - 1), n \in Size PROVE n + 1 \in Size
  <2>1. n + 1 \in 0..Cardinality(S) /\ n \in Nat
    BY <1>1
  <2>2. ASSUME NEW T \in SUBSET S, Cardinality(T) = n + 1 PROVE SumFunctionOnSet(f, T) \in Nat
    <3>1. T # {} /\ IsFiniteSet(T)
      BY <1>2, <2>1, <2>2, FS_EmptySet
    <3>2. Chosen(T) \in T
      BY <3>1 DEF Chosen
    <3> DEFINE U == T \ {Chosen(T)}
    <3>3. U \in SUBSET S /\ Cardinality(U) = n
      <4>1. Cardinality(U) = Cardinality(T) - 1
        BY <3>1, <3>2, FS_RemoveElement
      <4> QED BY <2>1, <2>2, <4>1
    <3>4. SumFunctionOnSet(f, U) \in Nat /\ f[Chosen(T)] \in Nat
      BY <1>4, <3>2, <3>3
    <3>5. SumFunctionOnSet(f, T) = f[Chosen(T)] + SumFunctionOnSet(f, U)
      BY <3>1, SumChosen
    <3> HIDE DEF U
    <3> QED BY <3>4, <3>5
  <2> QED BY <2>1, <2>2
<1> HIDE DEF Size
<1>5. Cardinality(S) \in Size
  BY <1>1, <1>3, <1>4, Induction
<1> QED BY <1>5 DEF Size

(* The order in which the elements are taken makes no difference. *)
LEMMA SumWithout ==
    ASSUME NEW f, NEW S, IsFiniteSet(S), \A x \in S : f[x] \in Nat, NEW x \in S
    PROVE  SumFunctionOnSet(f, S) = f[x] + SumFunctionOnSet(f, S \ {x})
<1> DEFINE Splits(T) == \A y \in T : SumFunctionOnSet(f, T) = f[y] + SumFunctionOnSet(f, T \ {y})
           Size == {n \in 0..Cardinality(S) : \A T \in SUBSET S : Cardinality(T) = n => Splits(T)}
<1>1. Cardinality(S) \in Nat
  BY FS_CardinalityType
<1>2. \A T \in SUBSET S : IsFiniteSet(T) /\ Cardinality(T) \in Nat
  BY FS_Subset, FS_CardinalityType
<1>3. 0 \in Size
  <2>1. \A T \in SUBSET S : Cardinality(T) = 0 => Splits(T)
    BY <1>2, FS_EmptySet
  <2>2. 0 \in 0..Cardinality(S)
    BY <1>1
  <2> QED BY <2>1, <2>2
<1>4. ASSUME NEW n \in 0..(Cardinality(S) - 1), n \in Size PROVE n + 1 \in Size
  <2>1. n + 1 \in 0..Cardinality(S) /\ n \in Nat
    BY <1>1
  <2>2. ASSUME NEW T \in SUBSET S, Cardinality(T) = n + 1, NEW y \in T
        PROVE  SumFunctionOnSet(f, T) = f[y] + SumFunctionOnSet(f, T \ {y})
    <3>1. T # {} /\ IsFiniteSet(T)
      BY <1>2
    <3>2. PICK c : c = Chosen(T)
      OBVIOUS
    <3>3. c \in T
      BY <3>1, <3>2 DEF Chosen
    <3>4. SumFunctionOnSet(f, T) = f[c] + SumFunctionOnSet(f, T \ {c})
      BY <3>1, <3>2, SumChosen
    <3>5. CASE c = y
      BY <3>4, <3>5
    <3>6. CASE c # y
      <4>1. \A z \in T : Cardinality(T \ {z}) = n /\ T \ {z} \in SUBSET S
        <5>1. \A z \in T : Cardinality(T \ {z}) = Cardinality(T) - 1
          BY <3>1, FS_RemoveElement
        <5> QED BY <2>1, <2>2, <5>1
      <4>2. Splits(T \ {c}) /\ Splits(T \ {y})
        BY <1>4, <3>3, <4>1
      <4>3. SumFunctionOnSet(f, T \ {c}) = f[y] + SumFunctionOnSet(f, (T \ {c}) \ {y})
        BY <3>6, <4>2
      <4>4. SumFunctionOnSet(f, T \ {y}) = f[c] + SumFunctionOnSet(f, (T \ {y}) \ {c})
        BY <3>3, <3>6, <4>2
      <4>5. (T \ {y}) \ {c} = (T \ {c}) \ {y}
        OBVIOUS
      <4>6. PICK rest : rest = SumFunctionOnSet(f, (T \ {c}) \ {y})
        OBVIOUS
      <4>7. rest \in Nat /\ f[c] \in Nat /\ f[y] \in Nat
        <5>1. (T \ {c}) \ {y} \in SUBSET S
          OBVIOUS
        <5> QED BY <1>2, <3>3, <4>6, <5>1, SumType
      <4>8. SumFunctionOnSet(f, T) = f[c] + (f[y] + rest)
        BY <3>4, <4>3, <4>6
      <4>9. SumFunctionOnSet(f, T \ {y}) = f[c] + rest
        BY <4>4, <4>5, <4>6
      <4> QED BY <4>7, <4>8, <4>9
    <3> QED BY <3>5, <3>6
  <2> QED BY <2>1, <2>2
<1> HIDE DEF Size
<1>5. Cardinality(S) \in Size
  BY <1>1, <1>3, <1>4, Induction
<1> QED BY <1>5 DEF Size

(* Two sums of functions that differ at one point. *)
LEMMA SumChange ==
    ASSUME NEW f, NEW g, NEW S, IsFiniteSet(S), NEW x \in S,
           \A y \in S : f[y] \in Nat /\ g[y] \in Nat,
           \A y \in S \ {x} : f[y] = g[y]
    PROVE  SumFunctionOnSet(f, S) + g[x] = SumFunctionOnSet(g, S) + f[x]
<1> DEFINE T == S \ {x}
<1>1. IsFiniteSet(T)
  BY FS_RemoveElement
<1>2. SumFunctionOnSet(f, T) = SumFunctionOnSet(g, T)
  BY <1>1, SumSame
<1>3. SumFunctionOnSet(f, T) \in Nat
  BY <1>1, SumType
<1>4. SumFunctionOnSet(f, S) = f[x] + SumFunctionOnSet(f, T)
  BY SumWithout
<1>5. SumFunctionOnSet(g, S) = g[x] + SumFunctionOnSet(g, T)
  BY SumWithout
<1>6. f[x] \in Nat /\ g[x] \in Nat
  OBVIOUS
<1> HIDE DEF T
<1> QED BY <1>2, <1>3, <1>4, <1>5, <1>6

(* Adding an element to a set that lacks it. *)
LEMMA SumWith ==
    ASSUME NEW f, NEW T, IsFiniteSet(T), NEW x, x \notin T, \A y \in T \cup {x} : f[y] \in Nat
    PROVE  SumFunctionOnSet(f, T \cup {x}) = f[x] + SumFunctionOnSet(f, T)
<1> DEFINE S == T \cup {x}
<1>1. IsFiniteSet(S)
  BY FS_AddElement
<1>2. x \in S /\ S \ {x} = T
  OBVIOUS
<1> QED BY <1>1, <1>2, SumWithout

LEMMA SumNothing == ASSUME NEW f PROVE SumFunctionOnSet(f, {}) = 0
BY FS_EmptySet, SumChosen

LEMMA SumOne == ASSUME NEW f, NEW x, f[x] \in Nat PROVE SumFunctionOnSet(f, {x}) = f[x]
<1>1. {} \cup {x} = {x} /\ IsFiniteSet({}) /\ x \notin {}
  BY FS_EmptySet
<1>2. \A y \in {} \cup {x} : f[y] \in Nat
  OBVIOUS
<1>3. SumFunctionOnSet(f, {x}) = f[x] + SumFunctionOnSet(f, {})
  BY <1>1, <1>2, SumWith
<1> QED BY <1>3, SumNothing

(* The sum of a sum of two functions. *)
LEMMA SumPlus ==
    ASSUME NEW f, NEW g, NEW h, NEW S, IsFiniteSet(S),
           \A x \in S : f[x] \in Nat /\ g[x] \in Nat /\ h[x] \in Nat /\ f[x] = g[x] + h[x]
    PROVE  SumFunctionOnSet(f, S) = SumFunctionOnSet(g, S) + SumFunctionOnSet(h, S)
<1> DEFINE Good == {T \in SUBSET S :
              SumFunctionOnSet(f, T) = SumFunctionOnSet(g, T) + SumFunctionOnSet(h, T)}
<1>1. {} \in Good
  BY SumNothing
<1>2. ASSUME NEW T \in SUBSET S, NEW x \in S \ T, T \in Good PROVE T \cup {x} \in Good
  <2>1. IsFiniteSet(T) /\ T \cup {x} \subseteq S
    BY FS_Subset
  <2>2. PICK a, b, c : /\ a = SumFunctionOnSet(f, T) /\ b = SumFunctionOnSet(g, T)
                       /\ c = SumFunctionOnSet(h, T)
    OBVIOUS
  <2>3. a \in Nat /\ b \in Nat /\ c \in Nat
    BY <2>1, <2>2, SumType
  <2>4. /\ SumFunctionOnSet(f, T \cup {x}) = f[x] + a
        /\ SumFunctionOnSet(g, T \cup {x}) = g[x] + b
        /\ SumFunctionOnSet(h, T \cup {x}) = h[x] + c
    BY <2>1, <2>2, SumWith
  <2>5. a = b + c
    BY <1>2, <2>2
  <2>6. f[x] \in Nat /\ g[x] \in Nat /\ h[x] \in Nat /\ f[x] = g[x] + h[x]
    OBVIOUS
  <2>7. f[x] + a = (g[x] + b) + (h[x] + c)
    BY <2>3, <2>5, <2>6
  <2> QED BY <2>1, <2>4, <2>7
<1> HIDE DEF Good
<1>3. S \in Good
  BY <1>1, <1>2, SetInduction
<1> QED BY <1>3 DEF Good

(* What is zero need not be counted. *)
LEMMA SumWhere ==
    ASSUME NEW f, NEW S, IsFiniteSet(S), NEW T, T \subseteq S,
           \A x \in S : f[x] \in Nat, \A x \in S \ T : f[x] = 0
    PROVE  SumFunctionOnSet(f, S) = SumFunctionOnSet(f, T)
<1> DEFINE Good == {U \in SUBSET S : SumFunctionOnSet(f, U) = SumFunctionOnSet(f, U \cap T)}
<1>1. {} \in Good
  <2>1. {} \cap T = {}
    OBVIOUS
  <2> QED BY <2>1
<1>2. ASSUME NEW U \in SUBSET S, NEW x \in S \ U, U \in Good PROVE U \cup {x} \in Good
  <2>1. IsFiniteSet(U) /\ IsFiniteSet(U \cap T) /\ U \cup {x} \subseteq S
    BY FS_Subset
  <2>2. SumFunctionOnSet(f, U \cup {x}) = f[x] + SumFunctionOnSet(f, U)
    BY <2>1, SumWith
  <2>3. SumFunctionOnSet(f, U) = SumFunctionOnSet(f, U \cap T)
    BY <1>2
  <2>4. CASE x \in T
    <3>1. (U \cup {x}) \cap T = (U \cap T) \cup {x} /\ x \notin U \cap T
      BY <2>4
    <3>2. \A y \in (U \cap T) \cup {x} : f[y] \in Nat
      BY <2>4
    <3>3. SumFunctionOnSet(f, (U \cap T) \cup {x}) = f[x] + SumFunctionOnSet(f, U \cap T)
      BY <2>1, <3>1, <3>2, SumWith
    <3> QED BY <2>1, <2>2, <2>3, <3>1, <3>3
  <2>5. CASE x \notin T
    <3>1. (U \cup {x}) \cap T = U \cap T /\ f[x] = 0
      BY <2>5
    <3>2. SumFunctionOnSet(f, U) \in Nat
      BY <2>1, SumType
    <3>3. SumFunctionOnSet(f, U \cup {x}) = SumFunctionOnSet(f, U)
      BY <2>2, <3>1, <3>2
    <3> QED BY <2>1, <2>3, <3>1, <3>3
  <2> QED BY <2>4, <2>5
<1> HIDE DEF Good
<1>3. S \in Good
  BY <1>1, <1>2, SetInduction
<1>4. SumFunctionOnSet(f, S) = SumFunctionOnSet(f, S \cap T)
  BY <1>3 DEF Good
<1>5. S \cap T = T
  OBVIOUS
<1> QED BY <1>4, <1>5

LEMMA SumZero ==
    ASSUME NEW f, NEW S, IsFiniteSet(S), \A x \in S : f[x] = 0
    PROVE  SumFunctionOnSet(f, S) = 0
<1>1. SumFunctionOnSet(f, S) = SumFunctionOnSet(f, {})
  BY SumWhere
<1> QED BY <1>1, SumNothing

\* Sums over two sets without a common element add up.
LEMMA SumUnion ==
    ASSUME NEW f, NEW S, NEW T, IsFiniteSet(S), IsFiniteSet(T), S \cap T = {},
           \A x \in S \cup T : f[x] \in Nat
    PROVE  SumFunctionOnSet(f, S \cup T) = SumFunctionOnSet(f, S) + SumFunctionOnSet(f, T)
<1> DEFINE Both == S \cup T
           g == [x \in Both |-> IF x \in S THEN f[x] ELSE 0]
           h == [x \in Both |-> IF x \in S THEN 0 ELSE f[x]]
<1>1. IsFiniteSet(Both) /\ S \subseteq Both /\ T \subseteq Both
  BY FS_Union
<1>2. \A x \in Both : f[x] \in Nat /\ g[x] \in Nat /\ h[x] \in Nat /\ f[x] = g[x] + h[x]
  OBVIOUS
<1>3. (\A x \in Both \ S : g[x] = 0) /\ (\A x \in S : g[x] = f[x])
  OBVIOUS
<1>4. (\A x \in Both \ T : h[x] = 0) /\ (\A x \in T : h[x] = f[x])
  OBVIOUS
<1> HIDE DEF g, h, Both
<1>5. SumFunctionOnSet(f, Both) = SumFunctionOnSet(g, Both) + SumFunctionOnSet(h, Both)
  BY <1>1, <1>2, SumPlus
<1>6. SumFunctionOnSet(g, Both) = SumFunctionOnSet(g, S)
  BY <1>1, <1>2, <1>3, SumWhere
<1>7. SumFunctionOnSet(h, Both) = SumFunctionOnSet(h, T)
  BY <1>1, <1>2, <1>4, SumWhere
<1>8. SumFunctionOnSet(g, S) = SumFunctionOnSet(f, S)
  BY <1>3, SumSame
<1>9. SumFunctionOnSet(h, T) = SumFunctionOnSet(f, T)
  BY <1>4, SumSame
<1> QED BY <1>5, <1>6, <1>7, <1>8, <1>9 DEF Both

-----------------------------------------------------------------------------
(* Weights.  Worth is one; counting the items gives each kind the weight one.  *)
(* What lies in slots and on the ground is weighed kind by kind.               *)

SoundStacks == {stack \in Stack : Sound(stack)}

Weights == [Kinds -> Nat]

Weighs(stack, w) == IF stack = Empty THEN 0 ELSE stack.count * w[stack.kind]

Load(inv, where, w) == SumFunctionOnSet([s \in where |-> Weighs(inv[s], w)], where)

Lying(g, w) == SumFunctionOnSet([k \in Kinds |-> g[k] * w[k]], Kinds)

LEMMA TimesNat == \A a, b \in Nat : a * b \in Nat
OBVIOUS

LEMMA Distributes == \A a, b, c \in Nat : (a + b) * c = a * c + b * c
OBVIOUS

\* What a sound stack is, in terms of its fields.
LEMMA StackFacts ==
    ASSUME NEW stack \in Stack, Sound(stack)
    PROVE  /\ stack \in SoundStacks
           /\ stack = Empty <=> stack.kind = NoKind
           /\ stack = Empty => stack.count = 0
           /\ stack # Empty => /\ stack.kind \in Kinds
                               /\ stack.count \in Nat \ {0}
                               /\ MaxStackOf[stack.kind] \in Nat \ {0}
                               /\ stack.count <= MaxStackOf[stack.kind]
BY StacksAssumption DEF Sound, SoundStacks, Stack, Empty

LEMMA StackOfFacts ==
    ASSUME NEW k \in Kinds, NEW n \in Nat, NEW w \in Weights
    PROVE  /\ StackOf(k, n) \in Stack /\ StackOf(k, n) # Empty
           /\ StackOf(k, n).kind = k /\ StackOf(k, n).count = n
           /\ Weighs(StackOf(k, n), w) = n * w[k]
           /\ n \in 1 .. MaxStackOf[k] => Sound(StackOf(k, n))
BY StacksAssumption DEF Sound, Stack, Empty, StackOf, Weighs, Weights

LEMMA EmptyFacts ==
    /\ Sound(Empty) /\ Empty \in SoundStacks /\ Empty.kind = NoKind /\ Empty.count = 0
    /\ \A w : Weighs(Empty, w) = 0
BY DEF Sound, SoundStacks, Stack, Empty, Weighs

LEMMA WeighsType ==
    ASSUME NEW stack \in SoundStacks, NEW w \in Weights
    PROVE  Weighs(stack, w) \in Nat
<1>1. CASE stack = Empty
  BY <1>1 DEF Weighs
<1>2. CASE stack # Empty
  <2>1. stack.count \in Nat /\ w[stack.kind] \in Nat
    BY <1>2, StackFacts DEF SoundStacks, Weights
  <2> QED BY <1>2, <2>1, TimesNat DEF Weighs
<1> QED BY <1>1, <1>2

\* Some items fewer, or none left.
LEMMA LessFacts ==
    ASSUME NEW stack \in SoundStacks, stack # Empty, NEW n \in 1 .. stack.count,
           NEW w \in Weights
    PROVE  /\ Less(stack, n) \in SoundStacks
           /\ Weighs(Less(stack, n), w) + n * w[stack.kind] = Weighs(stack, w)
           /\ Less(stack, n).count + n = stack.count
<1>1. /\ stack.kind \in Kinds /\ stack.count \in Nat /\ n \in Nat /\ n <= stack.count
      /\ stack.count <= MaxStackOf[stack.kind]
  BY StackFacts DEF SoundStacks
<1>2. w[stack.kind] \in Nat
  BY <1>1 DEF Weights
<1>3. Weighs(stack, w) = stack.count * w[stack.kind]
  BY DEF Weighs
<1>4. n * w[stack.kind] \in Nat
  BY <1>1, <1>2, TimesNat
<1>5. CASE stack.count <= n
  <2>1. Less(stack, n) = Empty /\ n = stack.count
    BY <1>1, <1>5 DEF Less
  <2> QED BY <1>3, <1>4, <2>1, EmptyFacts, <1>1
<1>6. CASE ~ (stack.count <= n)
  <2>1. PICK m \in Nat : m = stack.count - n
    BY <1>1, <1>6
  <2>2. m # 0 /\ m + n = stack.count /\ m <= MaxStackOf[stack.kind]
    BY <1>1, <1>6, <2>1, StacksAssumption
  <2>3. Less(stack, n) = StackOf(stack.kind, m)
    BY <1>6, <2>1 DEF Less, StackOf, SoundStacks, Stack
  <2>4. /\ Weighs(StackOf(stack.kind, m), w) = m * w[stack.kind]
        /\ StackOf(stack.kind, m) \in SoundStacks /\ StackOf(stack.kind, m).count = m
    BY <1>1, <2>2, StackOfFacts, StacksAssumption DEF SoundStacks
  <2>5. m * w[stack.kind] + n * w[stack.kind] = stack.count * w[stack.kind]
    BY <1>1, <1>2, <2>2, Distributes
  <2> QED BY <1>3, <2>2, <2>3, <2>4, <2>5
<1> QED BY <1>5, <1>6

LEMMA LoadType ==
    ASSUME NEW inv, NEW S, IsFiniteSet(S), \A s \in S : inv[s] \in SoundStacks, NEW w \in Weights
    PROVE  Load(inv, S, w) \in Nat
<1> DEFINE f == [s \in S |-> Weighs(inv[s], w)]
<1>1. \A s \in S : f[s] \in Nat
  BY WeighsType
<1> HIDE DEF f
<1>2. SumFunctionOnSet(f, S) \in Nat
  BY <1>1, SumType
<1> QED BY <1>2 DEF f, Load

\* The load depends on what is in the slots alone.
LEMMA LoadSame ==
    ASSUME NEW inv, NEW other, NEW S, IsFiniteSet(S), \A s \in S : inv[s] = other[s], NEW w
    PROVE  Load(inv, S, w) = Load(other, S, w)
<1>1. [s \in S |-> Weighs(inv[s], w)] = [s \in S |-> Weighs(other[s], w)]
  OBVIOUS
<1> QED BY <1>1 DEF Load

\* One slot changes.
LEMMA LoadChange ==
    ASSUME NEW inv, NEW other, NEW S, IsFiniteSet(S), NEW x \in S, NEW w \in Weights,
           \A s \in S : inv[s] \in SoundStacks /\ other[s] \in SoundStacks,
           \A s \in S \ {x} : inv[s] = other[s]
    PROVE  Load(inv, S, w) + Weighs(other[x], w) = Load(other, S, w) + Weighs(inv[x], w)
<1> DEFINE f == [s \in S |-> Weighs(inv[s], w)]
           g == [s \in S |-> Weighs(other[s], w)]
<1>1. \A s \in S : f[s] \in Nat /\ g[s] \in Nat
  BY WeighsType
<1>2. \A s \in S \ {x} : f[s] = g[s]
  OBVIOUS
<1>3. f[x] = Weighs(inv[x], w) /\ g[x] = Weighs(other[x], w)
  OBVIOUS
<1> HIDE DEF f, g
<1>4. SumFunctionOnSet(f, S) + g[x] = SumFunctionOnSet(g, S) + f[x]
  BY <1>1, <1>2, SumChange
<1> QED BY <1>3, <1>4 DEF f, g, Load

LEMMA LyingType ==
    ASSUME NEW g \in [Kinds -> Nat], NEW w \in Weights
    PROVE  Lying(g, w) \in Nat
<1> DEFINE f == [k \in Kinds |-> g[k] * w[k]]
<1>1. \A k \in Kinds : f[k] \in Nat
  BY TimesNat DEF Weights
<1> HIDE DEF f
<1>2. SumFunctionOnSet(f, Kinds) \in Nat
  BY <1>1, SumType, StacksAssumption
<1> QED BY <1>2 DEF f, Lying

\* n more items of kind k on the ground.
LEMMA LyingMore ==
    ASSUME NEW g \in [Kinds -> Nat], NEW h \in [Kinds -> Nat], NEW w \in Weights,
           NEW k \in Kinds, NEW n \in Nat, h[k] = g[k] + n, \A j \in Kinds \ {k} : h[j] = g[j]
    PROVE  Lying(h, w) = Lying(g, w) + n * w[k]
<1> DEFINE f1 == [j \in Kinds |-> g[j] * w[j]]
           f2 == [j \in Kinds |-> h[j] * w[j]]
<1>1. \A j \in Kinds : f1[j] \in Nat /\ f2[j] \in Nat
  BY TimesNat DEF Weights
<1>2. \A j \in Kinds \ {k} : f2[j] = f1[j]
  OBVIOUS
<1>3. f2[k] = h[k] * w[k] /\ f1[k] = g[k] * w[k]
  OBVIOUS
<1> HIDE DEF f1, f2
<1>4. SumFunctionOnSet(f2, Kinds) + f1[k] = SumFunctionOnSet(f1, Kinds) + f2[k]
  BY <1>1, <1>2, SumChange, StacksAssumption
<1>5. h[k] * w[k] = g[k] * w[k] + n * w[k] /\ n * w[k] \in Nat
  BY Distributes, TimesNat DEF Weights
<1>6. PICK a, b \in Nat : a = SumFunctionOnSet(f1, Kinds) /\ b = SumFunctionOnSet(f2, Kinds)
  BY <1>1, SumType, StacksAssumption
<1>7. f2[k] = f1[k] + n * w[k]
  BY <1>3, <1>5
<1>8. f1[k] \in Nat /\ f2[k] \in Nat
  BY <1>1
<1>9. b = a + n * w[k]
  BY <1>4, <1>5, <1>6, <1>7, <1>8
<1> QED BY <1>6, <1>9 DEF f1, f2, Lying

(* What is spilled lies on the ground. *)
LEMMA SpilledLies ==
    ASSUME NEW g \in [Kinds -> Nat], NEW stacks, IsFiniteSet(DOMAIN stacks),
           \A i \in DOMAIN stacks : stacks[i] \in SoundStacks, NEW w \in Weights
    PROVE  /\ Spilled(g, stacks) \in [Kinds -> Nat]
           /\ Lying(Spilled(g, stacks), w) = Lying(g, w) + Load(stacks, DOMAIN stacks, w)
<1> DEFINE D == DOMAIN stacks
           Of(k) == [i \in D |-> IF stacks[i].kind = k THEN stacks[i].count ELSE 0]
           Heap(T) == [k \in Kinds |-> g[k] + SumFunctionOnSet(Of(k), T)]
           f == [i \in D |-> Weighs(stacks[i], w)]
           Good == {T \in SUBSET D : Lying(Heap(T), w) = Lying(g, w) + SumFunctionOnSet(f, T)}
<1>1. \A i \in D : f[i] \in Nat
  BY WeighsType
<1>2. \A k \in Kinds : \A i \in D : Of(k)[i] \in Nat
  <2> SUFFICES ASSUME NEW k \in Kinds, NEW i \in D PROVE stacks[i].count \in Nat
    OBVIOUS
  <2> QED BY DEF SoundStacks, Stack
<1> HIDE DEF Of
<1>3. \A T \in SUBSET D : IsFiniteSet(T)
  BY FS_Subset
<1>4. ASSUME NEW T \in SUBSET D PROVE Heap(T) \in [Kinds -> Nat]
  <2>1. \A k \in Kinds : SumFunctionOnSet(Of(k), T) \in Nat
    BY <1>2, <1>3, SumType
  <2> QED BY <2>1
<1>5. {} \in Good
  <2>1. Heap({}) = g
    BY SumNothing
  <2>2. Lying(g, w) \in Nat
    BY LyingType
  <2> QED BY <2>1, <2>2, SumNothing
<1>6. ASSUME NEW T \in SUBSET D, NEW x \in D \ T, T \in Good PROVE T \cup {x} \in Good
  <2>1. T \cup {x} \in SUBSET D /\ IsFiniteSet(T)
    BY <1>3
  <2>2. \A k \in Kinds : SumFunctionOnSet(Of(k), T \cup {x}) = Of(k)[x] + SumFunctionOnSet(Of(k), T)
    BY <1>2, <2>1, SumWith
  <2>3. SumFunctionOnSet(f, T \cup {x}) = f[x] + SumFunctionOnSet(f, T)
    BY <1>1, <2>1, SumWith
  <2>4. PICK a, b \in Nat : a = Lying(g, w) /\ b = SumFunctionOnSet(f, T)
    <3>1. SumFunctionOnSet(f, T) \in Nat
      BY <1>1, <2>1, SumType
    <3> QED BY <3>1, LyingType
  <2>5. Lying(Heap(T), w) = a + b
    BY <1>6, <2>4
  <2>6. \A k \in Kinds : SumFunctionOnSet(Of(k), T) \in Nat
    BY <1>2, <2>1, SumType
  <2>7. CASE stacks[x] = Empty
    <3>1. \A k \in Kinds : Of(k)[x] = 0
      BY <2>7, EmptyFacts, StacksAssumption DEF Of
    <3>2. ASSUME NEW k \in Kinds
          PROVE  SumFunctionOnSet(Of(k), T \cup {x}) = SumFunctionOnSet(Of(k), T)
      <4>1. /\ SumFunctionOnSet(Of(k), T) \in Nat
            /\ SumFunctionOnSet(Of(k), T \cup {x}) = 0 + SumFunctionOnSet(Of(k), T)
        BY <2>2, <2>6, <3>1
      <4> QED BY <4>1
    <3>3. Heap(T \cup {x}) = Heap(T)
      BY <3>2
    <3>4. f[x] = 0
      BY <2>7, EmptyFacts
    <3> HIDE DEF Heap, f
    <3> QED BY <2>1, <2>3, <2>4, <2>5, <3>3, <3>4
  <2>8. CASE stacks[x] # Empty
    <3>1. stacks[x].kind \in Kinds /\ stacks[x].count \in Nat
      BY <2>8, StackFacts DEF SoundStacks
    <3>2. PICK k \in Kinds, n \in Nat : k = stacks[x].kind /\ n = stacks[x].count
      BY <3>1
    <3>3. Of(k)[x] = n /\ \A j \in Kinds \ {k} : Of(j)[x] = 0
      BY <3>2 DEF Of
    <3>4. Heap(T \cup {x})[k] = Heap(T)[k] + n
      <4>1. /\ g[k] \in Nat /\ SumFunctionOnSet(Of(k), T) \in Nat
            /\ SumFunctionOnSet(Of(k), T \cup {x}) = n + SumFunctionOnSet(Of(k), T)
        BY <2>2, <2>6, <3>3
      <4> QED BY <4>1
    <3>5. ASSUME NEW j \in Kinds \ {k} PROVE Heap(T \cup {x})[j] = Heap(T)[j]
      <4>1. /\ SumFunctionOnSet(Of(j), T) \in Nat
            /\ SumFunctionOnSet(Of(j), T \cup {x}) = 0 + SumFunctionOnSet(Of(j), T)
        BY <2>2, <2>6, <3>3
      <4> QED BY <4>1
    <3>6. f[x] = n * w[k]
      BY <2>8, <3>2 DEF Weighs
    <3>7. Heap(T) \in [Kinds -> Nat] /\ Heap(T \cup {x}) \in [Kinds -> Nat]
      BY <1>4, <2>1
    <3> HIDE DEF Heap
    <3>8. Lying(Heap(T \cup {x}), w) = Lying(Heap(T), w) + n * w[k]
      <4>1. PICK one, two \in [Kinds -> Nat] : one = Heap(T) /\ two = Heap(T \cup {x})
        BY <3>7
      <4>2. two[k] = one[k] + n
        BY <3>4, <4>1
      <4>3. \A j \in Kinds \ {k} : two[j] = one[j]
        BY <3>5, <4>1
      <4>4. Lying(two, w) = Lying(one, w) + n * w[k]
        BY <4>2, <4>3, LyingMore
      <4> QED BY <4>1, <4>4
    <3>9. f[x] \in Nat
      BY <1>1
    <3> HIDE DEF f
    <3> QED BY <2>1, <2>3, <2>4, <2>5, <3>6, <3>8, <3>9
  <2> QED BY <2>7, <2>8
<1>7. D \in Good
  <2> HIDE DEF Good
  <2> QED BY <1>5, <1>6, SetInduction
<1>8. Heap(D) = Spilled(g, stacks)
  BY DEF Spilled, SumFunction, Of
<1>9. D \in SUBSET D
  OBVIOUS
<1> QED BY <1>4, <1>7, <1>8, <1>9 DEF Load

-----------------------------------------------------------------------------
(* Merging a stack into slots that are visited in some order, each once. *)

Visits(order, D) ==
    /\ Len(order) \in Nat
    /\ order \in [1 .. Len(order) -> D]
    /\ \A i, j \in 1 .. Len(order) : order[i] = order[j] => i = j

Visited(order) == {order[i] : i \in 1 .. Len(order)}

RoomIn(inv, stack, order, i) ==
    IF inv[order[i]].kind = stack.kind /\ IsStackable(stack.kind)
    THEN MaxStackOf[stack.kind] - inv[order[i]].count ELSE 0

FillsUp(inv, stack, order, left) ==
    left = [i \in 0 .. Len(order) |->
              IF i = 0 THEN stack.count
              ELSE left[i - 1] - Smaller(RoomIn(inv, stack, order, i), left[i - 1])]

LEMMA FillUpIs ==
    ASSUME NEW inv, NEW stack, NEW order
    PROVE  FillUp(inv, stack, order) = CHOOSE left : FillsUp(inv, stack, order, left)
BY DEF FillUp, FillsUp, RoomIn

\* FillUp is what its recursion says, step by step along the order.
LEMMA FillUpExists ==
    ASSUME NEW inv, NEW stack, NEW order, Len(order) \in Nat
    PROVE  FillsUp(inv, stack, order, FillUp(inv, stack, order))
<1> DEFINE N == Len(order)
           Body(g, i) == IF i = 0 THEN stack.count
                         ELSE g[i - 1] - Smaller(RoomIn(inv, stack, order, i), g[i - 1])
           Upto(n, g) == \A i \in 0 .. n : g[i] = Body(g, i)
           Good == {n \in 0 .. N : \E g : Upto(n, g)}
<1>1. 0 \in Good
  <2> DEFINE g == [i \in 0 .. N |-> stack.count]
  <2>1. Upto(0, g)
    <3>1. 0 \in 0 .. N
      OBVIOUS
    <3> QED BY <3>1
  <2> HIDE DEF g
  <2>2. \E k : Upto(0, k)
    BY <2>1
  <2> QED BY <2>2
<1>2. ASSUME NEW n \in 0 .. (N - 1), n \in Good PROVE n + 1 \in Good
  <2>1. n + 1 \in 0 .. N /\ n \in 0 .. N
    OBVIOUS
  <2>2. PICK g : Upto(n, g)
    BY <1>2
  <2> DEFINE h == [i \in 0 .. N |-> IF i <= n THEN g[i] ELSE Body(g, i)]
  <2>3. ASSUME NEW i \in 0 .. n + 1 PROVE h[i] = Body(h, i)
    <3>1. i \in 0 .. N
      BY <2>1
    <3>2. h[i] = Body(g, i)
      BY <2>2, <3>1
    <3>3. CASE i = 0
      BY <3>2, <3>3
    <3>4. CASE i # 0
      <4>1. i - 1 \in 0 .. N /\ i - 1 <= n
        BY <3>1, <3>4
      <4>2. h[i - 1] = g[i - 1]
        BY <4>1
      <4> QED BY <3>2, <3>4, <4>2
    <3> QED BY <3>3, <3>4
  <2> HIDE DEF h
  <2>4. Upto(n + 1, h)
    BY <2>3
  <2> QED BY <2>1, <2>4
<1> HIDE DEF Good
<1>3. N \in Good
  <2>1. N \in 0 .. N
    OBVIOUS
  <2> QED BY <1>1, <1>2, <2>1, Induction
<1>4. PICK g : Upto(N, g)
  BY <1>3 DEF Good
<1> DEFINE h == [i \in 0 .. N |-> g[i]]
<1>5. ASSUME NEW i \in 0 .. N PROVE h[i] = Body(h, i)
  <2>1. CASE i = 0
    BY <1>4, <2>1
  <2>2. CASE i # 0
    <3>1. i - 1 \in 0 .. N
      BY <2>2
    <3> QED BY <1>4, <2>2, <3>1
  <2> QED BY <2>1, <2>2
<1>6. h = [i \in 0 .. N |-> Body(h, i)]
  BY <1>5
<1>7. FillsUp(inv, stack, order, h)
  BY <1>6 DEF FillsUp
<1> QED BY <1>7, FillUpIs

LEMMA SmallerFacts ==
    \A a, b \in Nat : Smaller(a, b) \in Nat /\ Smaller(a, b) <= a /\ Smaller(a, b) <= b
BY DEF Smaller

\* No stack grows over its maximum, and what a slot takes is gone from the rest.
LEMMA FillUpFacts ==
    ASSUME NEW D, NEW inv \in [D -> SoundStacks], NEW stack \in SoundStacks, stack # Empty,
           NEW order, Visits(order, D), NEW left, left = FillUp(inv, stack, order)
    PROVE  /\ left[0] = stack.count
           /\ \A i \in 0 .. Len(order) : left[i] \in 0 .. stack.count
           /\ \A i \in 1 .. Len(order) :
                 /\ left[i] <= left[i - 1]
                 /\ \/ left[i] = left[i - 1]
                    \/ /\ inv[order[i]] # Empty /\ inv[order[i]].kind = stack.kind
                       /\ inv[order[i]].count + left[i - 1] - left[i] <= MaxStackOf[stack.kind]
<1> DEFINE N == Len(order)
           Good == {i \in 0 .. N : left[i] \in 0 .. stack.count}
<1>1. N \in Nat
  BY DEF Visits
<1>2. FillsUp(inv, stack, order, left)
  BY <1>1, FillUpExists
<1>3. left[0] = stack.count
  <2>1. 0 \in 0 .. N
    BY <1>1
  <2> QED BY <1>2, <2>1 DEF FillsUp
<1>4. \A i \in 1 .. N : left[i] = left[i - 1] - Smaller(RoomIn(inv, stack, order, i), left[i - 1])
  <2>1. \A i \in 1 .. N : i \in 0 .. N /\ i # 0
    BY <1>1
  <2> QED BY <1>2, <2>1 DEF FillsUp
<1>5. stack.kind \in Kinds /\ stack.count \in Nat /\ MaxStackOf[stack.kind] \in Nat /\ stack.kind # NoKind
  BY StackFacts, StacksAssumption DEF SoundStacks
<1>6. ASSUME NEW i \in 1 .. N
      PROVE  /\ RoomIn(inv, stack, order, i) \in Nat
             /\ RoomIn(inv, stack, order, i) # 0 =>
                   /\ inv[order[i]] # Empty /\ inv[order[i]].kind = stack.kind
                   /\ inv[order[i]].count \in Nat
                   /\ RoomIn(inv, stack, order, i) = MaxStackOf[stack.kind] - inv[order[i]].count
  <2>1. inv[order[i]] \in SoundStacks
    BY DEF Visits
  <2>2. CASE inv[order[i]].kind = stack.kind /\ IsStackable(stack.kind)
    <3>1. /\ inv[order[i]] # Empty /\ inv[order[i]].count \in Nat
          /\ inv[order[i]].count <= MaxStackOf[stack.kind]
      BY <1>5, <2>1, <2>2, StackFacts DEF SoundStacks
    <3>2. RoomIn(inv, stack, order, i) = MaxStackOf[stack.kind] - inv[order[i]].count
      BY <2>2 DEF RoomIn
    <3> QED BY <1>5, <2>2, <3>1, <3>2
  <2>3. CASE ~ (inv[order[i]].kind = stack.kind /\ IsStackable(stack.kind))
    <3>1. RoomIn(inv, stack, order, i) = 0
      BY <2>3 DEF RoomIn
    <3> QED BY <3>1
  <2> QED BY <2>2, <2>3
<1>7. 0 \in Good
  BY <1>1, <1>3, <1>5
<1>8. ASSUME NEW i \in 0 .. (N - 1), i \in Good PROVE i + 1 \in Good
  <2>1. i + 1 \in 1 .. N /\ (i + 1) - 1 = i /\ i + 1 \in 0 .. N
    BY <1>1
  <2>2. PICK j : j = i + 1
    OBVIOUS
  <2>3. left[j] = left[i] - Smaller(RoomIn(inv, stack, order, j), left[i])
    BY <1>4, <2>1, <2>2
  <2>4. left[i] \in Nat /\ left[i] <= stack.count
    BY <1>5, <1>8
  <2>5. RoomIn(inv, stack, order, j) \in Nat
    BY <1>6, <2>1, <2>2
  <2>6. PICK t \in Nat : t = Smaller(RoomIn(inv, stack, order, j), left[i]) /\ t <= left[i]
    BY <2>4, <2>5, SmallerFacts
  <2>7. left[j] \in 0 .. stack.count
    BY <1>5, <2>3, <2>4, <2>6
  <2> QED BY <2>1, <2>2, <2>7
<1>9. \A i \in 0 .. N : left[i] \in 0 .. stack.count
  <2> HIDE DEF Good
  <2>1. \A i \in 0 .. N : i \in Good
    BY <1>1, <1>7, <1>8, Induction
  <2> QED BY <2>1 DEF Good
<1>10. ASSUME NEW i \in 1 .. N
       PROVE  /\ left[i] <= left[i - 1]
              /\ \/ left[i] = left[i - 1]
                 \/ /\ inv[order[i]] # Empty /\ inv[order[i]].kind = stack.kind
                    /\ inv[order[i]].count + left[i - 1] - left[i] <= MaxStackOf[stack.kind]
  <2>1. i - 1 \in 0 .. N
    BY <1>1
  <2>2. PICK a \in Nat : a = left[i - 1]
    BY <1>5, <1>9, <2>1
  <2>3. PICK r \in Nat : r = RoomIn(inv, stack, order, i)
    BY <1>6
  <2>4. left[i] = a - Smaller(r, a)
    BY <1>4, <2>2, <2>3
  <2>5. CASE r = 0
    <3>1. Smaller(r, a) = 0
      BY <2>5 DEF Smaller
    <3> QED BY <2>2, <2>4, <3>1
  <2>6. CASE r # 0
    <3>1. /\ inv[order[i]] # Empty /\ inv[order[i]].kind = stack.kind
          /\ inv[order[i]].count \in Nat /\ r = MaxStackOf[stack.kind] - inv[order[i]].count
      BY <1>6, <2>3, <2>6
    <3>2. PICK t \in Nat : t = Smaller(r, a) /\ t <= r /\ t <= a
      BY SmallerFacts
    <3>3. left[i] = a - t
      BY <2>4, <3>2
    <3>4. PICK c \in Nat, m \in Nat : c = inv[order[i]].count /\ m = MaxStackOf[stack.kind]
      BY <1>5, <3>1
    <3>5. c + a - (a - t) <= m
      <4>1. r = m - c
        BY <3>1, <3>4
      <4>2. c + t <= m
        BY <3>2, <4>1
      <4>3. c + a - (a - t) = c + t
        OBVIOUS
      <4> QED BY <4>2, <4>3
    <3> QED BY <2>2, <3>1, <3>2, <3>3, <3>4, <3>5
  <2> QED BY <2>5, <2>6
<1> QED BY <1>3, <1>9, <1>10

\* A stack that takes a - b of the items that are merged.
LEMMA FilledStack ==
    ASSUME NEW stack \in SoundStacks, NEW k \in Kinds, NEW w \in Weights,
           NEW a \in Nat, NEW b \in Nat, b <= a,
           \/ b = a
           \/ stack # Empty /\ stack.kind = k /\ stack.count + a - b <= MaxStackOf[k],
           NEW full, full = [stack EXCEPT !.count = @ + a - b]
    PROVE  /\ full \in SoundStacks
           /\ full = Empty <=> stack = Empty
           /\ Weighs(full, w) + b * w[k] = Weighs(stack, w) + a * w[k]
<1>1. stack = [kind |-> stack.kind, count |-> stack.count] /\ stack.count \in Nat
  BY DEF SoundStacks, Stack
<1>2. full = [kind |-> stack.kind, count |-> stack.count + a - b]
  BY <1>1
<1>3. CASE b = a
  <2>1. stack.count + a - b = stack.count
    BY <1>1, <1>3
  <2>2. full = stack
    BY <1>1, <1>2, <2>1
  <2> QED BY <1>3, <2>2
<1>4. CASE b # a
  <2>1. stack # Empty /\ stack.kind = k /\ stack.count + a - b <= MaxStackOf[k]
    BY <1>4
  <2>2. stack.count \in Nat \ {0} /\ MaxStackOf[k] \in Nat
    BY <2>1, StackFacts, StacksAssumption DEF SoundStacks
  <2>3. PICK c \in Nat : c = stack.count
    BY <2>2
  <2>4. PICK n \in Nat : n = c + a - b
    BY <2>3
  <2>5. n \in 1 .. MaxStackOf[k]
    BY <2>1, <2>2, <2>3, <2>4
  <2>6. full = StackOf(k, n)
    BY <1>2, <2>1, <2>3, <2>4 DEF StackOf
  <2>7. full \in SoundStacks /\ full # Empty /\ Weighs(full, w) = n * w[k]
    BY <2>5, <2>6, StackOfFacts DEF SoundStacks
  <2>8. Weighs(stack, w) = c * w[k]
    BY <2>1, <2>3 DEF Weighs
  <2>9. w[k] \in Nat /\ n + b = c + a
    BY <2>4 DEF Weights
  <2>10. n * w[k] + b * w[k] = (n + b) * w[k] /\ c * w[k] + a * w[k] = (c + a) * w[k]
    BY <2>9, Distributes
  <2> QED BY <2>1, <2>7, <2>8, <2>9, <2>10
<1> QED BY <1>3, <1>4

-----------------------------------------------------------------------------

At(order, s) == CHOOSE i \in 1 .. Len(order) : order[i] = s

FilledIn(inv, order, left, s) ==
    IF s \in Visited(order)
    THEN [inv[s] EXCEPT !.count = @ + left[At(order, s) - 1] - left[At(order, s)]]
    ELSE inv[s]

Filled(inv, order, left) == [s \in DOMAIN inv |-> FilledIn(inv, order, left, s)]

LEMMA AtFacts ==
    ASSUME NEW D, NEW order, Visits(order, D)
    PROVE  /\ \A i \in 1 .. Len(order) : At(order, order[i]) = i
           /\ \A s \in Visited(order) : At(order, s) \in 1 .. Len(order) /\ order[At(order, s)] = s
           /\ Visited(order) \subseteq D
BY DEF Visits, Visited, At

LEMMA FilledFacts ==
    ASSUME NEW D, NEW inv \in [D -> SoundStacks], NEW stack \in SoundStacks, stack # Empty,
           NEW order, Visits(order, D), NEW left, left = FillUp(inv, stack, order),
           NEW w \in Weights
    PROVE  /\ Filled(inv, order, left) \in [D -> SoundStacks]
           /\ \A s \in D \ Visited(order) : Filled(inv, order, left)[s] = inv[s]
           /\ \A s \in D : Filled(inv, order, left)[s] = Empty <=> inv[s] = Empty
           /\ \A i \in 1 .. Len(order) :
                 Weighs(Filled(inv, order, left)[order[i]], w) + left[i] * w[stack.kind]
                    = Weighs(inv[order[i]], w) + left[i - 1] * w[stack.kind]
<1> DEFINE N == Len(order)
<1>1. stack.kind \in Kinds /\ stack.count \in Nat /\ N \in Nat
  BY StackFacts DEF SoundStacks, Visits
<1>2. ASSUME NEW i \in 1 .. N, NEW full, full = Filled(inv, order, left)[order[i]]
      PROVE  /\ full \in SoundStacks
             /\ full = Empty <=> inv[order[i]] = Empty
             /\ Weighs(full, w) + left[i] * w[stack.kind]
                   = Weighs(inv[order[i]], w) + left[i - 1] * w[stack.kind]
  <2>1. order[i] \in D /\ order[i] \in Visited(order) /\ At(order, order[i]) = i
    BY AtFacts DEF Visits, Visited
  <2>2. i - 1 \in 0 .. N /\ i \in 0 .. N
    BY <1>1
  <2>3. PICK a, b \in Nat : a = left[i - 1] /\ b = left[i]
    BY <1>1, <2>2, FillUpFacts
  <2>4. /\ b <= a
        /\ \/ b = a
           \/ /\ inv[order[i]] # Empty /\ inv[order[i]].kind = stack.kind
              /\ inv[order[i]].count + a - b <= MaxStackOf[stack.kind]
    BY <2>3, FillUpFacts
  <2>5. full = [inv[order[i]] EXCEPT !.count = @ + a - b]
    BY <1>2, <2>1, <2>3 DEF Filled, FilledIn
  <2>6. inv[order[i]] \in SoundStacks
    BY <2>1
  <2>7. PICK st \in SoundStacks, k \in Kinds : st = inv[order[i]] /\ k = stack.kind
    BY <1>1, <2>6
  <2>8. /\ full \in SoundStacks
        /\ full = Empty <=> st = Empty
        /\ Weighs(full, w) + b * w[k] = Weighs(st, w) + a * w[k]
    <3>1. \/ b = a
          \/ st # Empty /\ st.kind = k /\ st.count + a - b <= MaxStackOf[k]
      BY <2>4, <2>7
    <3>2. full = [st EXCEPT !.count = @ + a - b]
      BY <2>5, <2>7
    <3> QED BY <2>4, <3>1, <3>2, FilledStack
  <2> QED BY <2>3, <2>7, <2>8
<1>3. ASSUME NEW s \in D, s \notin Visited(order) PROVE Filled(inv, order, left)[s] = inv[s]
  BY <1>3 DEF Filled, FilledIn
<1>4. ASSUME NEW s \in D
      PROVE  /\ Filled(inv, order, left)[s] \in SoundStacks
             /\ Filled(inv, order, left)[s] = Empty <=> inv[s] = Empty
  <2>1. CASE s \in Visited(order)
    <3>1. PICK i \in 1 .. N : s = order[i]
      BY <2>1 DEF Visited
    <3> QED BY <1>2, <3>1
  <2>2. CASE s \notin Visited(order)
    BY <1>3, <2>2
  <2> QED BY <2>1, <2>2
<1>5. Filled(inv, order, left) \in [D -> SoundStacks]
  <2>1. Filled(inv, order, left) = [s \in D |-> FilledIn(inv, order, left, s)]
    BY DEF Filled
  <2>2. \A s \in D : FilledIn(inv, order, left, s) \in SoundStacks
    BY <1>4, <2>1
  <2> QED BY <2>1, <2>2
<1> QED BY <1>2, <1>3, <1>4, <1>5

\* What the slots take is what the stack loses.
LEMMA FilledLoad ==
    ASSUME NEW D, NEW inv \in [D -> SoundStacks], NEW stack \in SoundStacks, stack # Empty,
           NEW order, Visits(order, D), NEW left, left = FillUp(inv, stack, order),
           NEW w \in Weights, NEW S \in SUBSET D, IsFiniteSet(S), Visited(order) \subseteq S
    PROVE  Load(Filled(inv, order, left), S, w) + left[Len(order)] * w[stack.kind]
              = Load(inv, S, w) + Weighs(stack, w)
<1> DEFINE N == Len(order)
           k == stack.kind
           full == Filled(inv, order, left)
           Part(i) == [s \in D |-> IF s \in Visited(order) /\ At(order, s) <= i
                                   THEN full[s] ELSE inv[s]]
           Good == {i \in 0 .. N : Load(Part(i), S, w) + left[i] * w[k]
                                      = Load(inv, S, w) + Weighs(stack, w)}
<1>1. N \in Nat /\ k \in Kinds /\ w[k] \in Nat /\ stack.count \in Nat
  BY StackFacts DEF SoundStacks, Visits, Weights
<1>2. /\ full \in [D -> SoundStacks]
      /\ \A s \in D \ Visited(order) : full[s] = inv[s]
      /\ \A i \in 1 .. N : Weighs(full[order[i]], w) + left[i] * w[k]
                              = Weighs(inv[order[i]], w) + left[i - 1] * w[k]
  BY FilledFacts
<1>3. left[0] = stack.count /\ \A i \in 0 .. N : left[i] \in Nat
  <2>1. left[0] = stack.count /\ \A i \in 0 .. N : left[i] \in 0 .. stack.count
    BY FillUpFacts
  <2> QED BY <1>1, <2>1
<1> HIDE DEF full
<1>4. \A i : Part(i) \in [D -> SoundStacks]
  BY <1>2
<1>5. 0 \in Good
  <2>1. Part(0) = inv
    BY AtFacts, <1>1
  <2>2. left[0] * w[k] = Weighs(stack, w)
    BY <1>3 DEF Weighs
  <2>3. 0 \in 0 .. N
    BY <1>1
  <2> QED BY <2>1, <2>2, <2>3
<1>6. ASSUME NEW i \in 0 .. (N - 1), i \in Good PROVE i + 1 \in Good
  <2>1. PICK j \in 1 .. N : j = i + 1 /\ j - 1 = i /\ j \in 0 .. N /\ i \in 0 .. N
    BY <1>1
  <2> DEFINE x == order[j]
  <2>2. x \in S /\ x \in D /\ x \in Visited(order) /\ At(order, x) = j
    BY AtFacts DEF Visits, Visited
  <2>3. Part(j)[x] = full[x] /\ Part(i)[x] = inv[x]
    BY <2>1, <2>2
  <2>4. \A s \in S \ {x} : Part(i)[s] = Part(j)[s]
    <3>1. \A s \in Visited(order) \ {x} : At(order, s) \in 1 .. N /\ At(order, s) # j
      BY AtFacts
    <3>2. \A s \in Visited(order) \ {x} : At(order, s) <= j <=> At(order, s) <= i
      BY <1>1, <2>1, <3>1
    <3> QED BY <3>2
  <2>5. Load(Part(i), S, w) + Weighs(Part(j)[x], w) = Load(Part(j), S, w) + Weighs(Part(i)[x], w)
    <3>1. \A s \in S : Part(i)[s] \in SoundStacks /\ Part(j)[s] \in SoundStacks
      BY <1>4
    <3> HIDE DEF Part, x
    <3> QED BY <2>2, <2>4, <3>1, LoadChange
  <2>6. Weighs(full[x], w) + left[j] * w[k] = Weighs(inv[x], w) + left[i] * w[k]
    BY <1>2, <2>1
  <2>7. Load(Part(i), S, w) + left[i] * w[k] = Load(inv, S, w) + Weighs(stack, w)
    BY <1>6
  <2>8. PICK a, b \in Nat : a = left[i] * w[k] /\ b = left[j] * w[k]
    BY <1>1, <1>3, <2>1, TimesNat
  <2>9. PICK c, d \in Nat : c = Weighs(full[x], w) /\ d = Weighs(inv[x], w)
    BY <1>2, <2>2, WeighsType
  <2>10. PICK e, f, g, h \in Nat : /\ e = Load(Part(i), S, w) /\ f = Load(Part(j), S, w)
                                   /\ g = Load(inv, S, w) /\ h = Weighs(stack, w)
    <3>1. Load(Part(i), S, w) \in Nat /\ Load(Part(j), S, w) \in Nat
      <4>1. \A s \in S : Part(i)[s] \in SoundStacks /\ Part(j)[s] \in SoundStacks
        BY <1>4
      <4> HIDE DEF Part
      <4> QED BY <4>1, LoadType
    <3>2. Load(inv, S, w) \in Nat
      BY LoadType
    <3>3. Weighs(stack, w) \in Nat
      BY WeighsType
    <3> HIDE DEF Part
    <3> QED BY <3>1, <3>2, <3>3
  <2>11. e + c = f + d
    BY <2>3, <2>5, <2>9, <2>10
  <2>12. c + b = d + a
    BY <2>6, <2>8, <2>9
  <2>13. e + a = g + h
    BY <2>7, <2>8, <2>10
  <2>14. f + b = g + h
    BY <2>11, <2>12, <2>13
  <2>15. Load(Part(j), S, w) + left[j] * w[k] = Load(inv, S, w) + Weighs(stack, w)
    BY <2>8, <2>10, <2>14
  <2>16. j \in Good
    BY <2>1, <2>15
  <2> QED BY <2>1, <2>16
<1>7. N \in Good
  <2> HIDE DEF Good
  <2>1. \A i \in 0 .. N : i \in Good
    BY <1>1, <1>5, <1>6, Induction
  <2>2. N \in 0 .. N
    BY <1>1
  <2> QED BY <2>1, <2>2
<1>8. \A s \in S : Part(N)[s] = full[s]
  BY AtFacts, <1>1, <1>2
<1>9. Load(Part(N), S, w) = Load(full, S, w)
  <2> HIDE DEF Part
  <2> QED BY <1>8, LoadSame
<1> QED BY <1>7, <1>9 DEF full

\* What a merge gives back, and that nothing is lost or made by it.
MergesTo(inv, stack, order, D, m) ==
    /\ m.slots \in [D -> SoundStacks]
    /\ \A s \in D \ Visited(order) : m.slots[s] = inv[s]
    /\ m.left \in SoundStacks
    /\ m.left # Empty => m.left.kind = stack.kind /\ m.left.count <= stack.count
    /\ m.ok \in BOOLEAN
    /\ m.ok <=> m.left = Empty
    /\ \A w \in Weights : \A S \in SUBSET D :
          IsFiniteSet(S) /\ Visited(order) \subseteq S =>
             Load(m.slots, S, w) + Weighs(m.left, w) = Load(inv, S, w) + Weighs(stack, w)

FreeOf(inv, order) == {i \in 1 .. Len(order) : inv[order[i]] = Empty}

IsMerge(inv, stack, order, rest, full, m) ==
    /\ rest = 0 => m = [slots |-> full, left |-> Empty, ok |-> TRUE]
    /\ rest > 0 /\ FreeOf(inv, order) # {} =>
          m = [slots |-> [full EXCEPT ![order[Min(FreeOf(inv, order))]] = StackOf(stack.kind, rest)],
               left |-> Empty, ok |-> TRUE]
    /\ rest > 0 /\ FreeOf(inv, order) = {} =>
          m = [slots |-> full, left |-> StackOf(stack.kind, rest), ok |-> FALSE]

LEMMA MergeIs ==
    ASSUME NEW inv, NEW stack, NEW order, NEW left, left = FillUp(inv, stack, order),
           NEW rest, rest = left[Len(order)],
           NEW full, full = Filled(inv, order, left),
           NEW m, m = MergeItemStack(inv, stack, order), rest \in Nat
    PROVE  IsMerge(inv, stack, order, rest, full, m)
<1>1. full = [s \in DOMAIN inv |->
                IF s \in {order[i] : i \in 1 .. Len(order)}
                THEN [inv[s] EXCEPT !.count = @ + left[(CHOOSE i \in 1 .. Len(order) : order[i] = s) - 1]
                                                - left[CHOOSE i \in 1 .. Len(order) : order[i] = s]]
                ELSE inv[s]]
  BY DEF Filled, FilledIn, At, Visited
<1>2. m = CASE rest = 0 -> [slots |-> full, left |-> Empty, ok |-> TRUE]
            [] rest > 0 /\ FreeOf(inv, order) # {} ->
                 [slots |-> [full EXCEPT ![order[Min(FreeOf(inv, order))]] = StackOf(stack.kind, rest)],
                  left |-> Empty, ok |-> TRUE]
            [] rest > 0 /\ FreeOf(inv, order) = {} ->
                 [slots |-> full, left |-> StackOf(stack.kind, rest), ok |-> FALSE]
  BY <1>1, Zenon DEF MergeItemStack, FreeOf
<1>3. CASE rest = 0
  BY <1>2, <1>3 DEF IsMerge
<1>4. CASE rest > 0 /\ FreeOf(inv, order) # {}
  BY <1>2, <1>4 DEF IsMerge
<1>5. CASE rest > 0 /\ FreeOf(inv, order) = {}
  BY <1>2, <1>5 DEF IsMerge
<1> QED BY <1>3, <1>4, <1>5

LEMMA MinIsIn ==
    ASSUME NEW T, T \subseteq Nat, T # {}
    PROVE  Min(T) \in T
<1>1. \E m \in T : \A n \in T : m <= n
  BY LeastNumber
<1> QED BY <1>1 DEF Min

\* MergeItemStack moves items, whatever the order and the slots.
LEMMA Merges ==
    ASSUME NEW D, NEW inv \in [D -> SoundStacks], NEW stack \in SoundStacks, stack # Empty,
           NEW order, Visits(order, D)
    PROVE  MergesTo(inv, stack, order, D, MergeItemStack(inv, stack, order))
<1> DEFINE N == Len(order)
           k == stack.kind
<1>1. PICK left : left = FillUp(inv, stack, order)
  OBVIOUS
<1>2. PICK m : m = MergeItemStack(inv, stack, order)
  OBVIOUS
<1>3. PICK full : full = Filled(inv, order, left)
  OBVIOUS
<1>4. /\ N \in Nat /\ N \in 0 .. N /\ k \in Kinds /\ stack.count \in Nat
      /\ stack.count <= MaxStackOf[k]
  BY StackFacts DEF SoundStacks, Visits
<1>5. PICK rest \in Nat : rest = left[N] /\ rest <= stack.count
  <2>1. left[N] \in 0 .. stack.count
    BY <1>1, <1>4, FillUpFacts
  <2> QED BY <1>4, <2>1
<1>6. /\ full \in [D -> SoundStacks]
      /\ \A s \in D \ Visited(order) : full[s] = inv[s]
      /\ \A s \in D : full[s] = Empty <=> inv[s] = Empty
  <2>1. PICK w : w \in Weights
    <3>1. [j \in Kinds |-> 0] \in Weights
      BY DEF Weights
    <3> QED BY <3>1
  <2> QED BY <1>1, <1>3, <2>1, FilledFacts
<1>7. ASSUME NEW w \in Weights, NEW S \in SUBSET D, IsFiniteSet(S), Visited(order) \subseteq S
      PROVE  Load(full, S, w) + rest * w[k] = Load(inv, S, w) + Weighs(stack, w)
  BY <1>1, <1>3, <1>5, <1>7, FilledLoad
<1>8. CASE rest = 0
  <2>1. m = [slots |-> full, left |-> Empty, ok |-> TRUE]
    <3>1. IsMerge(inv, stack, order, rest, full, m)
      BY <1>1, <1>2, <1>3, <1>5, MergeIs
    <3> QED BY <1>8, <3>1 DEF IsMerge
  <2>2. ASSUME NEW w \in Weights, NEW S \in SUBSET D, IsFiniteSet(S), Visited(order) \subseteq S
        PROVE  Load(full, S, w) + Weighs(Empty, w) = Load(inv, S, w) + Weighs(stack, w)
    <3>1. Load(full, S, w) + rest * w[k] = Load(inv, S, w) + Weighs(stack, w)
      BY <1>7, <2>2
    <3>2. rest * w[k] = 0 /\ Weighs(Empty, w) = 0
      BY <1>4, <1>8, EmptyFacts DEF Weights
    <3> QED BY <3>1, <3>2
  <2>3. m.slots = full /\ m.left = Empty /\ m.ok = TRUE
    BY <2>1
  <2>4. MergesTo(inv, stack, order, D, m)
    BY <1>6, <2>2, <2>3, EmptyFacts DEF MergesTo
  <2> QED BY <1>2, <2>4
<1>9. StackOf(k, rest) \in SoundStacks \/ rest = 0
  BY <1>4, <1>5, StackOfFacts, StacksAssumption DEF SoundStacks, Sound, StackOf, Stack
<1>10. CASE rest > 0 /\ FreeOf(inv, order) # {}
  <2>1. PICK i \in FreeOf(inv, order) : i = Min(FreeOf(inv, order))
    <3>1. FreeOf(inv, order) \subseteq Nat
      BY <1>4 DEF FreeOf
    <3> QED BY <1>10, <3>1, MinIsIn
  <2>2. PICK s \in D : s = order[i] /\ s \in Visited(order) /\ inv[s] = Empty
    BY <2>1 DEF FreeOf, Visits, Visited
  <2>3. PICK given : given = [full EXCEPT ![s] = StackOf(k, rest)]
    OBVIOUS
  <2>4. m = [slots |-> given, left |-> Empty, ok |-> TRUE]
    <3>1. IsMerge(inv, stack, order, rest, full, m)
      BY <1>1, <1>2, <1>3, <1>5, MergeIs
    <3> QED BY <1>10, <2>1, <2>2, <2>3, <3>1 DEF IsMerge
  <2>5. /\ given \in [D -> SoundStacks] /\ given[s] = StackOf(k, rest)
        /\ \A t \in D \ {s} : given[t] = full[t]
    BY <1>6, <1>9, <1>10, <2>3
  <2>6. ASSUME NEW w \in Weights, NEW S \in SUBSET D, IsFiniteSet(S), Visited(order) \subseteq S
        PROVE  Load(given, S, w) + Weighs(Empty, w) = Load(inv, S, w) + Weighs(stack, w)
    <3>1. Load(full, S, w) + rest * w[k] = Load(inv, S, w) + Weighs(stack, w)
      BY <1>7, <2>6
    <3>2. s \in S
      BY <2>2, <2>6
    <3>3. Load(full, S, w) + Weighs(given[s], w) = Load(given, S, w) + Weighs(full[s], w)
      BY <1>6, <2>5, <2>6, <3>2, LoadChange
    <3>4. Weighs(given[s], w) = rest * w[k]
      BY <1>4, <2>5, StackOfFacts
    <3>5. Weighs(full[s], w) = 0 /\ Weighs(Empty, w) = 0
      BY <1>6, <2>2, EmptyFacts
    <3>6. Load(given, S, w) \in Nat
      BY <2>5, <2>6, LoadType
    <3> QED BY <3>1, <3>3, <3>4, <3>5, <3>6
  <2>7. m.slots = given /\ m.left = Empty /\ m.ok = TRUE
    BY <2>4
  <2>8. \A t \in D \ Visited(order) : given[t] = inv[t]
    BY <1>6, <2>2, <2>5
  <2>9. MergesTo(inv, stack, order, D, m)
    BY <2>5, <2>6, <2>7, <2>8, EmptyFacts DEF MergesTo
  <2> QED BY <1>2, <2>9
<1>11. CASE rest > 0 /\ FreeOf(inv, order) = {}
  <2>1. m = [slots |-> full, left |-> StackOf(k, rest), ok |-> FALSE]
    <3>1. IsMerge(inv, stack, order, rest, full, m)
      BY <1>1, <1>2, <1>3, <1>5, MergeIs
    <3> QED BY <1>11, <3>1 DEF IsMerge
  <2>2. ASSUME NEW w \in Weights, NEW S \in SUBSET D, IsFiniteSet(S), Visited(order) \subseteq S
        PROVE  Load(full, S, w) + Weighs(StackOf(k, rest), w) = Load(inv, S, w) + Weighs(stack, w)
    <3>1. Load(full, S, w) + rest * w[k] = Load(inv, S, w) + Weighs(stack, w)
      BY <1>7, <2>2
    <3>2. Weighs(StackOf(k, rest), w) = rest * w[k]
      BY <1>4, StackOfFacts
    <3> QED BY <3>1, <3>2
  <2>3. m.slots = full /\ m.left = StackOf(k, rest) /\ m.ok = FALSE
    BY <2>1
  <2>4. /\ StackOf(k, rest) \in SoundStacks /\ StackOf(k, rest) # Empty
        /\ StackOf(k, rest).kind = k /\ StackOf(k, rest).count = rest
    <3>1. PICK w : w \in Weights
      <4>1. [j \in Kinds |-> 0] \in Weights
        BY DEF Weights
      <4> QED BY <4>1
    <3> QED BY <1>4, <1>9, <1>11, <3>1, StackOfFacts
  <2>5. MergesTo(inv, stack, order, D, m)
    BY <1>5, <1>6, <2>2, <2>3, <2>4 DEF MergesTo
  <2> QED BY <1>2, <2>5
<1> QED BY <1>5, <1>8, <1>10, <1>11

-----------------------------------------------------------------------------
(* The orders in which slots are visited. *)

LEMMA UpwardsVisits ==
    ASSUME NEW a \in Nat, NEW b \in Nat, a <= b, NEW D, a .. b \subseteq D
    PROVE  Visits(Upwards(a, b), D) /\ Visited(Upwards(a, b)) = a .. b
<1>1. PICK n \in Nat : n = b - a + 1
  OBVIOUS
<1>2. Upwards(a, b) = [i \in 1 .. n |-> a + i - 1]
  BY <1>1 DEF Upwards
<1>3. Len(Upwards(a, b)) = n
  BY <1>2
<1>4. \A i \in 1 .. n : a + i - 1 \in a .. b
  BY <1>1
<1>5. \A s \in a .. b : s - a + 1 \in 1 .. n /\ a + (s - a + 1) - 1 = s
  BY <1>1
<1>6. Visited(Upwards(a, b)) = a .. b
  <2>1. Visited(Upwards(a, b)) = {Upwards(a, b)[i] : i \in 1 .. n}
    BY <1>3 DEF Visited
  <2>2. \A i \in 1 .. n : Upwards(a, b)[i] = a + i - 1
    BY <1>2
  <2>3. \A s \in a .. b : \E i \in 1 .. n : a + i - 1 = s
    BY <1>5
  <2>4. {a + i - 1 : i \in 1 .. n} = a .. b
    BY <1>4, <2>3
  <2> QED BY <2>1, <2>2, <2>4
<1>7. Visits(Upwards(a, b), D)
  BY <1>2, <1>3, <1>4 DEF Visits
<1> QED BY <1>6, <1>7

LEMMA DownwardsVisits ==
    ASSUME NEW a \in Nat, NEW b \in Nat, a <= b, NEW D, a .. b \subseteq D
    PROVE  Visits(Downwards(a, b), D) /\ Visited(Downwards(a, b)) = a .. b
<1>1. PICK n \in Nat : n = b - a + 1
  OBVIOUS
<1>2. Downwards(a, b) = [i \in 1 .. n |-> b - i + 1]
  BY <1>1 DEF Downwards
<1>3. Len(Downwards(a, b)) = n
  BY <1>2
<1>4. \A i \in 1 .. n : b - i + 1 \in a .. b
  BY <1>1
<1>5. \A s \in a .. b : b - s + 1 \in 1 .. n /\ b - (b - s + 1) + 1 = s
  BY <1>1
<1>6. Visited(Downwards(a, b)) = a .. b
  <2>1. Visited(Downwards(a, b)) = {Downwards(a, b)[i] : i \in 1 .. n}
    BY <1>3 DEF Visited
  <2>2. \A i \in 1 .. n : Downwards(a, b)[i] = b - i + 1
    BY <1>2
  <2>3. \A s \in a .. b : \E i \in 1 .. n : b - i + 1 = s
    BY <1>5
  <2>4. {b - i + 1 : i \in 1 .. n} = a .. b
    BY <1>4, <2>3
  <2> QED BY <2>1, <2>2, <2>4
<1>7. Visits(Downwards(a, b), D)
  BY <1>2, <1>3, <1>4 DEF Visits
<1> QED BY <1>6, <1>7

\* A merge that did not take everything goes on in other slots.
LEMMA MergesOn ==
    ASSUME NEW D, NEW inv \in [D -> SoundStacks], NEW stack \in SoundStacks, stack # Empty,
           NEW order, Visits(order, D), NEW m, MergesTo(inv, stack, order, D, m), ~m.ok,
           NEW more, Visits(more, D),
           NEW mm, mm = MergeItemStack(m.slots, m.left, more)
    PROVE  /\ MergesTo(m.slots, m.left, more, D, mm)
           /\ mm.slots \in [D -> SoundStacks]
           /\ mm.left \in SoundStacks
           /\ \A s \in D \ (Visited(order) \cup Visited(more)) : mm.slots[s] = inv[s]
           /\ mm.left # Empty => mm.left.kind = stack.kind /\ mm.left.count <= stack.count
           /\ \A w \in Weights : \A S \in SUBSET D :
                 IsFiniteSet(S) /\ Visited(order) \cup Visited(more) \subseteq S =>
                    Load(mm.slots, S, w) + Weighs(mm.left, w) = Load(inv, S, w) + Weighs(stack, w)
<1>1. m.slots \in [D -> SoundStacks] /\ m.left \in SoundStacks /\ m.left # Empty
  BY DEF MergesTo
<1>2. MergesTo(m.slots, m.left, more, D, mm)
  BY <1>1, Merges
<1>3. mm.slots \in [D -> SoundStacks] /\ mm.left \in SoundStacks
  BY <1>2 DEF MergesTo
<1>4. \A s \in D \ (Visited(order) \cup Visited(more)) : mm.slots[s] = inv[s]
  <2>1. \A s \in D \ Visited(more) : mm.slots[s] = m.slots[s]
    BY <1>2 DEF MergesTo
  <2>2. \A s \in D \ Visited(order) : m.slots[s] = inv[s]
    BY DEF MergesTo
  <2> QED BY <2>1, <2>2
<1>5. mm.left # Empty => mm.left.kind = stack.kind /\ mm.left.count <= stack.count
  <2>1. mm.left # Empty => mm.left.kind = m.left.kind /\ mm.left.count <= m.left.count
    BY <1>2 DEF MergesTo
  <2>2. m.left.kind = stack.kind /\ m.left.count <= stack.count
    BY <1>1 DEF MergesTo
  <2>3. mm.left.count \in Nat /\ m.left.count \in Nat /\ stack.count \in Nat
    BY <1>1, <1>3 DEF SoundStacks, Stack
  <2> QED BY <2>1, <2>2, <2>3
<1>6. ASSUME NEW w \in Weights, NEW S \in SUBSET D, IsFiniteSet(S),
             Visited(order) \cup Visited(more) \subseteq S
      PROVE  Load(mm.slots, S, w) + Weighs(mm.left, w) = Load(inv, S, w) + Weighs(stack, w)
  <2>1. Visited(order) \subseteq S /\ Visited(more) \subseteq S
    BY <1>6
  <2>2. Load(mm.slots, S, w) + Weighs(mm.left, w) = Load(m.slots, S, w) + Weighs(m.left, w)
    BY <1>2, <1>6, <2>1 DEF MergesTo
  <2>3. Load(m.slots, S, w) + Weighs(m.left, w) = Load(inv, S, w) + Weighs(stack, w)
    BY <1>6, <2>1 DEF MergesTo
  <2> QED BY <2>2, <2>3
<1> QED BY <1>2, <1>3, <1>4, <1>5, <1>6

\* InventoryPlayer::PickupItem, wherever the stack ends up.
PicksUp(inv, stack, D, S, p) ==
    /\ p.slots \in [D -> SoundStacks]
    /\ p.left \in SoundStacks
    /\ \A s \in D \ S : p.slots[s] = inv[s]
    /\ p.left # Empty => p.left.kind = stack.kind /\ p.left.count <= stack.count
    /\ \A w \in Weights :
          Load(p.slots, S, w) + Weighs(p.left, w) = Load(inv, S, w) + Weighs(stack, w)

\* So does PickupItem, through all its choices.
LEMMA PickupFacts ==
    ASSUME NEW D, NEW inv \in [D -> SoundStacks], NEW stack \in SoundStacks, stack # Empty,
           NEW main, Visits(main, D), NEW bar, Visits(bar, D),
           NEW S \in SUBSET D, IsFiniteSet(S), Visited(main) \cup Visited(bar) \subseteq S
    PROVE  PicksUp(inv, stack, D, S, PickupItem(inv, stack, main, bar))
<1>1. PICK m : m = MergeItemStack(inv, stack, main)
  OBVIOUS
<1>2. PICK b : b = MergeItemStack(inv, stack, bar)
  OBVIOUS
<1>3. PICK mm : mm = MergeItemStack(b.slots, b.left, main)
  OBVIOUS
<1>4. PICK p : p = PickupItem(inv, stack, main, bar)
  OBVIOUS
<1>5. p = m \/ (p = b /\ b.ok) \/ (p = mm /\ ~b.ok)
  BY <1>1, <1>2, <1>3, <1>4 DEF PickupItem
<1>6. MergesTo(inv, stack, main, D, m) /\ MergesTo(inv, stack, bar, D, b)
  BY <1>1, <1>2, Merges
<1>7. Visited(main) \subseteq S /\ Visited(bar) \subseteq S
  OBVIOUS
<1>8. CASE p = m
  <2>1. PicksUp(inv, stack, D, S, m)
    BY <1>6, <1>7 DEF MergesTo, PicksUp
  <2> QED BY <1>4, <1>8, <2>1
<1>9. CASE p = b /\ b.ok
  <2>1. PicksUp(inv, stack, D, S, b)
    BY <1>6, <1>7 DEF MergesTo, PicksUp
  <2> QED BY <1>4, <1>9, <2>1
<1>10. CASE p = mm /\ ~b.ok
  <2>1. /\ mm.slots \in [D -> SoundStacks]
        /\ mm.left \in SoundStacks
        /\ \A s \in D \ (Visited(bar) \cup Visited(main)) : mm.slots[s] = inv[s]
        /\ mm.left # Empty => mm.left.kind = stack.kind /\ mm.left.count <= stack.count
        /\ \A w \in Weights : \A T \in SUBSET D :
              IsFiniteSet(T) /\ Visited(bar) \cup Visited(main) \subseteq T =>
                 Load(mm.slots, T, w) + Weighs(mm.left, w) = Load(inv, T, w) + Weighs(stack, w)
    BY <1>3, <1>6, <1>10, MergesOn
  <2>2. PicksUp(inv, stack, D, S, mm)
    BY <1>7, <2>1 DEF PicksUp
  <2> QED BY <1>4, <1>10, <2>2
<1> QED BY <1>4, <1>5, <1>8, <1>9, <1>10

-----------------------------------------------------------------------------
(* Clicks: what a slot and the cursor hold together stays the same. *)

LEMMA LessNothing ==
    ASSUME NEW stack \in SoundStacks, stack # Empty
    PROVE  Less(stack, 0) = stack
<1>1. stack.count \in Nat \ {0} /\ stack = [kind |-> stack.kind, count |-> stack.count]
  BY StackFacts DEF SoundStacks, Stack
<1>2. Less(stack, 0) = [stack EXCEPT !.count = @ - 0]
  BY <1>1 DEF Less
<1> QED BY <1>1, <1>2

Exchanges(inv, cur, slot, D, w, after) ==
    /\ after.slots \in [D -> SoundStacks]
    /\ after.cursor \in SoundStacks
    /\ \A s \in D \ {slot} : after.slots[s] = inv[s]
    /\ Weighs(after.slots[slot], w) + Weighs(after.cursor, w) = Weighs(inv[slot], w) + Weighs(cur, w)

\* A stack put onto one of its kind.
LEMMA PutOntoFacts ==
    ASSUME NEW D, NEW inv \in [D -> SoundStacks], NEW cur \in SoundStacks, NEW slot \in D,
           NEW w \in Weights, NEW n \in Nat, inv[slot] # Empty, cur.kind = inv[slot].kind
    PROVE  Exchanges(inv, cur, slot, D, w, PutOnto(inv, cur, slot, n))
<1>1. PICK target \in SoundStacks : target = inv[slot]
  OBVIOUS
<1>2. PICK k \in Kinds : k = target.kind
  BY <1>1, StackFacts DEF SoundStacks
<1>3. PICK c \in Nat, room \in Nat, m \in Nat :
         /\ c = target.count /\ m = MaxStackOf[k] /\ room = m - c
         /\ target = [kind |-> k, count |-> c] /\ c # 0
  BY <1>1, <1>2, StackFacts DEF SoundStacks, Stack
<1>4. cur # Empty
  BY <1>1, <1>2, EmptyFacts, StacksAssumption
<1>5. PICK h \in Nat : h = cur.count /\ cur.kind = k
  BY <1>1, <1>2, <1>4, StackFacts DEF SoundStacks
<1>6. PICK moved \in Nat : moved = Smaller(n, Smaller(room, h)) /\ moved <= room /\ moved <= h
  <2>1. PICK t \in Nat : t = Smaller(room, h) /\ t <= room /\ t <= h
    BY SmallerFacts
  <2>2. Smaller(n, t) \in Nat /\ Smaller(n, t) <= t
    BY SmallerFacts
  <2> QED BY <2>1, <2>2
<1>7. PICK more : more = [inv EXCEPT ![slot].count = @ + moved]
  OBVIOUS
<1>8. PutOnto(inv, cur, slot, n) = [slots |-> more, cursor |-> Less(cur, moved)]
  BY <1>1, <1>2, <1>3, <1>5, <1>6, <1>7 DEF PutOnto, After
<1>9. more[slot] = StackOf(k, c + moved)
  <2>1. more[slot] = [target EXCEPT !.count = @ + moved]
    BY <1>1, <1>7
  <2>2. [target EXCEPT !.count = @ + moved] = [kind |-> k, count |-> c + moved]
    BY <1>3
  <2> QED BY <2>1, <2>2 DEF StackOf
<1>10. more[slot] \in SoundStacks /\ Weighs(more[slot], w) = (c + moved) * w[k]
  <2>1. c + moved \in 1 .. MaxStackOf[k] /\ c + moved \in Nat
    BY <1>3, <1>6
  <2> QED BY <1>9, <2>1, StackOfFacts DEF SoundStacks
<1>11. /\ more \in [D -> SoundStacks]
       /\ \A s \in D \ {slot} : more[s] = inv[s]
  BY <1>7, <1>10
<1>12. Less(cur, moved) \in SoundStacks /\ Weighs(Less(cur, moved), w) + moved * w[k] = Weighs(cur, w)
  <2>1. CASE moved = 0
    <3>1. Less(cur, moved) = cur
      BY <1>4, <2>1, LessNothing
    <3>2. moved * w[k] = 0
      BY <2>1 DEF Weights
    <3>3. Weighs(cur, w) \in Nat
      BY WeighsType
    <3> QED BY <3>1, <3>2, <3>3
  <2>2. CASE moved # 0
    <3>1. moved \in 1 .. cur.count
      BY <1>5, <1>6, <2>2
    <3> QED BY <1>4, <1>5, <3>1, LessFacts
  <2> QED BY <2>1, <2>2
<1>13. (c + moved) * w[k] = c * w[k] + moved * w[k]
  BY Distributes DEF Weights
<1>14. Weighs(inv[slot], w) = c * w[k]
  BY <1>1, <1>2, <1>3 DEF Weighs
<1>15. PICK x, y, z \in Nat : x = c * w[k] /\ y = moved * w[k] /\ z = Weighs(Less(cur, moved), w)
  BY <1>12, TimesNat, WeighsType DEF Weights
<1>16. Weighs(more[slot], w) + Weighs(Less(cur, moved), w) = Weighs(inv[slot], w) + Weighs(cur, w)
  <2>1. /\ Weighs(more[slot], w) = x + y /\ Weighs(Less(cur, moved), w) = z
        /\ Weighs(inv[slot], w) = x /\ Weighs(cur, w) = z + y
    BY <1>10, <1>12, <1>13, <1>14, <1>15
  <2> QED BY <2>1
<1> QED BY <1>8, <1>11, <1>12, <1>16 DEF Exchanges

LEMMA SwapFacts ==
    ASSUME NEW D, NEW inv \in [D -> SoundStacks], NEW cur \in SoundStacks, NEW slot \in D,
           NEW w \in Weights
    PROVE  Exchanges(inv, cur, slot, D, w, Swap(inv, cur, slot))
<1>1. PICK more : more = [inv EXCEPT ![slot] = cur]
  OBVIOUS
<1>2. Swap(inv, cur, slot) = [slots |-> more, cursor |-> inv[slot]]
  BY <1>1 DEF Swap, After
<1>3. /\ more \in [D -> SoundStacks] /\ more[slot] = cur
      /\ \A s \in D \ {slot} : more[s] = inv[s]
  BY <1>1
<1>4. Weighs(cur, w) \in Nat /\ Weighs(inv[slot], w) \in Nat
  BY WeighsType
<1> QED BY <1>2, <1>3, <1>4 DEF Exchanges

\* Whatever a left click does, slot and cursor hold together what they held.
LEMMA LeftClickFacts ==
    ASSUME NEW D, NEW inv \in [D -> SoundStacks], NEW cur \in SoundStacks, NEW slot \in D,
           NEW w \in Weights
    PROVE  Exchanges(inv, cur, slot, D, w, OnLeftClick(inv, cur, slot))
<1>1. CASE inv[slot] # Empty /\ inv[slot].kind = cur.kind
  <2>1. cur.count \in Nat
    BY DEF SoundStacks, Stack
  <2>2. Exchanges(inv, cur, slot, D, w, PutOnto(inv, cur, slot, cur.count))
    BY <1>1, <2>1, PutOntoFacts
  <2> QED BY <1>1, <2>2 DEF OnLeftClick
<1>2. CASE ~ (inv[slot] # Empty /\ inv[slot].kind = cur.kind)
  BY <1>2, SwapFacts DEF OnLeftClick
<1> QED BY <1>1, <1>2

\* The larger half is more than nothing and no more than all.
LEMMA HalfFacts ==
    ASSUME NEW c \in Nat \ {0}
    PROVE  (c + 1) \div 2 \in 1 .. c
OBVIOUS

\* And a right click.
LEMMA RightClickFacts ==
    ASSUME NEW D, NEW inv \in [D -> SoundStacks], NEW cur \in SoundStacks, NEW slot \in D,
           NEW w \in Weights
    PROVE  Exchanges(inv, cur, slot, D, w, OnRightClick(inv, cur, slot))
<1>1. PICK target \in SoundStacks : target = inv[slot]
  OBVIOUS
<1>2. PICK taken : taken = (target.count + 1) \div 2
  OBVIOUS
<1>3. CASE cur # Empty /\ target = Empty
  <2>1. PICK more : more = [inv EXCEPT ![slot] = StackOf(cur.kind, 1)]
    OBVIOUS
  <2>2. OnRightClick(inv, cur, slot) = [slots |-> more, cursor |-> Less(cur, 1)]
    BY <1>1, <1>3, <2>1 DEF OnRightClick, After
  <2>3. cur.kind \in Kinds /\ 1 \in 1 .. cur.count /\ 1 \in 1 .. MaxStackOf[cur.kind]
    BY <1>3, StackFacts DEF SoundStacks
  <2>4. StackOf(cur.kind, 1) \in SoundStacks /\ Weighs(StackOf(cur.kind, 1), w) = 1 * w[cur.kind]
    BY <2>3, StackOfFacts DEF SoundStacks
  <2>5. /\ Less(cur, 1) \in SoundStacks
        /\ Weighs(Less(cur, 1), w) + 1 * w[cur.kind] = Weighs(cur, w)
    BY <1>3, <2>3, LessFacts
  <2>6. /\ more \in [D -> SoundStacks] /\ more[slot] = StackOf(cur.kind, 1)
        /\ \A s \in D \ {slot} : more[s] = inv[s]
    BY <2>1, <2>4
  <2>7. Weighs(inv[slot], w) = 0
    BY <1>1, <1>3, EmptyFacts
  <2>8. Weighs(Less(cur, 1), w) \in Nat /\ w[cur.kind] \in Nat
    BY <2>3, <2>5, WeighsType DEF Weights
  <2>9. Weighs(more[slot], w) + Weighs(Less(cur, 1), w) = Weighs(inv[slot], w) + Weighs(cur, w)
    BY <2>4, <2>5, <2>6, <2>7, <2>8
  <2> QED BY <2>2, <2>5, <2>6, <2>9 DEF Exchanges
<1>4. CASE cur # Empty /\ target # Empty /\ target.kind = cur.kind
  <2>1. OnRightClick(inv, cur, slot) = PutOnto(inv, cur, slot, 1)
    BY <1>1, <1>4 DEF OnRightClick
  <2> QED BY <1>1, <1>4, <2>1, PutOntoFacts
<1>5. CASE cur # Empty /\ target # Empty /\ target.kind # cur.kind
  <2>1. OnRightClick(inv, cur, slot) = Swap(inv, cur, slot)
    BY <1>1, <1>5 DEF OnRightClick
  <2> QED BY <2>1, SwapFacts
<1>6. CASE cur = Empty
  <2>1. PICK more : more = [inv EXCEPT ![slot] = Less(target, taken)]
    OBVIOUS
  <2>2. PICK hand : hand = IF target = Empty THEN Empty ELSE StackOf(target.kind, taken)
    OBVIOUS
  <2>3. OnRightClick(inv, cur, slot) = [slots |-> more, cursor |-> hand]
    BY <1>1, <1>2, <1>6, <2>1, <2>2 DEF OnRightClick, After
  <2>4. /\ Less(target, taken) \in SoundStacks /\ hand \in SoundStacks
        /\ Weighs(Less(target, taken), w) + Weighs(hand, w) = Weighs(target, w)
    <3>1. CASE target = Empty
      <4>1. taken = (0 + 1) \div 2 /\ target.count = 0
        BY <1>2, <3>1, EmptyFacts
      <4>2. 0 <= taken
        BY <4>1
      <4>3. Less(target, taken) = Empty /\ hand = Empty
        BY <2>2, <3>1, <4>1, <4>2 DEF Less
      <4> QED BY <3>1, <4>3, EmptyFacts
    <3>2. CASE target # Empty
      <4>1. /\ target.kind \in Kinds /\ target.count \in Nat \ {0}
            /\ target.count <= MaxStackOf[target.kind] /\ MaxStackOf[target.kind] \in Nat
        BY <3>2, StackFacts DEF SoundStacks
      <4>2. taken \in 1 .. target.count
        BY <1>2, <4>1, HalfFacts
      <4>3. /\ Less(target, taken) \in SoundStacks
            /\ Weighs(Less(target, taken), w) + taken * w[target.kind] = Weighs(target, w)
        BY <3>2, <4>2, LessFacts
      <4>4. taken \in 1 .. MaxStackOf[target.kind] /\ taken \in Nat
        BY <4>1, <4>2
      <4>5. hand \in SoundStacks /\ Weighs(hand, w) = taken * w[target.kind]
        BY <2>2, <3>2, <4>1, <4>4, StackOfFacts DEF SoundStacks
      <4> QED BY <4>3, <4>5
    <3> QED BY <3>1, <3>2
  <2>5. /\ more \in [D -> SoundStacks] /\ more[slot] = Less(target, taken)
        /\ \A s \in D \ {slot} : more[s] = inv[s]
    BY <2>1, <2>4
  <2>6. Weighs(cur, w) = 0 /\ Weighs(inv[slot], w) \in Nat
    BY <1>6, EmptyFacts, WeighsType
  <2>7. Weighs(more[slot], w) + Weighs(hand, w) = Weighs(inv[slot], w) + Weighs(cur, w)
    BY <1>1, <2>4, <2>5, <2>6
  <2> QED BY <2>3, <2>4, <2>5, <2>7 DEF Exchanges
<1> QED BY <1>3, <1>4, <1>5, <1>6

\* And so does what all slots and the cursor hold.
LEMMA ExchangesLoad ==
    ASSUME NEW D, NEW inv \in [D -> SoundStacks], NEW cur \in SoundStacks, NEW slot, NEW w \in Weights,
           NEW after, Exchanges(inv, cur, slot, D, w, after),
           NEW S \in SUBSET D, IsFiniteSet(S), slot \in S
    PROVE  Load(after.slots, S, w) + Weighs(after.cursor, w) = Load(inv, S, w) + Weighs(cur, w)
<1>1. /\ after.slots \in [D -> SoundStacks] /\ after.cursor \in SoundStacks
      /\ \A s \in D \ {slot} : after.slots[s] = inv[s]
      /\ Weighs(after.slots[slot], w) + Weighs(after.cursor, w) = Weighs(inv[slot], w) + Weighs(cur, w)
  BY DEF Exchanges
<1>2. Load(inv, S, w) + Weighs(after.slots[slot], w) = Load(after.slots, S, w) + Weighs(inv[slot], w)
  BY <1>1, LoadChange
<1>3. /\ Load(inv, S, w) \in Nat /\ Load(after.slots, S, w) \in Nat
      /\ Weighs(after.slots[slot], w) \in Nat /\ Weighs(inv[slot], w) \in Nat
      /\ Weighs(after.cursor, w) \in Nat /\ Weighs(cur, w) \in Nat
  BY <1>1, LoadType, WeighsType
<1> QED BY <1>1, <1>2, <1>3

\* All of `result' onto the cursor.
LEMMA StackedFacts ==
    ASSUME NEW cur \in SoundStacks, NEW result \in SoundStacks, result # Empty, NEW w \in Weights,
           \/ cur = Empty
           \/ cur.kind = result.kind /\ cur.count + result.count <= MaxStackOf[result.kind]
    PROVE  /\ StackOf(result.kind, cur.count + result.count) \in SoundStacks
           /\ Weighs(StackOf(result.kind, cur.count + result.count), w) = Weighs(cur, w) + Weighs(result, w)
<1>1. PICK k \in Kinds, r \in Nat \ {0} :
         /\ k = result.kind /\ r = result.count /\ r <= MaxStackOf[k] /\ MaxStackOf[k] \in Nat
  BY StackFacts DEF SoundStacks
<1>2. Weighs(result, w) = r * w[k]
  BY <1>1 DEF Weighs
<1>3. PICK c \in Nat : c = cur.count /\ c + r \in 1 .. MaxStackOf[k] /\ Weighs(cur, w) = c * w[k]
  <2>1. CASE cur = Empty
    <3>1. cur.count = 0 /\ Weighs(cur, w) = 0 /\ 0 * w[k] = 0
      BY <2>1, EmptyFacts DEF Weights
    <3>2. 0 + r \in 1 .. MaxStackOf[k]
      BY <1>1
    <3> QED BY <3>1, <3>2
  <2>2. CASE cur # Empty
    <3>1. cur.kind = k /\ cur.count + r <= MaxStackOf[k] /\ cur.count \in Nat
      BY <1>1, <2>2 DEF SoundStacks, Stack
    <3>2. cur.count + r \in 1 .. MaxStackOf[k]
      BY <1>1, <3>1
    <3>3. Weighs(cur, w) = cur.count * w[k]
      BY <2>2, <3>1 DEF Weighs
    <3> QED BY <3>1, <3>2, <3>3
  <2> QED BY <2>1, <2>2
<1>4. StackOf(k, c + r) \in SoundStacks /\ Weighs(StackOf(k, c + r), w) = (c + r) * w[k]
  BY <1>3, StackOfFacts DEF SoundStacks
<1>5. (c + r) * w[k] = c * w[k] + r * w[k]
  BY Distributes DEF Weights
<1> QED BY <1>1, <1>2, <1>3, <1>4, <1>5

-----------------------------------------------------------------------------
(* A player's own window. *)

Kept == Slots \ {ResultSlot}

\* The parts of a player's slots, and the orders that visit them.
LEMMA SlotFacts ==
    /\ IsFiniteSet(Slots) /\ IsFiniteSet(Kept) /\ IsFiniteSet(GridSlots)
    /\ ResultSlot \in Slots /\ Kept \subseteq Slots
    /\ GridSlots \subseteq Kept /\ ArmorSlots \subseteq Kept
    /\ MainSlots \subseteq Kept /\ BarSlots \subseteq Kept
    /\ MainSlots \cap BarSlots = {} /\ GridSlots \cap (MainSlots \cup BarSlots) = {}
    /\ \A s \in Slots : s \in GridSlots \cup ArmorSlots \cup MainSlots \cup BarSlots \cup {ResultSlot}
    /\ Visits(MainUpwards, Slots) /\ Visited(MainUpwards) = MainSlots
    /\ Visits(BarUpwards, Slots) /\ Visited(BarUpwards) = BarSlots
    /\ Visits(AllDownwards, Slots) /\ Visited(AllDownwards) = MainSlots \cup BarSlots
<1>1. PICK g, a, m, b \in Nat \ {0} : g = GridSize /\ a = ArmorSize /\ m = MainSize /\ b = BarSize
  BY PlayerWindowAssumption
<1>2. /\ ResultSlot = 0 /\ GridSlots = 1 .. g /\ ArmorSlots = g + 1 .. g + a
      /\ MainFirst = g + a + 1 /\ MainSlots = g + a + 1 .. g + a + m
      /\ BarFirst = g + a + m + 1 /\ BarSlots = g + a + m + 1 .. g + a + m + b
      /\ Slots = 0 .. g + a + m + b
  BY <1>1 DEF ResultSlot, GridSlots, ArmorSlots, MainFirst, MainSlots, BarFirst, BarSlots, Slots
<1>3. IsFiniteSet(Slots)
  BY <1>2, FS_Interval
<1>4. IsFiniteSet(Kept) /\ IsFiniteSet(GridSlots)
  <2>1. Kept \subseteq Slots /\ GridSlots \subseteq Slots
    BY <1>2 DEF Kept
  <2> QED BY <1>3, <2>1, FS_Subset
<1>5. /\ ResultSlot \in Slots /\ Kept \subseteq Slots
      /\ GridSlots \subseteq Kept /\ ArmorSlots \subseteq Kept
      /\ MainSlots \subseteq Kept /\ BarSlots \subseteq Kept
  BY <1>2 DEF Kept
<1>6. MainSlots \cap BarSlots = {} /\ GridSlots \cap (MainSlots \cup BarSlots) = {}
  BY <1>2
<1>7. \A s \in Slots : s \in GridSlots \cup ArmorSlots \cup MainSlots \cup BarSlots \cup {ResultSlot}
  BY <1>2
<1>8. Visits(MainUpwards, Slots) /\ Visited(MainUpwards) = MainSlots
  <2>1. MainUpwards = Upwards(g + a + 1, g + a + m)
    BY <1>2 DEF MainUpwards
  <2>2. g + a + 1 .. g + a + m \subseteq Slots
    BY <1>2
  <2>3. g + a + 1 \in Nat /\ g + a + m \in Nat /\ g + a + 1 <= g + a + m
    OBVIOUS
  <2>4. Visits(MainUpwards, Slots) /\ Visited(MainUpwards) = g + a + 1 .. g + a + m
    BY <2>1, <2>2, <2>3, UpwardsVisits
  <2> QED BY <1>2, <2>4
<1>9. Visits(BarUpwards, Slots) /\ Visited(BarUpwards) = BarSlots
  <2>1. BarUpwards = Upwards(g + a + m + 1, g + a + m + b)
    BY <1>1, <1>2 DEF BarUpwards
  <2>2. g + a + m + 1 .. g + a + m + b \subseteq Slots
    BY <1>2
  <2>3. g + a + m + 1 \in Nat /\ g + a + m + b \in Nat /\ g + a + m + 1 <= g + a + m + b
    OBVIOUS
  <2>4. Visits(BarUpwards, Slots) /\ Visited(BarUpwards) = g + a + m + 1 .. g + a + m + b
    BY <2>1, <2>2, <2>3, UpwardsVisits
  <2> QED BY <1>2, <2>4
<1>10. Visits(AllDownwards, Slots) /\ Visited(AllDownwards) = MainSlots \cup BarSlots
  <2>1. AllDownwards = Downwards(g + a + 1, g + a + m + b)
    BY <1>1, <1>2 DEF AllDownwards
  <2>2. g + a + 1 .. g + a + m + b \subseteq Slots
    BY <1>2
  <2>3. g + a + 1 .. g + a + m + b = MainSlots \cup BarSlots
    BY <1>2
  <2>4. Visits(AllDownwards, Slots) /\ Visited(AllDownwards) = g + a + 1 .. g + a + m + b
    BY <2>1, <2>2, DownwardsVisits
  <2> QED BY <2>3, <2>4
<1> QED BY <1>3, <1>4, <1>5, <1>6, <1>7, <1>8, <1>9, <1>10

Total(inv, cur, g) == Load(inv, Kept, Worth) + Weighs(cur, Worth) + Lying(g, Worth)

LEMMA WorthIsWeights == Worth \in Weights
BY PlayerWindowAssumption DEF Weights

\* TotalWorth, in terms of loads.
LEMMA TotalIsWorth == TotalWorth = Total(slots, cursor, ground)
<1>1. WorthIn(slots, Slots \ {ResultSlot}) = Load(slots, Kept, Worth)
  BY DEF WorthIn, SumFunction, Load, Kept, WorthOf, Weighs
<1>2. WorthOf(cursor) = Weighs(cursor, Worth)
  BY DEF WorthOf, Weighs
<1>3. SumFunction([k \in Kinds |-> ground[k] * Worth[k]]) = Lying(ground, Worth)
  BY DEF SumFunction, Lying
<1> QED BY <1>1, <1>2, <1>3 DEF TotalWorth, Total

Typed(inv, cur, g) ==
    inv \in [Slots -> SoundStacks] /\ cur \in SoundStacks /\ g \in [Kinds -> Nat]

LEMMA TotalParts ==
    ASSUME NEW inv, NEW cur, NEW g, Typed(inv, cur, g)
    PROVE  /\ Load(inv, Kept, Worth) \in Nat
           /\ Weighs(cur, Worth) \in Nat
           /\ Lying(g, Worth) \in Nat
BY SlotFacts, WorthIsWeights, LoadType, WeighsType, LyingType DEF Typed

\* The grid as recipes see it, and what is in it by their reckoning.
LEMMA GridFacts ==
    ASSUME NEW inv \in [Slots -> SoundStacks]
    PROVE  /\ KindsOf(inv) \in DOMAIN Recipe
           /\ Recipe[KindsOf(inv)] \in SoundStacks
<1>1. \A s \in GridSlots : inv[s] \in SoundStacks
  BY SlotFacts
<1>2. \A s \in GridSlots : inv[s].kind \in Kinds \cup {NoKind}
  BY <1>1 DEF SoundStacks, Stack
<1>3. KindsOf(inv) \in [GridSlots -> Kinds \cup {NoKind}]
  BY <1>2 DEF KindsOf
<1>4. Recipe \in [[GridSlots -> Kinds \cup {NoKind}] -> SoundStacks]
  BY PlayerWindowAssumption DEF SoundStacks
<1> QED BY <1>3, <1>4

LEMMA UpdateResultFacts ==
    ASSUME NEW inv \in [Slots -> SoundStacks]
    PROVE  /\ UpdateResult(inv) \in [Slots -> SoundStacks]
           /\ \A s \in Kept : UpdateResult(inv)[s] = inv[s]
           /\ \A w : Load(UpdateResult(inv), Kept, w) = Load(inv, Kept, w)
<1>1. PICK more : more = UpdateResult(inv)
  OBVIOUS
<1>2. more \in [Slots -> SoundStacks] /\ \A s \in Kept : more[s] = inv[s]
  BY <1>1, GridFacts DEF UpdateResult, Kept
<1>3. \A w : Load(more, Kept, w) = Load(inv, Kept, w)
  BY <1>2, SlotFacts, LoadSame
<1> QED BY <1>1, <1>2, <1>3

LEMMA HandleCraftingFacts ==
    ASSUME NEW inv \in [Slots -> SoundStacks], NEW slot
    PROVE  /\ HandleCrafting(inv, slot) \in [Slots -> SoundStacks]
           /\ Load(HandleCrafting(inv, slot), Kept, Worth) = Load(inv, Kept, Worth)
BY UpdateResultFacts DEF HandleCrafting

Price(inv) ==
    SumFunction([s \in GridSlots |-> IF KindsOf(inv)[s] = NoKind THEN 0 ELSE Worth[KindsOf(inv)[s]]])

\* A craft takes the price of its result out of the grid.
LEMMA FinishCraftFacts ==
    ASSUME NEW inv \in [Slots -> SoundStacks]
    PROVE  /\ FinishCraft(inv) \in [Slots -> SoundStacks]
           /\ Price(inv) \in Nat
           /\ Load(FinishCraft(inv), Kept, Worth) + Price(inv) = Load(inv, Kept, Worth)
<1> DEFINE one == [s \in Slots |-> IF s \in GridSlots THEN Less(inv[s], 1) ELSE inv[s]]
           f == [s \in Kept |-> Weighs(inv[s], Worth)]
           g == [s \in Kept |-> Weighs(one[s], Worth)]
           h == [s \in Kept |-> IF s \in GridSlots /\ inv[s] # Empty THEN Worth[inv[s].kind] ELSE 0]
           p == [s \in GridSlots |-> IF KindsOf(inv)[s] = NoKind THEN 0 ELSE Worth[KindsOf(inv)[s]]]
<1>1. ASSUME NEW s \in Slots
      PROVE  /\ one[s] \in SoundStacks
             /\ s \in Kept => f[s] \in Nat /\ g[s] \in Nat /\ h[s] \in Nat /\ f[s] = g[s] + h[s]
  <2>1. inv[s] \in SoundStacks /\ Weighs(inv[s], Worth) \in Nat
    BY WeighsType, WorthIsWeights
  <2>2. CASE s \in GridSlots /\ inv[s] # Empty
    <3>1. inv[s].kind \in Kinds /\ 1 \in 1 .. inv[s].count
      BY <2>1, <2>2, StackFacts DEF SoundStacks
    <3>2. /\ Less(inv[s], 1) \in SoundStacks
          /\ Weighs(Less(inv[s], 1), Worth) + 1 * Worth[inv[s].kind] = Weighs(inv[s], Worth)
      BY <2>1, <2>2, <3>1, LessFacts, WorthIsWeights
    <3>3. Weighs(Less(inv[s], 1), Worth) \in Nat /\ Worth[inv[s].kind] \in Nat
      BY <3>1, <3>2, WeighsType, WorthIsWeights DEF Weights
    <3>4. one[s] = Less(inv[s], 1)
      BY <2>2
    <3>5. s \in Kept => /\ f[s] = Weighs(inv[s], Worth) /\ g[s] = Weighs(Less(inv[s], 1), Worth)
                        /\ h[s] = Worth[inv[s].kind]
      BY <2>2, <3>4
    <3> HIDE DEF f, g, h, one
    <3> QED BY <2>1, <3>2, <3>3, <3>4, <3>5
  <2>3. CASE s \in GridSlots /\ inv[s] = Empty
    <3>1. one[s] = Empty
      <4>1. Empty.count = 0 /\ 0 <= 1
        BY EmptyFacts
      <4> QED BY <2>3, <4>1 DEF Less
    <3>2. s \in Kept => f[s] = 0 /\ g[s] = 0 /\ h[s] = 0
      BY <2>3, <3>1, EmptyFacts
    <3> HIDE DEF f, g, h, one
    <3> QED BY <3>1, <3>2, EmptyFacts
  <2>4. CASE s \notin GridSlots
    <3>1. one[s] = inv[s]
      BY <2>4
    <3>2. s \in Kept => f[s] = Weighs(inv[s], Worth) /\ g[s] = Weighs(inv[s], Worth) /\ h[s] = 0
      BY <2>4, <3>1
    <3> HIDE DEF f, g, h, one
    <3> QED BY <2>1, <3>1, <3>2
  <2> QED BY <2>2, <2>3, <2>4
<1>2. one \in [Slots -> SoundStacks]
  BY <1>1
<1>3. FinishCraft(inv) = UpdateResult(one)
  BY DEF FinishCraft
<1>4. \A s \in GridSlots : h[s] = p[s]
  <2> SUFFICES ASSUME NEW s \in GridSlots PROVE h[s] = p[s]
    OBVIOUS
  <2>1. s \in Kept /\ inv[s] \in Stack /\ Sound(inv[s])
    BY SlotFacts DEF SoundStacks
  <2>2. inv[s] = Empty <=> inv[s].kind = NoKind
    BY <2>1, StackFacts
  <2> QED BY <2>1, <2>2 DEF KindsOf
<1>5. \A s \in Kept \ GridSlots : h[s] = 0
  OBVIOUS
<1>6. \A s \in Kept : f[s] \in Nat /\ g[s] \in Nat /\ h[s] \in Nat /\ f[s] = g[s] + h[s]
  <2> HIDE DEF f, g, h, one
  <2> QED BY <1>1, SlotFacts
<1>7. Load(inv, Kept, Worth) = SumFunctionOnSet(f, Kept)
  BY DEF Load
<1>8. Load(one, Kept, Worth) = SumFunctionOnSet(g, Kept)
  BY DEF Load
<1>9. Price(inv) = SumFunctionOnSet(p, GridSlots)
  BY DEF Price, SumFunction
<1> HIDE DEF f, g, h, p, one
<1>10. SumFunctionOnSet(f, Kept) = SumFunctionOnSet(g, Kept) + SumFunctionOnSet(h, Kept)
  BY <1>6, SlotFacts, SumPlus
<1>11. SumFunctionOnSet(h, Kept) = SumFunctionOnSet(h, GridSlots)
  BY <1>5, <1>6, SlotFacts, SumWhere
<1>12. SumFunctionOnSet(h, GridSlots) = SumFunctionOnSet(p, GridSlots)
  BY <1>4, SlotFacts, SumSame
<1>13. SumFunctionOnSet(h, Kept) \in Nat
  BY <1>6, SlotFacts, SumType
<1>14. UpdateResult(one) \in [Slots -> SoundStacks] /\ Load(UpdateResult(one), Kept, Worth) = Load(one, Kept, Worth)
  BY <1>2, UpdateResultFacts
<1> QED BY <1>3, <1>7, <1>8, <1>9, <1>10, <1>11, <1>12, <1>13, <1>14

\* What the recipe gives is worth its price.
LEMMA PaidFacts ==
    ASSUME NEW inv \in [Slots -> SoundStacks], Paid(inv), inv[ResultSlot] # Empty
    PROVE  Weighs(inv[ResultSlot], Worth) = Price(inv)
<1>1. PICK grid \in DOMAIN Recipe : grid = KindsOf(inv)
  BY GridFacts
<1>2. Recipe[grid] # Empty /\ inv[ResultSlot] = Recipe[grid]
  BY <1>1 DEF Paid
<1>3. WorthOf(Recipe[grid]) = SumFunction([s \in GridSlots |-> IF grid[s] = NoKind THEN 0 ELSE Worth[grid[s]]])
  BY <1>2, PlayerWindowAssumption
<1>4. WorthOf(Recipe[grid]) = Price(inv)
  BY <1>1, <1>3 DEF Price
<1> QED BY <1>2, <1>4 DEF WorthOf, Weighs

\* Loads of slots that are apart add up.
LEMMA LoadUnion ==
    ASSUME NEW inv, NEW S, NEW T, IsFiniteSet(S), IsFiniteSet(T), S \cap T = {},
           \A s \in S \cup T : inv[s] \in SoundStacks, NEW w \in Weights
    PROVE  Load(inv, S \cup T, w) = Load(inv, S, w) + Load(inv, T, w)
<1> DEFINE f == [s \in S \cup T |-> Weighs(inv[s], w)]
           g == [s \in S |-> Weighs(inv[s], w)]
           h == [s \in T |-> Weighs(inv[s], w)]
<1>1. \A s \in S \cup T : f[s] \in Nat
  BY WeighsType
<1>2. (\A s \in S : f[s] = g[s]) /\ (\A s \in T : f[s] = h[s])
  OBVIOUS
<1>3. /\ Load(inv, S \cup T, w) = SumFunctionOnSet(f, S \cup T)
      /\ Load(inv, S, w) = SumFunctionOnSet(g, S)
      /\ Load(inv, T, w) = SumFunctionOnSet(h, T)
  BY DEF Load
<1> HIDE DEF f, g, h
<1>4. SumFunctionOnSet(f, S \cup T) = SumFunctionOnSet(f, S) + SumFunctionOnSet(f, T)
  BY <1>1, SumUnion
<1>5. SumFunctionOnSet(f, S) = SumFunctionOnSet(g, S) /\ SumFunctionOnSet(f, T) = SumFunctionOnSet(h, T)
  BY <1>2, SumSame
<1> QED BY <1>3, <1>4, <1>5

LEMMA LoadNothing ==
    ASSUME NEW inv, NEW S, IsFiniteSet(S), \A s \in S : inv[s] = Empty, NEW w
    PROVE  Load(inv, S, w) = 0
<1> DEFINE f == [s \in S |-> Weighs(inv[s], w)]
<1>1. \A s \in S : f[s] = 0
  BY EmptyFacts
<1>2. Load(inv, S, w) = SumFunctionOnSet(f, S)
  BY DEF Load
<1> HIDE DEF f
<1> QED BY <1>1, <1>2, SumZero

\* Slots that are emptied lose what was in them.
LEMMA LoadEmptied ==
    ASSUME NEW inv, NEW more, NEW S, IsFiniteSet(S), NEW T, T \subseteq S,
           \A s \in S : inv[s] \in SoundStacks, NEW w \in Weights,
           \A s \in T : more[s] = Empty, \A s \in S \ T : more[s] = inv[s]
    PROVE  Load(more, S, w) + Load(inv, T, w) = Load(inv, S, w)
<1> DEFINE U == S \ T
<1>1. IsFiniteSet(T) /\ IsFiniteSet(U) /\ U \cap T = {} /\ U \cup T = S
  <2>1. U \subseteq S
    OBVIOUS
  <2> QED BY <2>1, FS_Subset
<1>2. \A s \in S : more[s] \in SoundStacks
  BY EmptyFacts
<1>3. Load(inv, U \cup T, w) = Load(inv, U, w) + Load(inv, T, w)
  BY <1>1, LoadUnion
<1>4. Load(more, U \cup T, w) = Load(more, U, w) + Load(more, T, w)
  BY <1>1, <1>2, LoadUnion
<1>5. Load(more, T, w) = 0
  BY <1>1, LoadNothing
<1>6. Load(more, U, w) = Load(inv, U, w)
  BY <1>1, LoadSame
<1>7. Load(inv, U, w) \in Nat /\ Load(inv, T, w) \in Nat
  BY <1>1, LoadType
<1> HIDE DEF U
<1> QED BY <1>1, <1>3, <1>4, <1>5, <1>6, <1>7

\* A dropped stack lies on the ground.
LEMMA DroppedLies ==
    ASSUME NEW g \in [Kinds -> Nat], NEW stack \in SoundStacks, NEW w \in Weights
    PROVE  /\ Dropped(g, stack) \in [Kinds -> Nat]
           /\ Lying(Dropped(g, stack), w) = Lying(g, w) + Weighs(stack, w)
<1>1. CASE stack = Empty
  <2>1. Dropped(g, stack) = g /\ Weighs(stack, w) = 0 /\ Lying(g, w) \in Nat
    BY <1>1, EmptyFacts, LyingType DEF Dropped
  <2> QED BY <2>1
<1>2. CASE stack # Empty
  <2>1. PICK k \in Kinds, n \in Nat : k = stack.kind /\ n = stack.count
    BY <1>2, StackFacts DEF SoundStacks
  <2>2. PICK h : h = [g EXCEPT ![k] = @ + n]
    OBVIOUS
  <2>3. Dropped(g, stack) = h
    BY <1>2, <2>1, <2>2 DEF Dropped
  <2>4. h \in [Kinds -> Nat] /\ h[k] = g[k] + n /\ \A j \in Kinds \ {k} : h[j] = g[j]
    BY <2>2
  <2>5. Lying(h, w) = Lying(g, w) + n * w[k]
    BY <2>4, LyingMore
  <2>6. Weighs(stack, w) = n * w[k]
    BY <1>2, <2>1 DEF Weighs
  <2> QED BY <2>3, <2>4, <2>5, <2>6
<1> QED BY <1>1, <1>2

\* The same, of a cursor.
LEMMA SpilledOne ==
    ASSUME NEW g \in [Kinds -> Nat], NEW stack \in SoundStacks, NEW w \in Weights
    PROVE  /\ Spilled(g, <<stack>>) \in [Kinds -> Nat]
           /\ Lying(Spilled(g, <<stack>>), w) = Lying(g, w) + Weighs(stack, w)
<1>1. PICK one : one = <<stack>>
  OBVIOUS
<1>2. DOMAIN one = {1} /\ one[1] = stack
  BY <1>1
<1>3. IsFiniteSet(DOMAIN one) /\ \A i \in DOMAIN one : one[i] \in SoundStacks
  BY <1>2, FS_Singleton
<1>4. /\ Spilled(g, one) \in [Kinds -> Nat]
      /\ Lying(Spilled(g, one), w) = Lying(g, w) + Load(one, DOMAIN one, w)
  BY <1>3, SpilledLies
<1> DEFINE f == [s \in {1} |-> Weighs(one[s], w)]
<1>5. f[1] = Weighs(stack, w) /\ f[1] \in Nat
  BY <1>2, WeighsType
<1>6. Load(one, {1}, w) = SumFunctionOnSet(f, {1})
  BY DEF Load
<1> HIDE DEF f
<1>7. SumFunctionOnSet(f, {1}) = f[1]
  BY <1>5, SumOne
<1> QED BY <1>1, <1>2, <1>4, <1>5, <1>6, <1>7

\* n items are picked up from the ground and what does not fit stays there.
LEMMA PickedLies ==
    ASSUME NEW g \in [Kinds -> Nat], NEW here \in [Kinds -> Nat], NEW w \in Weights,
           NEW k \in Kinds, NEW n \in Nat, n <= g[k],
           NEW rest \in SoundStacks, rest # Empty => rest.kind = k,
           here[k] = g[k] - n + rest.count, \A j \in Kinds \ {k} : here[j] = g[j]
    PROVE  Lying(here, w) + n * w[k] = Lying(g, w) + Weighs(rest, w)
<1>1. PICK r \in Nat : r = rest.count
  BY DEF SoundStacks, Stack
<1>2. Weighs(rest, w) = r * w[k]
  <2>1. CASE rest = Empty
    <3>1. r = 0 /\ Weighs(rest, w) = 0
      BY <1>1, <2>1, EmptyFacts
    <3> QED BY <3>1 DEF Weights
  <2>2. CASE rest # Empty
    BY <1>1, <2>2 DEF Weighs
  <2> QED BY <2>1, <2>2
<1>3. PICK less \in [Kinds -> Nat] : less[k] = g[k] - n /\ \A j \in Kinds \ {k} : less[j] = g[j]
  <2>1. PICK c \in Nat : c = g[k] - n
    OBVIOUS
  <2> QED BY <2>1, [g EXCEPT ![k] = c] \in [Kinds -> Nat]
<1>4. Lying(g, w) = Lying(less, w) + n * w[k]
  <2>1. g[k] = less[k] + n
    BY <1>3
  <2> QED BY <1>3, <2>1, LyingMore
<1>5. Lying(here, w) = Lying(less, w) + r * w[k]
  <2>1. here[k] = less[k] + r
    BY <1>1, <1>3
  <2> QED BY <1>1, <1>3, <2>1, LyingMore
<1>6. PICK a, x, y \in Nat : a = Lying(less, w) /\ x = n * w[k] /\ y = r * w[k]
  BY <1>1, <1>3, LyingType, TimesNat DEF Weights
<1>7. (a + y) + x = (a + x) + y
  BY <1>6
<1> QED BY <1>2, <1>4, <1>5, <1>6, <1>7
-----------------------------------------------------------------------------
(* One lemma for each action: the types are kept, and so is the worth of everything *)
(* unless the step is one of those that lapses names.                               *)

WindowTyped == Typed(slots, cursor, ground) /\ lapses \subseteq Lapses

WindowKeeps ==
    /\ Typed(slots', cursor', ground')
    /\ lapses' \subseteq Lapses
    /\ lapses' = {} => lapses = {} /\ Total(slots', cursor', ground') = Total(slots, cursor, ground)

LEMMA TakeResultKeeps ==
    ASSUME WindowTyped, TakeResult
    PROVE  WindowKeeps
<1>1. PICK result \in SoundStacks : result = slots[ResultSlot] /\ result # Empty
  BY SlotFacts DEF WindowTyped, Typed, TakeResult
<1>2. /\ slots \in [Slots -> SoundStacks] /\ cursor \in SoundStacks
      /\ ground' = ground /\ slots' = FinishCraft(slots)
  BY DEF WindowTyped, Typed, TakeResult
<1>3. cursor' = StackOf(result.kind, cursor.count + result.count)
  BY <1>1 DEF TakeResult
<1>4. \/ cursor = Empty
      \/ cursor.kind = result.kind /\ cursor.count + result.count <= MaxStackOf[result.kind]
  BY <1>1 DEF TakeResult
<1>5. /\ cursor' \in SoundStacks
      /\ Weighs(cursor', Worth) = Weighs(cursor, Worth) + Weighs(result, Worth)
  BY <1>1, <1>2, <1>3, <1>4, StackedFacts, WorthIsWeights
<1>6. Typed(slots', cursor', ground')
  BY <1>2, <1>5, FinishCraftFacts DEF WindowTyped, Typed
<1>7. lapses' \subseteq Lapses
  BY DEF TakeResult, WindowTyped, Lapses
<1>8. ASSUME lapses' = {}
      PROVE  lapses = {} /\ Total(slots', cursor', ground') = Total(slots, cursor, ground)
  <2>1. lapses = {} /\ Paid(slots)
    BY <1>8 DEF TakeResult
  <2>2. Weighs(result, Worth) = Price(slots)
    BY <1>1, <1>2, <2>1, PaidFacts
  <2>3. PICK l, l1, u, g, x \in Nat :
           /\ l = Load(slots, Kept, Worth) /\ l1 = Load(slots', Kept, Worth)
           /\ u = Weighs(cursor, Worth) /\ g = Lying(ground, Worth) /\ x = Price(slots)
    BY <1>2, <1>6, TotalParts, FinishCraftFacts DEF WindowTyped
  <2>4. l1 + x = l
    BY <1>2, <2>3, FinishCraftFacts
  <2>5. l1 + (u + x) + g = l + u + g
    BY <2>3, <2>4
  <2>6. Total(slots', cursor', ground') = Total(slots, cursor, ground)
    BY <1>2, <1>5, <2>2, <2>3, <2>5 DEF Total
  <2> QED BY <2>1, <2>6
<1> QED BY <1>6, <1>7, <1>8 DEF WindowKeeps

LEMMA ShiftClickResultKeeps ==
    ASSUME WindowTyped, ShiftClickResult
    PROVE  WindowKeeps
<1>1. PICK result \in SoundStacks : result = slots[ResultSlot] /\ result # Empty
  BY SlotFacts DEF WindowTyped, Typed, ShiftClickResult
<1>2. slots \in [Slots -> SoundStacks] /\ ground' = ground /\ cursor' = cursor
  BY DEF WindowTyped, Typed, ShiftClickResult
<1>3. PICK m : m = MergeItemStack(slots, result, AllDownwards)
  OBVIOUS
<1>4. MergesTo(slots, result, AllDownwards, Slots, m)
  BY <1>1, <1>2, <1>3, Merges, SlotFacts
<1>5. /\ m.slots \in [Slots -> SoundStacks] /\ m.left \in SoundStacks
      /\ (m.ok <=> m.left = Empty)
      /\ \A s \in Slots \ (MainSlots \cup BarSlots) : m.slots[s] = slots[s]
  BY <1>4, SlotFacts DEF MergesTo
<1>6. Load(m.slots, Kept, Worth) + Weighs(m.left, Worth) = Load(slots, Kept, Worth) + Weighs(result, Worth)
  <2>1. Kept \in SUBSET Slots /\ IsFiniteSet(Kept) /\ Visited(AllDownwards) \subseteq Kept
    BY SlotFacts
  <2> QED BY <1>4, <2>1, WorthIsWeights DEF MergesTo
<1>7. slots' = IF m.ok THEN FinishCraft(m.slots) ELSE [m.slots EXCEPT ![ResultSlot] = m.left]
  BY <1>1, <1>3 DEF ShiftClickResult
<1>8. lapses' = lapses \cup (IF Paid(slots) THEN {} ELSE {FreeResult})
                       \cup (IF m.ok \/ m.left = result THEN {} ELSE {PartialResult})
  BY <1>1, <1>3 DEF ShiftClickResult
<1>9. lapses' \subseteq Lapses
  BY <1>8 DEF WindowTyped, Lapses
<1>10. slots' \in [Slots -> SoundStacks]
  BY <1>5, <1>7, FinishCraftFacts
<1>11. Typed(slots', cursor', ground')
  BY <1>2, <1>10 DEF WindowTyped, Typed
<1>12. ASSUME lapses' = {}
       PROVE  lapses = {} /\ Total(slots', cursor', ground') = Total(slots, cursor, ground)
  <2>1. lapses = {} /\ Paid(slots) /\ (m.ok \/ m.left = result)
    BY <1>8, <1>12
  <2>2. PICK l, l1, u, g \in Nat :
           /\ l = Load(slots, Kept, Worth) /\ l1 = Load(slots', Kept, Worth)
           /\ u = Weighs(cursor, Worth) /\ g = Lying(ground, Worth)
    BY <1>11, TotalParts DEF WindowTyped
  <2>3. PICK l2 \in Nat : l2 = Load(m.slots, Kept, Worth)
    BY <1>5, SlotFacts, LoadType, WorthIsWeights
  <2>4. PICK v \in Nat : v = Weighs(result, Worth)
    BY WeighsType, WorthIsWeights
  <2>5. l1 = l
    <3>1. CASE m.ok
      <4>1. m.left = Empty /\ Weighs(m.left, Worth) = 0
        BY <1>5, <3>1, EmptyFacts
      <4>2. l2 + 0 = l + v
        BY <1>6, <2>2, <2>3, <2>4, <4>1
      <4>3. Price(m.slots) = Price(slots)
        <5>1. KindsOf(m.slots) = KindsOf(slots)
          <6>1. \A s \in GridSlots : m.slots[s] = slots[s]
            BY <1>5, SlotFacts
          <6> QED BY <6>1 DEF KindsOf
        <5> QED BY <5>1 DEF Price
      <4>4. v = Price(slots)
        BY <1>1, <1>2, <2>1, <2>4, PaidFacts
      <4>5. Load(FinishCraft(m.slots), Kept, Worth) + Price(m.slots) = l2
        BY <1>5, <2>3, FinishCraftFacts
      <4>6. l1 + v = l2
        BY <1>7, <2>2, <3>1, <4>3, <4>4, <4>5
      <4>7. l2 = l + v
        BY <2>2, <2>3, <2>4, <4>2
      <4>8. l1 + v = l + v
        BY <4>6, <4>7
      <4> QED BY <2>2, <2>4, <4>8
    <3>2. CASE ~m.ok
      <4>1. m.left = result
        BY <2>1, <3>2
      <4>2. \A s \in Kept : slots'[s] = m.slots[s]
        BY <1>5, <1>7, <3>2, SlotFacts DEF Kept
      <4>3. l1 = l2
        BY <2>2, <2>3, <4>2, SlotFacts, LoadSame
      <4>4. l2 + v = l + v
        BY <1>6, <2>2, <2>3, <2>4, <4>1
      <4> QED BY <2>2, <2>3, <2>4, <4>3, <4>4
    <3> QED BY <3>1, <3>2
  <2>6. Total(slots', cursor', ground') = Total(slots, cursor, ground)
    BY <1>2, <2>2, <2>5 DEF Total
  <2> QED BY <2>1, <2>6
<1> QED BY <1>9, <1>11, <1>12 DEF WindowKeeps

LEMMA ClickKeeps ==
    ASSUME WindowTyped, NEW slot \in Slots, Click(slot)
    PROVE  WindowKeeps
<1>1. /\ slots \in [Slots -> SoundStacks] /\ cursor \in SoundStacks /\ slot \in Kept
      /\ ground' = ground /\ lapses' = lapses
  BY DEF WindowTyped, Typed, Click, Kept
<1>2. PICK after \in {OnLeftClick(slots, cursor, slot), OnRightClick(slots, cursor, slot)} :
         slots' = HandleCrafting(after.slots, slot) /\ cursor' = after.cursor
  BY DEF Click
<1>3. Exchanges(slots, cursor, slot, Slots, Worth, after)
  BY <1>1, <1>2, LeftClickFacts, RightClickFacts, WorthIsWeights
<1>4. after.slots \in [Slots -> SoundStacks] /\ after.cursor \in SoundStacks
  BY <1>3 DEF Exchanges
<1>5. Load(after.slots, Kept, Worth) + Weighs(after.cursor, Worth)
         = Load(slots, Kept, Worth) + Weighs(cursor, Worth)
  BY <1>1, <1>3, SlotFacts, ExchangesLoad, WorthIsWeights
<1>6. /\ slots' \in [Slots -> SoundStacks]
      /\ Load(slots', Kept, Worth) = Load(after.slots, Kept, Worth)
  BY <1>2, <1>4, HandleCraftingFacts
<1>7. Typed(slots', cursor', ground')
  BY <1>1, <1>2, <1>4, <1>6 DEF WindowTyped, Typed
<1>8. Total(slots', cursor', ground') = Total(slots, cursor, ground)
  BY <1>1, <1>2, <1>5, <1>6 DEF Total
<1> QED BY <1>1, <1>7, <1>8 DEF WindowKeeps, WindowTyped

LEMMA ShiftClickOtherKeeps ==
    ASSUME WindowTyped, NEW slot \in Slots, ShiftClickOther(slot)
    PROVE  WindowKeeps
<1>1. /\ slots \in [Slots -> SoundStacks] /\ slot \in Kept
      /\ ground' = ground /\ cursor' = cursor
  BY DEF WindowTyped, Typed, ShiftClickOther, Kept
<1>2. PICK stack \in SoundStacks : stack = slots[slot] /\ stack # Empty
  BY <1>1 DEF ShiftClickOther
<1>3. PICK i : i = MergeItemStack(slots, stack, MainUpwards)
  OBVIOUS
<1>4. PICK b : b = MergeItemStack(slots, stack, BarUpwards)
  OBVIOUS
<1>5. PICK ib : ib = MergeItemStack(i.slots, i.left, BarUpwards)
  OBVIOUS
<1>6. PICK m : m = CASE slot \in MainSlots -> b
                     [] slot \notin MainSlots /\ i.ok -> i
                     [] slot \notin MainSlots /\ ~i.ok -> ib
  OBVIOUS
<1>7. /\ slots' = HandleCrafting([m.slots EXCEPT ![slot] = m.left], slot)
      /\ lapses' = IF slot \in BarSlots /\ m.slots[slot] # slots[slot]
                   THEN lapses \cup {MergedIntoItself} ELSE lapses
  BY <1>2, <1>3, <1>4, <1>5, <1>6 DEF ShiftClickOther
<1>8. MergesTo(slots, stack, MainUpwards, Slots, i) /\ MergesTo(slots, stack, BarUpwards, Slots, b)
  BY <1>1, <1>2, <1>3, <1>4, Merges, SlotFacts
<1>9. /\ Kept \in SUBSET Slots /\ IsFiniteSet(Kept) /\ Visited(MainUpwards) \subseteq Kept
      /\ Visited(BarUpwards) \subseteq Kept /\ Visited(MainUpwards) \cup Visited(BarUpwards) \subseteq Kept
  BY SlotFacts
<1> DEFINE Merged1 ==
             /\ m.slots \in [Slots -> SoundStacks] /\ m.left \in SoundStacks
             /\ slot \notin BarSlots => m.slots[slot] = slots[slot]
             /\ Load(m.slots, Kept, Worth) + Weighs(m.left, Worth)
                  = Load(slots, Kept, Worth) + Weighs(stack, Worth)
<1>10. Merged1
  <2>1. CASE slot \in MainSlots
    <3>1. m = b
      BY <1>6, <2>1
    <3>2. slot \notin Visited(BarUpwards)
      BY <2>1, SlotFacts
    <3>3. /\ b.slots \in [Slots -> SoundStacks] /\ b.left \in SoundStacks
          /\ b.slots[slot] = slots[slot]
          /\ Load(b.slots, Kept, Worth) + Weighs(b.left, Worth)
               = Load(slots, Kept, Worth) + Weighs(stack, Worth)
      BY <1>8, <1>9, <3>2, WorthIsWeights DEF MergesTo
    <3> QED BY <3>1, <3>3
  <2>2. CASE slot \notin MainSlots /\ i.ok
    <3>1. m = i
      BY <1>6, <2>2
    <3>2. slot \notin Visited(MainUpwards)
      BY <2>2, SlotFacts
    <3>3. /\ i.slots \in [Slots -> SoundStacks] /\ i.left \in SoundStacks
          /\ i.slots[slot] = slots[slot]
          /\ Load(i.slots, Kept, Worth) + Weighs(i.left, Worth)
               = Load(slots, Kept, Worth) + Weighs(stack, Worth)
      BY <1>8, <1>9, <3>2, WorthIsWeights DEF MergesTo
    <3> QED BY <3>1, <3>3
  <2>3. CASE slot \notin MainSlots /\ ~i.ok
    <3>1. m = ib
      BY <1>6, <2>3
    <3>2. /\ ib.slots \in [Slots -> SoundStacks]
          /\ ib.left \in SoundStacks
          /\ \A s \in Slots \ (Visited(MainUpwards) \cup Visited(BarUpwards)) : ib.slots[s] = slots[s]
          /\ \A w \in Weights : \A S \in SUBSET Slots :
                IsFiniteSet(S) /\ Visited(MainUpwards) \cup Visited(BarUpwards) \subseteq S =>
                   Load(ib.slots, S, w) + Weighs(ib.left, w) = Load(slots, S, w) + Weighs(stack, w)
      BY <1>1, <1>2, <1>5, <1>8, <2>3, SlotFacts, MergesOn
    <3>3. slot \notin BarSlots => slot \notin Visited(MainUpwards) \cup Visited(BarUpwards)
      BY <2>3, SlotFacts
    <3>4. Load(ib.slots, Kept, Worth) + Weighs(ib.left, Worth)
             = Load(slots, Kept, Worth) + Weighs(stack, Worth)
      BY <1>9, <3>2, WorthIsWeights
    <3>5. slot \notin BarSlots => ib.slots[slot] = slots[slot]
      BY <3>2, <3>3
    <3> QED BY <3>1, <3>2, <3>4, <3>5
  <2> QED BY <2>1, <2>2, <2>3
<1>11. PICK more : more = [m.slots EXCEPT ![slot] = m.left]
  OBVIOUS
<1>12. /\ more \in [Slots -> SoundStacks] /\ more[slot] = m.left
       /\ \A s \in Kept \ {slot} : m.slots[s] = more[s]
  BY <1>10, <1>11, SlotFacts
<1>13. slots' \in [Slots -> SoundStacks] /\ Load(slots', Kept, Worth) = Load(more, Kept, Worth)
  BY <1>7, <1>11, <1>12, HandleCraftingFacts
<1>14. Typed(slots', cursor', ground')
  BY <1>1, <1>13 DEF WindowTyped, Typed
<1>15. lapses' \subseteq Lapses
  BY <1>7 DEF WindowTyped, Lapses
<1>16. ASSUME lapses' = {}
       PROVE  lapses = {} /\ Total(slots', cursor', ground') = Total(slots, cursor, ground)
  <2>1. lapses = {} /\ (slot \in BarSlots => m.slots[slot] = slots[slot])
    BY <1>7, <1>16
  <2>2. m.slots[slot] = stack
    BY <1>2, <1>10, <2>1
  <2>3. PICK l, l1, v, r, l2 \in Nat :
           /\ l = Load(slots, Kept, Worth) /\ l1 = Load(more, Kept, Worth)
           /\ l2 = Load(m.slots, Kept, Worth)
           /\ v = Weighs(stack, Worth) /\ r = Weighs(m.left, Worth)
    <3>1. /\ Load(slots, Kept, Worth) \in Nat /\ Load(more, Kept, Worth) \in Nat
          /\ Load(m.slots, Kept, Worth) \in Nat
      BY <1>1, <1>10, <1>12, SlotFacts, LoadType, WorthIsWeights
    <3>2. Weighs(stack, Worth) \in Nat /\ Weighs(m.left, Worth) \in Nat
      BY <1>10, WeighsType, WorthIsWeights
    <3> QED BY <3>1, <3>2
  <2>4. l2 + r = l + v
    BY <1>10, <2>3
  <2>5. l2 + r = l1 + v
    <3>1. \A s \in Kept : m.slots[s] \in SoundStacks /\ more[s] \in SoundStacks
      BY <1>10, <1>12, SlotFacts
    <3>2. Load(m.slots, Kept, Worth) + Weighs(more[slot], Worth)
             = Load(more, Kept, Worth) + Weighs(m.slots[slot], Worth)
      BY <1>1, <1>12, <3>1, SlotFacts, LoadChange, WorthIsWeights
    <3> QED BY <1>12, <2>2, <2>3, <3>2
  <2>6. l1 = l
    BY <2>3, <2>4, <2>5
  <2>7. Total(slots', cursor', ground') = Total(slots, cursor, ground)
    BY <1>1, <1>13, <2>3, <2>6 DEF Total
  <2> QED BY <2>1, <2>7
<1> QED BY <1>14, <1>15, <1>16 DEF WindowKeeps

LEMMA ClickOutsideKeeps ==
    ASSUME WindowTyped, ClickOutside
    PROVE  WindowKeeps
<1>1. PICK n \in {1, cursor.count} :
         ground' = Dropped(ground, StackOf(cursor.kind, n)) /\ cursor' = Less(cursor, n)
  BY DEF ClickOutside
<1>2. /\ cursor \in SoundStacks /\ cursor # Empty /\ ground \in [Kinds -> Nat]
      /\ slots' = slots /\ lapses' = lapses
  BY DEF WindowTyped, Typed, ClickOutside
<1>3. PICK k \in Kinds : k = cursor.kind /\ n \in 1 .. cursor.count /\ n \in 1 .. MaxStackOf[k] /\ n \in Nat
  BY <1>2, StackFacts DEF SoundStacks
<1>4. StackOf(k, n) \in SoundStacks /\ Weighs(StackOf(k, n), Worth) = n * Worth[k]
  BY <1>3, StackOfFacts, WorthIsWeights DEF SoundStacks
<1>5. cursor' \in SoundStacks /\ Weighs(cursor', Worth) + n * Worth[k] = Weighs(cursor, Worth)
  BY <1>1, <1>2, <1>3, LessFacts, WorthIsWeights
<1>6. /\ ground' \in [Kinds -> Nat]
      /\ Lying(ground', Worth) = Lying(ground, Worth) + n * Worth[k]
  BY <1>1, <1>2, <1>3, <1>4, DroppedLies, WorthIsWeights
<1>7. Typed(slots', cursor', ground')
  BY <1>2, <1>5, <1>6 DEF WindowTyped, Typed
<1>8. PICK x \in Nat : x = n * Worth[k]
  BY <1>3, TimesNat, WorthIsWeights DEF Weights
<1>9. PICK l, u, u1, g \in Nat :
         /\ l = Load(slots, Kept, Worth) /\ u = Weighs(cursor, Worth)
         /\ u1 = Weighs(cursor', Worth) /\ g = Lying(ground, Worth)
  BY <1>7, TotalParts DEF WindowTyped
<1>10. l + u1 + (g + x) = l + u + g
  <2>1. u1 + x = u
    BY <1>5, <1>8, <1>9
  <2> QED BY <2>1
<1>11. Total(slots', cursor', ground') = Total(slots, cursor, ground)
  BY <1>2, <1>6, <1>8, <1>9, <1>10 DEF Total
<1> QED BY <1>2, <1>7, <1>11 DEF WindowKeeps, WindowTyped

LEMMA DropHeldItemKeeps ==
    ASSUME WindowTyped, DropHeldItem
    PROVE  WindowKeeps
<1>1. PICK held \in BarSlots :
         /\ slots[held] # Empty
         /\ slots' = [slots EXCEPT ![held] = Less(@, 1)]
         /\ ground' = Dropped(ground, StackOf(slots[held].kind, 1))
         /\ cursor' = cursor /\ lapses' = lapses
  BY DEF DropHeldItem
<1>2. /\ slots \in [Slots -> SoundStacks] /\ ground \in [Kinds -> Nat]
      /\ held \in Kept /\ held \in Slots /\ slots[held] \in SoundStacks
  BY SlotFacts DEF WindowTyped, Typed
<1>3. PICK k \in Kinds : k = slots[held].kind /\ 1 \in 1 .. slots[held].count /\ 1 \in 1 .. MaxStackOf[k]
  BY <1>1, <1>2, StackFacts DEF SoundStacks
<1>4. StackOf(k, 1) \in SoundStacks /\ Weighs(StackOf(k, 1), Worth) = 1 * Worth[k]
  BY <1>3, StackOfFacts, WorthIsWeights DEF SoundStacks
<1>5. /\ Less(slots[held], 1) \in SoundStacks
      /\ Weighs(Less(slots[held], 1), Worth) + 1 * Worth[k] = Weighs(slots[held], Worth)
  BY <1>1, <1>2, <1>3, LessFacts, WorthIsWeights
<1>6. /\ ground' \in [Kinds -> Nat]
      /\ Lying(ground', Worth) = Lying(ground, Worth) + 1 * Worth[k]
  BY <1>1, <1>2, <1>3, <1>4, DroppedLies, WorthIsWeights
<1>7. PICK more : more = slots'
  OBVIOUS
<1>8. /\ more \in [Slots -> SoundStacks] /\ more[held] = Less(slots[held], 1)
      /\ \A s \in Kept \ {held} : slots[s] = more[s]
  <2>1. more = [slots EXCEPT ![held] = Less(slots[held], 1)]
    BY <1>1, <1>7
  <2> QED BY <1>2, <1>5, <2>1, SlotFacts
<1>9. Typed(slots', cursor', ground')
  BY <1>1, <1>6, <1>7, <1>8 DEF WindowTyped, Typed
<1>10. Load(slots, Kept, Worth) + Weighs(more[held], Worth) = Load(more, Kept, Worth) + Weighs(slots[held], Worth)
  <2>1. \A s \in Kept : slots[s] \in SoundStacks /\ more[s] \in SoundStacks
    BY <1>2, <1>8, SlotFacts
  <2> QED BY <1>2, <1>8, <2>1, SlotFacts, LoadChange, WorthIsWeights
<1>11. PICK x \in Nat : x = 1 * Worth[k]
  BY <1>3, TimesNat, WorthIsWeights DEF Weights
<1>12. PICK l, l1, u, g, a, b \in Nat :
         /\ l = Load(slots, Kept, Worth) /\ l1 = Load(more, Kept, Worth) /\ u = Weighs(cursor, Worth)
         /\ g = Lying(ground, Worth) /\ a = Weighs(more[held], Worth) /\ b = Weighs(slots[held], Worth)
  <2>1. Weighs(more[held], Worth) \in Nat /\ Weighs(slots[held], Worth) \in Nat
    BY <1>2, <1>8, WeighsType, WorthIsWeights
  <2> QED BY <1>7, <1>9, <2>1, TotalParts DEF WindowTyped
<1>13. l1 + u + (g + x) = l + u + g
  <2>1. a + x = b
    BY <1>5, <1>8, <1>11, <1>12
  <2>2. l + a = l1 + b
    BY <1>10, <1>12
  <2> QED BY <2>1, <2>2
<1>14. Total(slots', cursor', ground') = Total(slots, cursor, ground)
  BY <1>1, <1>6, <1>7, <1>11, <1>12, <1>13 DEF Total
<1> QED BY <1>1, <1>9, <1>14 DEF WindowKeeps, WindowTyped

\* What is dropped from some slots, and what is left in the others.
LEMMA DroppedFromFacts ==
    ASSUME WindowTyped, NEW T, T \subseteq Kept,
           NEW more, \A s \in T : more[s] = Empty, \A s \in Kept \ T : more[s] = slots[s]
    PROVE  /\ DroppedFrom(ground, T) \in [Kinds -> Nat]
           /\ Load(more, Kept, Worth) + Lying(DroppedFrom(ground, T), Worth)
                = Load(slots, Kept, Worth) + Lying(ground, Worth)
<1>1. slots \in [Slots -> SoundStacks] /\ ground \in [Kinds -> Nat] /\ IsFiniteSet(T)
  BY SlotFacts, FS_Subset DEF WindowTyped, Typed
<1>2. PICK these : these = [s \in T |-> slots[s]]
  OBVIOUS
<1>3. /\ DOMAIN these = T /\ IsFiniteSet(DOMAIN these)
      /\ \A s \in DOMAIN these : these[s] \in SoundStacks /\ these[s] = slots[s]
  BY <1>1, <1>2, SlotFacts
<1>4. DroppedFrom(ground, T) = Spilled(ground, these)
  BY <1>2 DEF DroppedFrom
<1>5. /\ Spilled(ground, these) \in [Kinds -> Nat]
      /\ Lying(Spilled(ground, these), Worth) = Lying(ground, Worth) + Load(these, DOMAIN these, Worth)
  BY <1>1, <1>3, SpilledLies, WorthIsWeights
<1>6. Load(these, T, Worth) = Load(slots, T, Worth)
  BY <1>1, <1>3, LoadSame
<1>7. Load(more, Kept, Worth) + Load(slots, T, Worth) = Load(slots, Kept, Worth)
  BY <1>1, SlotFacts, LoadEmptied, WorthIsWeights
<1>8. PICK a, b, c, d \in Nat : /\ a = Load(more, Kept, Worth) /\ b = Load(slots, T, Worth)
                                /\ c = Load(slots, Kept, Worth) /\ d = Lying(ground, Worth)
  <2>1. \A s \in Kept : more[s] \in SoundStacks
    BY <1>1, SlotFacts, EmptyFacts
  <2>2. /\ Load(more, Kept, Worth) \in Nat /\ Load(slots, T, Worth) \in Nat
        /\ Load(slots, Kept, Worth) \in Nat /\ Lying(ground, Worth) \in Nat
    BY <1>1, <2>1, SlotFacts, LoadType, LyingType, WorthIsWeights
  <2> QED BY <2>2
<1>9. Lying(DroppedFrom(ground, T), Worth) = d + b
  BY <1>3, <1>4, <1>5, <1>6, <1>8
<1>10. a + (d + b) = c + d
  <2>1. a + b = c
    BY <1>7, <1>8
  <2> QED BY <2>1
<1> QED BY <1>4, <1>5, <1>8, <1>9, <1>10

LEMMA CloseWindowKeeps ==
    ASSUME WindowTyped, CloseWindow
    PROVE  WindowKeeps
<1>1. /\ slots \in [Slots -> SoundStacks] /\ cursor \in SoundStacks /\ ground \in [Kinds -> Nat]
      /\ lapses' = lapses /\ cursor' = Empty
      /\ ground' = Dropped(DroppedFrom(ground, GridSlots), cursor)
      /\ slots' = [s \in Slots |-> IF s \in GridSlots THEN Empty ELSE slots[s]]
  BY DEF WindowTyped, Typed, CloseWindow
<1>2. PICK more : more = slots'
  OBVIOUS
<1>3. /\ more \in [Slots -> SoundStacks]
      /\ \A s \in GridSlots : more[s] = Empty
      /\ \A s \in Kept \ GridSlots : more[s] = slots[s]
  BY <1>1, <1>2, SlotFacts, EmptyFacts
<1>4. PICK spilled : spilled = DroppedFrom(ground, GridSlots)
  OBVIOUS
<1>5. /\ spilled \in [Kinds -> Nat]
      /\ Load(more, Kept, Worth) + Lying(spilled, Worth) = Load(slots, Kept, Worth) + Lying(ground, Worth)
  BY <1>3, <1>4, SlotFacts, DroppedFromFacts
<1>6. /\ ground' \in [Kinds -> Nat]
      /\ Lying(ground', Worth) = Lying(spilled, Worth) + Weighs(cursor, Worth)
  BY <1>1, <1>4, <1>5, DroppedLies, WorthIsWeights
<1>7. Typed(slots', cursor', ground')
  BY <1>1, <1>2, <1>3, <1>6, EmptyFacts DEF Typed
<1>8. PICK l, l1, u, g, p \in Nat :
         /\ l = Load(slots, Kept, Worth) /\ l1 = Load(more, Kept, Worth) /\ u = Weighs(cursor, Worth)
         /\ g = Lying(ground, Worth) /\ p = Lying(spilled, Worth)
  <2>1. Lying(spilled, Worth) \in Nat
    BY <1>5, LyingType, WorthIsWeights
  <2> QED BY <1>2, <1>7, <2>1, TotalParts DEF WindowTyped
<1>9. Weighs(cursor', Worth) = 0
  BY <1>1, EmptyFacts
<1>10. l1 + 0 + (p + u) = l + u + g
  <2>1. l1 + p = l + g
    BY <1>5, <1>8
  <2> QED BY <2>1
<1>11. Total(slots', cursor', ground') = Total(slots, cursor, ground)
  BY <1>2, <1>6, <1>8, <1>9, <1>10 DEF Total
<1> QED BY <1>1, <1>7, <1>11 DEF WindowKeeps, WindowTyped

LEMMA DropInventoryKeeps ==
    ASSUME WindowTyped, DropInventory
    PROVE  WindowKeeps
<1>1. /\ slots \in [Slots -> SoundStacks] /\ lapses' = lapses /\ cursor' = cursor
      /\ ground' = DroppedFrom(ground, Kept)
      /\ slots' = [s \in Slots |-> IF s = ResultSlot THEN slots[s] ELSE Empty]
  BY DEF WindowTyped, Typed, DropInventory, Kept
<1>2. PICK more : more = slots'
  OBVIOUS
<1>3. more \in [Slots -> SoundStacks] /\ \A s \in Kept : more[s] = Empty
  BY <1>1, <1>2, EmptyFacts DEF Kept
<1>4. /\ ground' \in [Kinds -> Nat]
      /\ Load(more, Kept, Worth) + Lying(ground', Worth) = Load(slots, Kept, Worth) + Lying(ground, Worth)
  BY <1>1, <1>3, DroppedFromFacts
<1>5. Typed(slots', cursor', ground')
  BY <1>1, <1>2, <1>3, <1>4 DEF Typed, WindowTyped
<1>6. PICK l, l1, u, g, g1 \in Nat :
         /\ l = Load(slots, Kept, Worth) /\ l1 = Load(more, Kept, Worth) /\ u = Weighs(cursor, Worth)
         /\ g = Lying(ground, Worth) /\ g1 = Lying(ground', Worth)
  BY <1>2, <1>5, TotalParts DEF WindowTyped
<1>7. l1 + u + g1 = l + u + g
  <2>1. l1 + g1 = l + g
    BY <1>4, <1>6
  <2> QED BY <2>1
<1>8. Total(slots', cursor', ground') = Total(slots, cursor, ground)
  BY <1>1, <1>2, <1>6, <1>7 DEF Total
<1> QED BY <1>1, <1>5, <1>8 DEF WindowKeeps, WindowTyped

LEMMA PickupKeeps ==
    ASSUME WindowTyped, Pickup
    PROVE  WindowKeeps
<1>0. PICK k \in Kinds :
         \E n \in 1 .. Smaller(ground[k], MaxStackOf[k]) :
            LET picked == PickupItem(slots, StackOf(k, n), MainUpwards, BarUpwards)
            IN  /\ slots' = picked.slots
                /\ ground' = [ground EXCEPT ![k] = @ - n + picked.left.count]
                /\ UNCHANGED <<cursor, lapses>>
  BY DEF Pickup
<1>1. PICK n \in 1 .. Smaller(ground[k], MaxStackOf[k]) :
         LET picked == PickupItem(slots, StackOf(k, n), MainUpwards, BarUpwards)
         IN  /\ slots' = picked.slots
             /\ ground' = [ground EXCEPT ![k] = @ - n + picked.left.count]
             /\ UNCHANGED <<cursor, lapses>>
  BY <1>0
<1>2. PICK p : p = PickupItem(slots, StackOf(k, n), MainUpwards, BarUpwards)
  OBVIOUS
<1>3. /\ slots' = p.slots /\ ground' = [ground EXCEPT ![k] = @ - n + p.left.count]
      /\ cursor' = cursor /\ lapses' = lapses
  BY <1>1, <1>2
<1>4. slots \in [Slots -> SoundStacks] /\ ground \in [Kinds -> Nat]
  BY DEF WindowTyped, Typed
<1>5. n \in Nat /\ n <= ground[k] /\ n \in 1 .. MaxStackOf[k]
  <2>1. PICK t \in Nat : t = Smaller(ground[k], MaxStackOf[k]) /\ t <= ground[k] /\ t <= MaxStackOf[k]
    BY <1>4, SmallerFacts, StacksAssumption
  <2> QED BY <1>4, <2>1, StacksAssumption
<1>6. PICK stack \in SoundStacks : /\ stack = StackOf(k, n) /\ stack # Empty /\ stack.kind = k
                                   /\ stack.count = n /\ Weighs(stack, Worth) = n * Worth[k]
  BY <1>5, StackOfFacts, WorthIsWeights DEF SoundStacks
<1>7. PicksUp(slots, stack, Slots, Kept, p)
  <2>1. Visited(MainUpwards) \cup Visited(BarUpwards) \subseteq Kept
    BY SlotFacts
  <2> QED BY <1>2, <1>4, <1>6, <2>1, SlotFacts, PickupFacts
<1>8. /\ p.slots \in [Slots -> SoundStacks] /\ p.left \in SoundStacks
      /\ p.left # Empty => p.left.kind = k
      /\ Load(p.slots, Kept, Worth) + Weighs(p.left, Worth) = Load(slots, Kept, Worth) + n * Worth[k]
  BY <1>6, <1>7, WorthIsWeights DEF PicksUp
<1>9. PICK here : here = ground'
  OBVIOUS
<1>10. /\ here \in [Kinds -> Nat]
       /\ Lying(here, Worth) + n * Worth[k] = Lying(ground, Worth) + Weighs(p.left, Worth)
  <2>1. here = [ground EXCEPT ![k] = @ - n + p.left.count]
    BY <1>3, <1>9
  <2>2. PICK rest \in SoundStacks : rest = p.left
    BY <1>8
  <2>3. rest # Empty => rest.kind = k
    BY <1>8, <2>2
  <2>4. here \in [Kinds -> Nat] /\ here[k] = ground[k] - n + rest.count
    <3>1. rest.count \in Nat /\ ground[k] - n \in Nat
      BY <1>4, <1>5 DEF SoundStacks, Stack
    <3> QED BY <1>4, <2>1, <2>2, <3>1
  <2>5. \A j \in Kinds \ {k} : here[j] = ground[j]
    BY <1>4, <2>1
  <2>6. Lying(here, Worth) + n * Worth[k] = Lying(ground, Worth) + Weighs(rest, Worth)
    BY <1>4, <1>5, <2>3, <2>4, <2>5, PickedLies, WorthIsWeights
  <2> QED BY <2>2, <2>4, <2>6
<1>11. Typed(slots', cursor', ground')
  BY <1>3, <1>8, <1>9, <1>10 DEF WindowTyped, Typed
<1>12. PICK l, l1, u, g, g1, x, y \in Nat :
          /\ l = Load(slots, Kept, Worth) /\ l1 = Load(p.slots, Kept, Worth) /\ u = Weighs(cursor, Worth)
          /\ g = Lying(ground, Worth) /\ g1 = Lying(here, Worth)
          /\ x = n * Worth[k] /\ y = Weighs(p.left, Worth)
  <2>1. /\ Load(slots, Kept, Worth) \in Nat /\ Load(p.slots, Kept, Worth) \in Nat
        /\ Weighs(cursor, Worth) \in Nat /\ Lying(ground, Worth) \in Nat /\ Lying(here, Worth) \in Nat
    BY <1>3, <1>9, <1>11, TotalParts DEF WindowTyped
  <2>2. n * Worth[k] \in Nat /\ Weighs(p.left, Worth) \in Nat
    BY <1>5, <1>8, TimesNat, WeighsType, WorthIsWeights DEF Weights
  <2> QED BY <2>1, <2>2
<1>13. l1 + u + g1 = l + u + g
  <2>1. l1 + y = l + x
    BY <1>8, <1>12
  <2>2. g1 + x = g + y
    BY <1>10, <1>12
  <2> QED BY <2>1, <2>2
<1>14. Total(slots', cursor', ground') = Total(slots, cursor, ground)
  BY <1>3, <1>9, <1>12, <1>13 DEF Total
<1> QED BY <1>3, <1>11, <1>14 DEF WindowKeeps, WindowTyped

LEMMA RejoinKeeps ==
    ASSUME WindowTyped, Rejoin
    PROVE  WindowKeeps
<1>1. /\ slots \in [Slots -> SoundStacks] /\ ground \in [Kinds -> Nat]
      /\ ground' = ground /\ cursor' = Empty
      /\ slots' = [s \in Slots |-> IF s \in ArmorSlots \cup MainSlots \cup BarSlots
                                   THEN slots[s] ELSE Empty]
      /\ lapses' = IF cursor = Empty /\ \A s \in GridSlots : slots[s] = Empty
                   THEN lapses ELSE lapses \cup {NotSaved}
  BY DEF WindowTyped, Typed, Rejoin
<1>2. Typed(slots', cursor', ground')
  BY <1>1, EmptyFacts DEF Typed
<1>3. lapses' \subseteq Lapses
  BY <1>1 DEF WindowTyped, Lapses
<1>4. ASSUME lapses' = {}
      PROVE  lapses = {} /\ Total(slots', cursor', ground') = Total(slots, cursor, ground)
  <2>1. lapses = {} /\ cursor = Empty /\ \A s \in GridSlots : slots[s] = Empty
    BY <1>1, <1>4
  <2>2. \A s \in Kept : slots'[s] = slots[s]
    BY <1>1, <2>1, SlotFacts DEF Kept
  <2>3. Load(slots', Kept, Worth) = Load(slots, Kept, Worth)
    BY <2>2, SlotFacts, LoadSame
  <2> QED BY <1>1, <2>1, <2>3 DEF Total
<1> QED BY <1>2, <1>3, <1>4 DEF WindowKeeps

LEMMA WindowNextKeeps ==
    ASSUME WindowTyped, PlayerWindowNext
    PROVE  WindowKeeps
<1>1. CASE TakeResult
  BY <1>1, TakeResultKeeps
<1>2. CASE ShiftClickResult
  BY <1>2, ShiftClickResultKeeps
<1>3. ASSUME NEW slot \in Slots, Click(slot) PROVE WindowKeeps
  BY <1>3, ClickKeeps
<1>4. ASSUME NEW slot \in Slots, ShiftClickOther(slot) PROVE WindowKeeps
  BY <1>4, ShiftClickOtherKeeps
<1>5. CASE ClickOutside
  BY <1>5, ClickOutsideKeeps
<1>6. CASE DropHeldItem
  BY <1>6, DropHeldItemKeeps
<1>7. CASE CloseWindow
  BY <1>7, CloseWindowKeeps
<1>8. CASE Pickup
  BY <1>8, PickupKeeps
<1>9. CASE DropInventory
  BY <1>9, DropInventoryKeeps
<1>10. CASE Rejoin
  BY <1>10, RejoinKeeps
<1> QED BY <1>1, <1>2, <1>3, <1>4, <1>5, <1>6, <1>7, <1>8, <1>9, <1>10 DEF PlayerWindowNext

-----------------------------------------------------------------------------
(* Chests and furnaces.  Every item counts as one. *)

One == [k \in Kinds |-> 1]

LEMMA OneIsWeights == One \in Weights
BY DEF One, Weights

LEMMA WeighsOne ==
    ASSUME NEW stack \in SoundStacks
    PROVE  Weighs(stack, One) = stack.count
<1>1. CASE stack = Empty
  BY <1>1, EmptyFacts
<1>2. CASE stack # Empty
  <2>1. stack.kind \in Kinds /\ stack.count \in Nat
    BY <1>2, StackFacts DEF SoundStacks
  <2>2. One[stack.kind] = 1
    BY <2>1 DEF One
  <2> QED BY <1>2, <2>1, <2>2 DEF Weighs
<1> QED BY <1>1, <1>2

\* The parts of a window's copy, and the orders that visit them.
LEMMA SharedFacts ==
    /\ IsFiniteSet(BoxSlots) /\ IsFiniteSet(BagSlots) /\ IsFiniteSet(SharedSlots)
    /\ BoxSlots \cap BagSlots = {} /\ BoxSlots \cup BagSlots = SharedSlots
    /\ Result \in BoxSlots /\ 1 \in BoxSlots /\ 1 # Result /\ BagBar \subseteq BagSlots
    /\ BagMain \cap BagBar = {} /\ BagMain \cup BagBar = BagSlots
    /\ Visits(MainOrder, BagSlots) /\ Visits(MainOrder, SharedSlots) /\ Visited(MainOrder) = BagMain
    /\ Visits(BarOrder, BagSlots) /\ Visits(BarOrder, SharedSlots) /\ Visited(BarOrder) = BagBar
    /\ Visits(Upwards(1, BoxSize), SharedSlots) /\ Visited(Upwards(1, BoxSize)) = BoxSlots
    /\ Visits(Downwards(BoxSize + 1, BoxSize + BagMainSize + BagBarSize), SharedSlots)
    /\ Visited(Downwards(BoxSize + 1, BoxSize + BagMainSize + BagBarSize)) = BagSlots
<1>1. PICK x, m, b \in Nat \ {0} : x = BoxSize /\ m = BagMainSize /\ b = BagBarSize /\ x # 1
  BY WindowsAssumption
<1>2. /\ BoxSlots = 1 .. x /\ BagMain = x + 1 .. x + m /\ BagBar = x + m + 1 .. x + m + b
      /\ Result = x
  BY <1>1 DEF BoxSlots, BagMain, BagBar, Result
<1>3. BagSlots = x + 1 .. x + m + b
  BY <1>2 DEF BagSlots
<1>4. SharedSlots = 1 .. x + m + b
  BY <1>2, <1>3 DEF SharedSlots
<1>5. /\ IsFiniteSet(BoxSlots) /\ IsFiniteSet(BagSlots) /\ IsFiniteSet(SharedSlots)
  BY <1>2, <1>3, <1>4, FS_Interval
<1>6. BoxSlots \cap BagSlots = {} /\ BoxSlots \cup BagSlots = SharedSlots
  BY <1>2, <1>3, <1>4
<1>7. Result \in BoxSlots /\ 1 \in BoxSlots /\ 1 # Result /\ BagBar \subseteq BagSlots
  BY <1>1, <1>2, <1>3
<1>8. BagMain \cap BagBar = {} /\ BagMain \cup BagBar = BagSlots
  BY <1>2, <1>3
<1>9. Visits(MainOrder, BagSlots) /\ Visits(MainOrder, SharedSlots) /\ Visited(MainOrder) = BagMain
  <2>1. MainOrder = Upwards(x + 1, x + m)
    BY <1>1 DEF MainOrder
  <2>2. x + 1 .. x + m \subseteq BagSlots /\ x + 1 .. x + m \subseteq SharedSlots
    BY <1>3, <1>4
  <2> QED BY <1>2, <2>1, <2>2, UpwardsVisits
<1>10. Visits(BarOrder, BagSlots) /\ Visits(BarOrder, SharedSlots) /\ Visited(BarOrder) = BagBar
  <2>1. BarOrder = Upwards(x + m + 1, x + m + b)
    BY <1>1 DEF BarOrder
  <2>2. x + m + 1 .. x + m + b \subseteq BagSlots /\ x + m + 1 .. x + m + b \subseteq SharedSlots
    BY <1>3, <1>4
  <2> QED BY <1>2, <2>1, <2>2, UpwardsVisits
<1>11. Visits(Upwards(1, BoxSize), SharedSlots) /\ Visited(Upwards(1, BoxSize)) = BoxSlots
  <2>1. 1 .. x \subseteq SharedSlots
    BY <1>4
  <2> QED BY <1>1, <1>2, <2>1, UpwardsVisits
<1>12. /\ Visits(Downwards(BoxSize + 1, BoxSize + BagMainSize + BagBarSize), SharedSlots)
       /\ Visited(Downwards(BoxSize + 1, BoxSize + BagMainSize + BagBarSize)) = BagSlots
  <2>1. x + 1 .. x + m + b \subseteq SharedSlots
    BY <1>4
  <2>2. /\ Visits(Downwards(x + 1, x + m + b), SharedSlots)
        /\ Visited(Downwards(x + 1, x + m + b)) = BagSlots
    BY <1>3, <2>1, DownwardsVisits
  <2> QED BY <1>1, <2>2
<1> QED BY <1>5, <1>6, <1>7, <1>8, <1>9, <1>10, <1>11, <1>12

SoundBox == [BoxSlots -> SoundStacks]
SoundBag == [BagSlots -> SoundStacks]
SoundShared == [SharedSlots -> SoundStacks]
SoundWindow == [box : Boxes, shared : SoundShared, cursor : SoundStacks]

BoxesTyped(bx, bg, wn, li) ==
    /\ bx \in [Boxes -> SoundBox]
    /\ bg \in [Players -> SoundBag]
    /\ wn \in [Players -> SoundWindow \cup {NoWindow}]
    /\ li \in [Kinds -> Nat]

\* How much is in a box, in a player's slots, on a window's cursor.
BoxLoad(box) == Load(box, BoxSlots, One)
BagLoad(bag) == Load(bag, BagSlots, One)
Held(w) == IF w = NoWindow THEN 0 ELSE Weighs(w.cursor, One)

InBoxes(bx) == SumFunctionOnSet([b \in Boxes |-> BoxLoad(bx[b])], Boxes)
InHands(bg, wn) == SumFunctionOnSet([p \in Players |-> BagLoad(bg[p]) + Held(wn[p])], Players)
Items(bx, bg, wn, li) == InBoxes(bx) + InHands(bg, wn) + Lying(li, One)

LEMMA PartTypes ==
    /\ \A box \in SoundBox : BoxLoad(box) \in Nat
    /\ \A bag \in SoundBag : BagLoad(bag) \in Nat
    /\ \A w \in SoundWindow \cup {NoWindow} : Held(w) \in Nat
<1>1. ASSUME NEW box \in SoundBox PROVE BoxLoad(box) \in Nat
  BY SharedFacts, LoadType, OneIsWeights DEF BoxLoad, SoundBox
<1>2. ASSUME NEW bag \in SoundBag PROVE BagLoad(bag) \in Nat
  BY SharedFacts, LoadType, OneIsWeights DEF BagLoad, SoundBag
<1>3. ASSUME NEW w \in SoundWindow \cup {NoWindow} PROVE Held(w) \in Nat
  <2>1. CASE w = NoWindow
    BY <2>1 DEF Held
  <2>2. CASE w # NoWindow
    <3>1. w.cursor \in SoundStacks
      BY <2>2 DEF SoundWindow
    <3> QED BY <2>2, <3>1, WeighsType, OneIsWeights DEF Held
  <2> QED BY <2>1, <2>2
<1> QED BY <1>1, <1>2, <1>3

LEMMA InBoxesType ==
    ASSUME NEW bx \in [Boxes -> SoundBox]
    PROVE  InBoxes(bx) \in Nat
<1> DEFINE f == [b \in Boxes |-> BoxLoad(bx[b])]
<1>1. \A b \in Boxes : f[b] \in Nat
  BY PartTypes
<1> HIDE DEF f
<1>2. SumFunctionOnSet(f, Boxes) \in Nat
  BY <1>1, SumType, WindowsAssumption
<1> QED BY <1>2 DEF f, InBoxes

LEMMA InHandsType ==
    ASSUME NEW bg \in [Players -> SoundBag], NEW wn \in [Players -> SoundWindow \cup {NoWindow}]
    PROVE  InHands(bg, wn) \in Nat
<1> DEFINE f == [p \in Players |-> BagLoad(bg[p]) + Held(wn[p])]
<1>1. \A p \in Players : f[p] \in Nat
  BY PartTypes
<1> HIDE DEF f
<1>2. SumFunctionOnSet(f, Players) \in Nat
  BY <1>1, SumType, WindowsAssumption
<1> QED BY <1>2 DEF f, InHands

\* One box changes.
LEMMA BoxChange ==
    ASSUME NEW bx \in [Boxes -> SoundBox], NEW more \in [Boxes -> SoundBox], NEW b \in Boxes,
           \A c \in Boxes \ {b} : more[c] = bx[c]
    PROVE  InBoxes(bx) + BoxLoad(more[b]) = InBoxes(more) + BoxLoad(bx[b])
<1> DEFINE f == [c \in Boxes |-> BoxLoad(bx[c])]
           g == [c \in Boxes |-> BoxLoad(more[c])]
<1>1. \A c \in Boxes : f[c] \in Nat /\ g[c] \in Nat
  BY PartTypes
<1>2. \A c \in Boxes \ {b} : f[c] = g[c]
  OBVIOUS
<1>3. f[b] = BoxLoad(bx[b]) /\ g[b] = BoxLoad(more[b])
  OBVIOUS
<1> HIDE DEF f, g
<1>4. SumFunctionOnSet(f, Boxes) + g[b] = SumFunctionOnSet(g, Boxes) + f[b]
  BY <1>1, <1>2, SumChange, WindowsAssumption
<1> QED BY <1>3, <1>4 DEF f, g, InBoxes

\* What one player has changes.
LEMMA HandChange ==
    ASSUME NEW bg \in [Players -> SoundBag], NEW wn \in [Players -> SoundWindow \cup {NoWindow}],
           NEW more \in [Players -> SoundBag], NEW wn2 \in [Players -> SoundWindow \cup {NoWindow}],
           NEW p \in Players, \A q \in Players \ {p} : more[q] = bg[q] /\ wn2[q] = wn[q]
    PROVE  InHands(bg, wn) + (BagLoad(more[p]) + Held(wn2[p]))
              = InHands(more, wn2) + (BagLoad(bg[p]) + Held(wn[p]))
<1> DEFINE f == [q \in Players |-> BagLoad(bg[q]) + Held(wn[q])]
           g == [q \in Players |-> BagLoad(more[q]) + Held(wn2[q])]
<1>1. \A q \in Players : f[q] \in Nat /\ g[q] \in Nat
  BY PartTypes
<1>2. \A q \in Players \ {p} : f[q] = g[q]
  OBVIOUS
<1>3. f[p] = BagLoad(bg[p]) + Held(wn[p]) /\ g[p] = BagLoad(more[p]) + Held(wn2[p])
  OBVIOUS
<1> HIDE DEF f, g
<1>4. SumFunctionOnSet(f, Players) + g[p] = SumFunctionOnSet(g, Players) + f[p]
  BY <1>1, <1>2, SumChange, WindowsAssumption
<1> QED BY <1>3, <1>4 DEF f, g, InHands

\* A step that moves items within one box, one player's hands and the ground.
LEMMA HandBalance ==
    ASSUME NEW bx, NEW bg, NEW wn, NEW li, BoxesTyped(bx, bg, wn, li),
           NEW bg2, NEW wn2, NEW li2, BoxesTyped(bx, bg2, wn2, li2),
           NEW p \in Players, \A q \in Players \ {p} : bg2[q] = bg[q] /\ wn2[q] = wn[q],
           BagLoad(bg2[p]) + Held(wn2[p]) + Lying(li2, One) = BagLoad(bg[p]) + Held(wn[p]) + Lying(li, One)
    PROVE  Items(bx, bg2, wn2, li2) = Items(bx, bg, wn, li)
<1>1. InHands(bg, wn) + (BagLoad(bg2[p]) + Held(wn2[p])) = InHands(bg2, wn2) + (BagLoad(bg[p]) + Held(wn[p]))
  BY HandChange DEF BoxesTyped
<1>2. PICK a, b, c, d, e, f, g, h, i \in Nat :
         /\ a = InHands(bg, wn) /\ b = InHands(bg2, wn2) /\ c = BagLoad(bg[p]) /\ d = BagLoad(bg2[p])
         /\ e = Held(wn[p]) /\ f = Held(wn2[p]) /\ g = Lying(li, One) /\ h = Lying(li2, One)
         /\ i = InBoxes(bx)
  <2>1. InHands(bg, wn) \in Nat /\ InHands(bg2, wn2) \in Nat /\ InBoxes(bx) \in Nat
    BY InHandsType, InBoxesType DEF BoxesTyped
  <2>2. BagLoad(bg[p]) \in Nat /\ BagLoad(bg2[p]) \in Nat /\ Held(wn[p]) \in Nat /\ Held(wn2[p]) \in Nat
    BY PartTypes DEF BoxesTyped
  <2>3. Lying(li, One) \in Nat /\ Lying(li2, One) \in Nat
    BY LyingType, OneIsWeights DEF BoxesTyped
  <2> QED BY <2>1, <2>2, <2>3
<1>3. a + (d + f) = b + (c + e)
  BY <1>1, <1>2
<1>4. d + f + h = c + e + g
  BY <1>2
<1>5. i + b + h = i + a + g
  BY <1>3, <1>4
<1> QED BY <1>2, <1>5 DEF Items

\* A step that moves items between one box and the ground.
LEMMA BoxBalance ==
    ASSUME NEW bx, NEW bg, NEW wn, NEW li, BoxesTyped(bx, bg, wn, li),
           NEW bx2, NEW li2, BoxesTyped(bx2, bg, wn, li2),
           NEW b \in Boxes, \A c \in Boxes \ {b} : bx2[c] = bx[c],
           BoxLoad(bx2[b]) + Lying(li2, One) = BoxLoad(bx[b]) + Lying(li, One)
    PROVE  Items(bx2, bg, wn, li2) = Items(bx, bg, wn, li)
<1>1. InBoxes(bx) + BoxLoad(bx2[b]) = InBoxes(bx2) + BoxLoad(bx[b])
  BY BoxChange DEF BoxesTyped
<1>2. PICK a, c, d, e, g, h, i \in Nat :
         /\ a = InBoxes(bx) /\ c = InBoxes(bx2) /\ d = BoxLoad(bx[b]) /\ e = BoxLoad(bx2[b])
         /\ g = Lying(li, One) /\ h = Lying(li2, One) /\ i = InHands(bg, wn)
  <2>1. InBoxes(bx) \in Nat /\ InBoxes(bx2) \in Nat /\ InHands(bg, wn) \in Nat
    BY InHandsType, InBoxesType DEF BoxesTyped
  <2>2. BoxLoad(bx[b]) \in Nat /\ BoxLoad(bx2[b]) \in Nat
    BY PartTypes DEF BoxesTyped
  <2>3. Lying(li, One) \in Nat /\ Lying(li2, One) \in Nat
    BY LyingType, OneIsWeights DEF BoxesTyped
  <2> QED BY <2>1, <2>2, <2>3
<1>3. a + e = c + d
  BY <1>1, <1>2
<1>4. e + h = d + g
  BY <1>2
<1>5. c + i + h = a + i + g
  BY <1>3, <1>4
<1> QED BY <1>2, <1>5 DEF Items

\* A step that moves items between one box and one player's hands.
LEMMA WindowBalance ==
    ASSUME NEW bx, NEW bg, NEW wn, NEW li, BoxesTyped(bx, bg, wn, li),
           NEW bx2, NEW bg2, NEW wn2, BoxesTyped(bx2, bg2, wn2, li),
           NEW b \in Boxes, \A c \in Boxes \ {b} : bx2[c] = bx[c],
           NEW p \in Players, \A q \in Players \ {p} : bg2[q] = bg[q] /\ wn2[q] = wn[q],
           BoxLoad(bx2[b]) + BagLoad(bg2[p]) + Held(wn2[p]) = BoxLoad(bx[b]) + BagLoad(bg[p]) + Held(wn[p])
    PROVE  Items(bx2, bg2, wn2, li) = Items(bx, bg, wn, li)
<1>1. InBoxes(bx) + BoxLoad(bx2[b]) = InBoxes(bx2) + BoxLoad(bx[b])
  BY BoxChange DEF BoxesTyped
<1>2. InHands(bg, wn) + (BagLoad(bg2[p]) + Held(wn2[p])) = InHands(bg2, wn2) + (BagLoad(bg[p]) + Held(wn[p]))
  BY HandChange DEF BoxesTyped
<1>3. PICK a, c, d, e \in Nat : /\ a = InBoxes(bx) /\ c = InBoxes(bx2)
                                /\ d = BoxLoad(bx[b]) /\ e = BoxLoad(bx2[b])
  BY InBoxesType, PartTypes DEF BoxesTyped
<1>4. PICK f, g, h, i, j, k \in Nat :
         /\ f = InHands(bg, wn) /\ g = InHands(bg2, wn2)
         /\ h = BagLoad(bg[p]) /\ i = BagLoad(bg2[p]) /\ j = Held(wn[p]) /\ k = Held(wn2[p])
  <2>1. InHands(bg, wn) \in Nat /\ InHands(bg2, wn2) \in Nat
    BY InHandsType DEF BoxesTyped
  <2>2. BagLoad(bg[p]) \in Nat /\ BagLoad(bg2[p]) \in Nat /\ Held(wn[p]) \in Nat /\ Held(wn2[p]) \in Nat
    BY PartTypes DEF BoxesTyped
  <2> QED BY <2>1, <2>2
<1>5. a + e = c + d
  BY <1>1, <1>3
<1>6. f + (i + k) = g + (h + j)
  BY <1>2, <1>4
<1>7. e + i + k = d + h + j
  BY <1>3, <1>4
<1>8. c + g = a + f
  BY <1>5, <1>6, <1>7
<1> QED BY <1>3, <1>4, <1>8 DEF Items

\* The parts of a copy weigh what the copy weighs.
LEMMA SharedLoad ==
    ASSUME NEW shared \in SoundShared
    PROVE  /\ BoxPart(shared) \in SoundBox /\ BagPart(shared) \in SoundBag
           /\ Load(shared, SharedSlots, One) = BoxLoad(BoxPart(shared)) + BagLoad(BagPart(shared))
<1>1. PICK box, bag : box = BoxPart(shared) /\ bag = BagPart(shared)
  OBVIOUS
<1>2. /\ box \in SoundBox /\ bag \in SoundBag
      /\ \A s \in BoxSlots : box[s] = shared[s]
      /\ \A s \in BagSlots : bag[s] = shared[s]
  BY <1>1, SharedFacts DEF BoxPart, BagPart, SoundShared, SoundBox, SoundBag
<1>3. BoxLoad(box) = Load(shared, BoxSlots, One) /\ BagLoad(bag) = Load(shared, BagSlots, One)
  BY <1>2, SharedFacts, LoadSame DEF BoxLoad, BagLoad
<1>4. Load(shared, BoxSlots \cup BagSlots, One)
         = Load(shared, BoxSlots, One) + Load(shared, BagSlots, One)
  BY SharedFacts, LoadUnion, OneIsWeights DEF SoundShared
<1> QED BY <1>1, <1>2, <1>3, <1>4, SharedFacts

\* A copy has the box and the bag in it.
LEMMA MergedFacts ==
    ASSUME NEW box \in SoundBox, NEW bag \in SoundBag
    PROVE  /\ Merged(box, bag) \in SoundShared
           /\ BoxPart(Merged(box, bag)) = box /\ BagPart(Merged(box, bag)) = bag
           /\ \A s \in BoxSlots : Merged(box, bag)[s] = box[s]
           /\ \A s \in BagSlots : Merged(box, bag)[s] = bag[s]
<1>1. PICK all : all = Merged(box, bag)
  OBVIOUS
<1>2. all = [s \in SharedSlots |-> IF s \in BoxSlots THEN box[s] ELSE bag[s]]
  BY <1>1 DEF Merged
<1>3. /\ \A s \in BoxSlots : all[s] = box[s]
      /\ \A s \in BagSlots : all[s] = bag[s]
  BY <1>2, SharedFacts
<1>4. all \in SoundShared
  BY <1>2, SharedFacts DEF SoundShared, SoundBox, SoundBag
<1>5. BoxPart(all) = box
  BY <1>3 DEF BoxPart, SoundBox
<1>6. BagPart(all) = bag
  BY <1>3 DEF BagPart, SoundBag
<1> QED BY <1>1, <1>3, <1>4, <1>5, <1>6

Slips == {StaleCopy, DeadBox, CursorLost}

Schedule ==
    /\ alive \subseteq Boxes
    /\ near \subseteq Players
    /\ phase \in {"packets", "tracker", "world"}
    /\ toTrack \subseteq Players
    /\ slips \subseteq Slips

BoxesSound == BoxesTyped(boxes, bags, windows, litter)

\* What a step may do with the items.
BoxesKeep ==
    /\ BoxesTyped(boxes', bags', windows', litter')
    /\ slips' = {} => /\ slips = {}
                      /\ Items(boxes', bags', windows', litter') = Items(boxes, bags, windows, litter)

LEMMA WindowFacts ==
    ASSUME BoxesSound, NEW p \in Players, NEW w, w = windows[p], w # NoWindow
    PROVE  /\ w \in SoundWindow /\ w.box \in Boxes /\ w.shared \in SoundShared
           /\ w.cursor \in SoundStacks /\ Held(w) = Weighs(w.cursor, One)
           /\ boxes[w.box] \in SoundBox /\ bags[p] \in SoundBag
<1>1. w \in SoundWindow
  BY DEF BoxesSound, BoxesTyped
<1>2. w.box \in Boxes /\ w.shared \in SoundShared /\ w.cursor \in SoundStacks
  BY <1>1 DEF SoundWindow
<1> QED BY <1>1, <1>2 DEF BoxesSound, BoxesTyped, Held

\* A window that writes back what it found, or something as heavy.
LEMMA WriteBackFacts ==
    ASSUME BoxesSound, NEW p \in Players, NEW w, w = windows[p], w # NoWindow,
           NEW shared \in SoundShared, WriteBack(p, w, shared)
    PROVE  /\ boxes' \in [Boxes -> SoundBox] /\ bags' \in [Players -> SoundBag]
           /\ \A c \in Boxes \ {w.box} : boxes'[c] = boxes[c]
           /\ \A q \in Players \ {p} : bags'[q] = bags[q]
           /\ slips' = {} =>
                 /\ slips = {} /\ w.box \in alive
                 /\ boxes'[w.box] = BoxPart(shared) /\ bags'[p] = BagPart(shared)
                 /\ w.shared = Merged(boxes[w.box], bags[p])
<1>1. /\ boxes' = IF w.box \in alive THEN [boxes EXCEPT ![w.box] = BoxPart(shared)] ELSE boxes
      /\ bags' = [bags EXCEPT ![p] = BagPart(shared)]
      /\ slips' = slips \cup SlipsOfWrite(p, w)
  BY DEF WriteBack
<1>2. boxes \in [Boxes -> SoundBox] /\ bags \in [Players -> SoundBag] /\ w.box \in Boxes
  BY WindowFacts DEF BoxesSound, BoxesTyped
<1>3. BoxPart(shared) \in SoundBox /\ BagPart(shared) \in SoundBag
  BY SharedLoad
<1>4. /\ bags' \in [Players -> SoundBag] /\ bags'[p] = BagPart(shared)
      /\ \A q \in Players \ {p} : bags'[q] = bags[q]
  BY <1>1, <1>2, <1>3
<1>5. /\ boxes' \in [Boxes -> SoundBox]
      /\ \A c \in Boxes \ {w.box} : boxes'[c] = boxes[c]
      /\ w.box \in alive => boxes'[w.box] = BoxPart(shared)
  BY <1>1, <1>2, <1>3
<1>6. ASSUME slips' = {}
      PROVE  slips = {} /\ w.box \in alive /\ w.shared = Merged(boxes[w.box], bags[p])
  <2>1. slips = {} /\ SlipsOfWrite(p, w) = {}
    BY <1>1, <1>6
  <2>2. w.box \in alive /\ ~IsStale(p, w)
    <3>1. CASE w.box \notin alive
      BY <2>1, <3>1 DEF SlipsOfWrite
    <3>2. CASE w.box \in alive /\ IsStale(p, w)
      BY <2>1, <3>2 DEF SlipsOfWrite
    <3> QED BY <3>1, <3>2
  <2> QED BY <2>1, <2>2 DEF IsStale
<1> QED BY <1>4, <1>5, <1>6

\* What the destructor writes is what it found.
LEMMA DestroyFacts ==
    ASSUME BoxesSound, NEW p \in Players, NEW w, w = windows[p], w # NoWindow, Destroy(p, w)
    PROVE  /\ boxes' \in [Boxes -> SoundBox] /\ bags' \in [Players -> SoundBag]
           /\ slips' = {} => slips = {} /\ boxes' = boxes /\ bags' = bags
<1>1. CASE w.box \in alive
  <2>1. WriteBack(p, w, w.shared)
    BY <1>1 DEF Destroy
  <2>2. w.shared \in SoundShared /\ w.box \in Boxes /\ boxes[w.box] \in SoundBox /\ bags[p] \in SoundBag
    BY WindowFacts
  <2>3. /\ boxes' \in [Boxes -> SoundBox] /\ bags' \in [Players -> SoundBag]
        /\ \A c \in Boxes \ {w.box} : boxes'[c] = boxes[c]
        /\ \A q \in Players \ {p} : bags'[q] = bags[q]
        /\ slips' = {} =>
              /\ slips = {} /\ w.box \in alive
              /\ boxes'[w.box] = BoxPart(w.shared) /\ bags'[p] = BagPart(w.shared)
              /\ w.shared = Merged(boxes[w.box], bags[p])
    BY <2>1, <2>2, WriteBackFacts
  <2>4. ASSUME slips' = {} PROVE slips = {} /\ boxes' = boxes /\ bags' = bags
    <3>1. boxes'[w.box] = boxes[w.box] /\ bags'[p] = bags[p]
      BY <2>2, <2>3, <2>4, MergedFacts
    <3>2. boxes \in [Boxes -> SoundBox] /\ bags \in [Players -> SoundBag]
      BY DEF BoxesSound, BoxesTyped
    <3>3. \A c \in Boxes : boxes'[c] = boxes[c]
      BY <2>3, <3>1
    <3>4. \A q \in Players : bags'[q] = bags[q]
      BY <2>3, <3>1
    <3>5. boxes' = boxes
      BY <2>3, <3>2, <3>3
    <3>6. bags' = bags
      BY <2>3, <3>2, <3>4
    <3> QED BY <2>3, <2>4, <3>5, <3>6
  <2> QED BY <2>3, <2>4
<1>2. CASE w.box \notin alive
  <2>1. boxes' = boxes /\ bags' = bags /\ slips' = slips
    BY <1>2 DEF Destroy
  <2> QED BY <2>1 DEF BoxesSound, BoxesTyped
<1> QED BY <1>1, <1>2

LEMMA OpenKeeps ==
    ASSUME BoxesSound, NEW p \in Players, NEW b \in Boxes, Open(p, b)
    PROVE  BoxesKeep
<1>1. PICK old : old = windows[p]
  OBVIOUS
<1>2. windows' = [windows EXCEPT ![p] = Opened(b, Merged(boxes'[b], bags'[p]))] /\ litter' = litter
  BY DEF Open
<1>3. /\ boxes' \in [Boxes -> SoundBox] /\ bags' \in [Players -> SoundBag]
      /\ slips' = {} => /\ slips = {} /\ boxes' = boxes /\ bags' = bags
                        /\ old = NoWindow \/ old.cursor = Empty
  <2>1. CASE old # NoWindow /\ old.box \in alive
    <3>1. /\ boxes' = [boxes EXCEPT ![old.box] = BoxPart(old.shared)]
          /\ bags' = [bags EXCEPT ![p] = BagPart(old.shared)]
          /\ slips' = slips \cup SlipsOfWrite(p, old)
                            \cup (IF old.cursor = Empty THEN {} ELSE {CursorLost})
      BY <1>1, <2>1 DEF Open
    <3>2. old.shared \in SoundShared /\ old.box \in Boxes /\ boxes[old.box] \in SoundBox /\ bags[p] \in SoundBag
      BY <1>1, <2>1, WindowFacts
    <3>3. BoxPart(old.shared) \in SoundBox /\ BagPart(old.shared) \in SoundBag
      BY <3>2, SharedLoad
    <3>4. boxes \in [Boxes -> SoundBox] /\ bags \in [Players -> SoundBag]
      BY DEF BoxesSound, BoxesTyped
    <3>5. boxes' \in [Boxes -> SoundBox] /\ bags' \in [Players -> SoundBag]
      BY <3>1, <3>3, <3>4
    <3>6. ASSUME slips' = {}
          PROVE  slips = {} /\ boxes' = boxes /\ bags' = bags /\ old.cursor = Empty
      <4>1. slips = {} /\ SlipsOfWrite(p, old) = {} /\ old.cursor = Empty
        BY <3>1, <3>6
      <4>2. ~IsStale(p, old)
        BY <2>1, <4>1 DEF SlipsOfWrite
      <4>3. old.shared = Merged(boxes[old.box], bags[p])
        BY <4>2 DEF IsStale
      <4>4. BoxPart(old.shared) = boxes[old.box] /\ BagPart(old.shared) = bags[p]
        BY <3>2, <4>3, MergedFacts
      <4>5. boxes' = boxes
        BY <3>1, <3>4, <4>4
      <4>6. bags' = bags
        BY <3>1, <3>4, <4>4
      <4> QED BY <4>1, <4>5, <4>6
    <3> QED BY <3>5, <3>6
  <2>2. CASE old # NoWindow /\ old.box \notin alive
    <3>1. /\ slips' = IF old.cursor = Empty THEN slips ELSE slips \cup {CursorLost}
          /\ boxes' = boxes /\ bags' = bags
      BY <1>1, <2>2 DEF Open
    <3> QED BY <3>1 DEF BoxesSound, BoxesTyped
  <2>3. CASE old = NoWindow
    <3>1. slips' = slips /\ boxes' = boxes /\ bags' = bags
      BY <1>1, <2>3 DEF Open
    <3> QED BY <2>3, <3>1 DEF BoxesSound, BoxesTyped
  <2> QED BY <2>1, <2>2, <2>3
<1>4. PICK all \in SoundShared : all = Merged(boxes'[b], bags'[p])
  BY <1>3, MergedFacts
<1>5. Opened(b, all) \in SoundWindow /\ Held(Opened(b, all)) = 0
  <2>1. Opened(b, all) \in SoundWindow /\ Opened(b, all).cursor = Empty
    BY EmptyFacts DEF Opened, SoundWindow
  <2> QED BY <2>1, EmptyFacts DEF Held
<1>6. windows' = [windows EXCEPT ![p] = Opened(b, all)]
  BY <1>2, <1>4
<1>7. windows \in [Players -> SoundWindow \cup {NoWindow}] /\ litter \in [Kinds -> Nat]
  BY DEF BoxesSound, BoxesTyped
<1>8. /\ windows' \in [Players -> SoundWindow \cup {NoWindow}] /\ windows'[p] = Opened(b, all)
      /\ \A q \in Players \ {p} : windows'[q] = windows[q]
  BY <1>5, <1>6, <1>7
<1>9. BoxesTyped(boxes', bags', windows', litter')
  BY <1>2, <1>3, <1>7, <1>8 DEF BoxesTyped
<1>10. ASSUME slips' = {}
       PROVE  slips = {} /\ Items(boxes', bags', windows', litter') = Items(boxes, bags, windows, litter)
  <2>1. /\ slips = {} /\ boxes' = boxes /\ bags' = bags
        /\ old = NoWindow \/ old.cursor = Empty
    BY <1>3, <1>10
  <2>2. Held(old) = 0
    BY <2>1, EmptyFacts DEF Held
  <2>3. BoxesTyped(boxes, bags, windows', litter)
    BY <1>2, <1>9, <2>1
  <2>4. BagLoad(bags[p]) + Held(windows'[p]) + Lying(litter, One)
           = BagLoad(bags[p]) + Held(windows[p]) + Lying(litter, One)
    BY <1>1, <1>5, <1>8, <2>2
  <2>5. Items(boxes, bags, windows', litter) = Items(boxes, bags, windows, litter)
    BY <1>8, <2>3, <2>4, HandBalance DEF BoxesSound
  <2> QED BY <1>2, <2>1, <2>5
<1> QED BY <1>9, <1>10 DEF BoxesKeep

-----------------------------------------------------------------------------

\* A window is not the null pointer.
LEMMA SoundWindowIsWindow == \A w \in SoundWindow : w # NoWindow
<1> SUFFICES ASSUME NEW w \in SoundWindow PROVE w # NoWindow
  OBVIOUS
<1>1. SoundShared \subseteq [SharedSlots -> Stack] /\ SoundStacks \subseteq Stack
  BY DEF SoundShared, SoundStacks
<1>2. w \in Window
  BY <1>1 DEF SoundWindow, Window
<1> QED BY <1>2, NoWindowAssumption

\* The parts of a window that a click changes.
Clicked(w, shared, cur) == [w EXCEPT !.shared = shared, !.cursor = cur]

LEMMA ClickedFacts ==
    ASSUME NEW w \in SoundWindow, NEW shared \in SoundShared, NEW cur \in SoundStacks
    PROVE  /\ Clicked(w, shared, cur) \in SoundWindow
           /\ Held(Clicked(w, shared, cur)) = Weighs(cur, One)
<1>1. PICK v : v = Clicked(w, shared, cur)
  OBVIOUS
<1>2. v \in SoundWindow /\ v.cursor = cur
  BY <1>1 DEF Clicked, SoundWindow
<1>3. v # NoWindow
  BY <1>2, SoundWindowIsWindow
<1> QED BY <1>1, <1>2, <1>3 DEF Held

\* A window's cursor, its box and the player's slots.
LEMMA ClickedKeeps ==
    ASSUME BoxesSound, NEW p \in Players, NEW w, w = windows[p], w # NoWindow,
           NEW shared \in SoundShared, NEW cur \in SoundStacks,
           boxes' \in [Boxes -> SoundBox], bags' \in [Players -> SoundBag],
           windows' = [windows EXCEPT ![p] = Clicked(w, shared, cur)], litter' = litter,
           slips' = {} =>
              /\ slips = {}
              /\ \A c \in Boxes \ {w.box} : boxes'[c] = boxes[c]
              /\ \A q \in Players \ {p} : bags'[q] = bags[q]
              /\ BoxLoad(boxes'[w.box]) + BagLoad(bags'[p]) + Weighs(cur, One)
                   = BoxLoad(boxes[w.box]) + BagLoad(bags[p]) + Weighs(w.cursor, One)
    PROVE  BoxesKeep
<1>1. w \in SoundWindow /\ w.box \in Boxes /\ Held(w) = Weighs(w.cursor, One)
  BY WindowFacts
<1>2. Clicked(w, shared, cur) \in SoundWindow /\ Held(Clicked(w, shared, cur)) = Weighs(cur, One)
  BY <1>1, ClickedFacts
<1>3. windows \in [Players -> SoundWindow \cup {NoWindow}] /\ litter \in [Kinds -> Nat]
  BY DEF BoxesSound, BoxesTyped
<1>4. /\ windows' \in [Players -> SoundWindow \cup {NoWindow}]
      /\ windows'[p] = Clicked(w, shared, cur)
      /\ \A q \in Players \ {p} : windows'[q] = windows[q]
  BY <1>2, <1>3
<1>5. BoxesTyped(boxes', bags', windows', litter')
  BY <1>3, <1>4 DEF BoxesTyped
<1>6. ASSUME slips' = {}
      PROVE  slips = {} /\ Items(boxes', bags', windows', litter') = Items(boxes, bags, windows, litter)
  <2>1. BoxLoad(boxes'[w.box]) + BagLoad(bags'[p]) + Held(windows'[p])
           = BoxLoad(boxes[w.box]) + BagLoad(bags[p]) + Held(windows[p])
    BY <1>1, <1>2, <1>4, <1>6
  <2>2. BoxesTyped(boxes', bags', windows', litter)
    BY <1>5
  <2>3. Items(boxes', bags', windows', litter) = Items(boxes, bags, windows, litter)
    <3>1. PICK bx, bg, wn : bx = boxes' /\ bg = bags' /\ wn = windows'
      OBVIOUS
    <3>2. BoxesTyped(boxes, bags, windows, litter) /\ BoxesTyped(bx, bg, wn, litter)
      BY <2>2, <3>1 DEF BoxesSound
    <3>3. \A c \in Boxes \ {w.box} : bx[c] = boxes[c]
      BY <1>6, <3>1
    <3>4. \A q \in Players \ {p} : bg[q] = bags[q] /\ wn[q] = windows[q]
      BY <1>4, <1>6, <3>1
    <3>5. BoxLoad(bx[w.box]) + BagLoad(bg[p]) + Held(wn[p])
             = BoxLoad(boxes[w.box]) + BagLoad(bags[p]) + Held(windows[p])
      BY <2>1, <3>1
    <3>6. Items(bx, bg, wn, litter) = Items(boxes, bags, windows, litter)
      BY <1>1, <3>2, <3>3, <3>4, <3>5, WindowBalance
    <3> QED BY <3>1, <3>6
  <2> QED BY <1>6, <2>3
<1> QED BY <1>5, <1>6 DEF BoxesKeep

\* What the copy holds when it is the box and the player's slots.
LEMMA CopyLoad ==
    ASSUME NEW box \in SoundBox, NEW bag \in SoundBag
    PROVE  Load(Merged(box, bag), SharedSlots, One) = BoxLoad(box) + BagLoad(bag)
BY MergedFacts, SharedLoad

LEMMA ClickSharedKeeps ==
    ASSUME BoxesSound, NEW p \in Players, NEW slot \in SharedSlots, ClickShared(p, slot)
    PROVE  BoxesKeep
<1>1. PICK w : w = windows[p] /\ w # NoWindow
  BY DEF ClickShared
<1>2. PICK after \in {OnLeftClick(w.shared, w.cursor, slot), OnRightClick(w.shared, w.cursor, slot)} :
         /\ WriteBack(p, w, after.slots)
         /\ windows' = [windows EXCEPT ![p].shared = after.slots, ![p].cursor = after.cursor]
  BY <1>1 DEF ClickShared
<1>3. litter' = litter
  BY DEF ClickShared
<1>4. /\ w \in SoundWindow /\ w.box \in Boxes /\ w.shared \in SoundShared /\ w.cursor \in SoundStacks
      /\ boxes[w.box] \in SoundBox /\ bags[p] \in SoundBag
  BY <1>1, WindowFacts
<1>5. Exchanges(w.shared, w.cursor, slot, SharedSlots, One, after)
  <2>1. w.shared \in [SharedSlots -> SoundStacks]
    BY <1>4 DEF SoundShared
  <2> QED BY <1>2, <1>4, <2>1, LeftClickFacts, RightClickFacts, OneIsWeights
<1>6. after.slots \in SoundShared /\ after.cursor \in SoundStacks
  BY <1>5 DEF Exchanges, SoundShared
<1>7. Load(after.slots, SharedSlots, One) + Weighs(after.cursor, One)
         = Load(w.shared, SharedSlots, One) + Weighs(w.cursor, One)
  <2>1. w.shared \in [SharedSlots -> SoundStacks]
    BY <1>4 DEF SoundShared
  <2> QED BY <1>4, <1>5, <2>1, SharedFacts, ExchangesLoad, OneIsWeights
<1>8. windows' = [windows EXCEPT ![p] = Clicked(w, after.slots, after.cursor)]
  <2>1. windows \in [Players -> SoundWindow \cup {NoWindow}]
    BY DEF BoxesSound, BoxesTyped
  <2> QED BY <1>1, <1>2, <2>1 DEF Clicked
<1>9. /\ boxes' \in [Boxes -> SoundBox] /\ bags' \in [Players -> SoundBag]
      /\ \A c \in Boxes \ {w.box} : boxes'[c] = boxes[c]
      /\ \A q \in Players \ {p} : bags'[q] = bags[q]
      /\ slips' = {} =>
            /\ slips = {} /\ w.box \in alive
            /\ boxes'[w.box] = BoxPart(after.slots) /\ bags'[p] = BagPart(after.slots)
            /\ w.shared = Merged(boxes[w.box], bags[p])
  BY <1>1, <1>2, <1>6, WriteBackFacts
<1>10. ASSUME slips' = {}
       PROVE  BoxLoad(boxes'[w.box]) + BagLoad(bags'[p]) + Weighs(after.cursor, One)
                 = BoxLoad(boxes[w.box]) + BagLoad(bags[p]) + Weighs(w.cursor, One)
  <2>1. Load(w.shared, SharedSlots, One) = BoxLoad(boxes[w.box]) + BagLoad(bags[p])
    BY <1>4, <1>9, <1>10, CopyLoad
  <2>2. Load(after.slots, SharedSlots, One) = BoxLoad(boxes'[w.box]) + BagLoad(bags'[p])
    BY <1>6, <1>9, <1>10, SharedLoad
  <2> QED BY <1>7, <2>1, <2>2
<1> QED BY <1>1, <1>3, <1>6, <1>8, <1>9, <1>10, ClickedKeeps

\* Whatever a read of a destroyed box gives, its stacks are sound.
LEMMA ReadsFacts ==
    ASSUME BoxesSound, NEW b \in Boxes, NEW box \in Reads(b)
    PROVE  box \in SoundBox /\ (b \in alive => box = boxes[b])
<1>1. CASE b \in alive
  BY <1>1 DEF Reads, BoxesSound, BoxesTyped
<1>2. CASE b \notin alive
  <2>1. \A k \in Kinds : \A n \in {1} : StackOf(k, n) \in SoundStacks
    <3>1. \A k \in Kinds : 1 \in 1 .. MaxStackOf[k] /\ 1 \in Nat
      BY StacksAssumption
    <3> QED BY <3>1, StackOfFacts, OneIsWeights DEF SoundStacks
  <2>2. box \in [BoxSlots -> {Empty} \cup {StackOf(k, n) : k \in Kinds, n \in {1}}]
    BY <1>2 DEF Reads
  <2>3. {Empty} \cup {StackOf(k, n) : k \in Kinds, n \in {1}} \subseteq SoundStacks
    BY <2>1, EmptyFacts
  <2> QED BY <1>2, <2>2, <2>3 DEF SoundBox
<1> QED BY <1>1, <1>2

\* A shift-click moves the stack into slots that are not its own.
MovesTo(all, slot, stack, m) ==
    /\ m.slots \in SoundShared
    /\ m.left \in SoundStacks
    /\ m.slots[slot] = all[slot]
    /\ Load(m.slots, SharedSlots, One) + Weighs(m.left, One)
         = Load(all, SharedSlots, One) + Weighs(stack, One)

LEMMA OneMoveFacts ==
    ASSUME NEW all \in SoundShared, NEW slot \in SharedSlots, NEW stack \in SoundStacks, stack # Empty,
           NEW order, Visits(order, SharedSlots), slot \notin Visited(order)
    PROVE  MovesTo(all, slot, stack, MergeItemStack(all, stack, order))
<1>1. PICK m : m = MergeItemStack(all, stack, order)
  OBVIOUS
<1>2. all \in [SharedSlots -> SoundStacks]
  BY DEF SoundShared
<1>3. MergesTo(all, stack, order, SharedSlots, m)
  BY <1>1, <1>2, Merges
<1>4. Visited(order) \subseteq SharedSlots
  BY AtFacts
<1>5. MovesTo(all, slot, stack, m)
  BY <1>3, <1>4, SharedFacts, OneIsWeights DEF MergesTo, MovesTo, SoundShared
<1> QED BY <1>1, <1>5

\* Each choice of a shift-click merges into slots other than the one clicked.
LEMMA MovedFacts ==
    ASSUME NEW w \in SoundWindow, NEW all \in SoundShared, NEW slot \in SharedSlots,
           NEW stack \in SoundStacks, stack # Empty
    PROVE  MovesTo(all, slot, stack, Moved(w, all, slot, stack))
<1> DEFINE both == Downwards(BoxSize + 1, BoxSize + BagMainSize + BagBarSize)
           box == Upwards(1, BoxSize)
<1>1. PICK m : m = Moved(w, all, slot, stack)
  OBVIOUS
<1>2. PICK i : i = MergeItemStack(all, stack, MainOrder)
  OBVIOUS
<1>3. PICK ib : ib = MergeItemStack(i.slots, i.left, BarOrder)
  OBVIOUS
<1>4. m = CASE w.box \notin Furnaces /\ slot \in BoxSlots -> MergeItemStack(all, stack, both)
            [] w.box \notin Furnaces /\ slot \in BagSlots -> MergeItemStack(all, stack, box)
            [] IsResult(w, slot) -> MergeItemStack(all, stack, both)
            [] w.box \in Furnaces /\ slot \in BagMain -> MergeItemStack(all, stack, BarOrder)
            [] w.box \in Furnaces /\ slot \in BagBar -> MergeItemStack(all, stack, MainOrder)
            [] w.box \in Furnaces /\ slot \in BoxSlots \ {Result} -> IF i.ok THEN i ELSE ib
  BY <1>1, <1>2, <1>3 DEF Moved
<1> HIDE DEF both, box
<1>5. /\ Visits(both, SharedSlots) /\ Visited(both) = BagSlots
      /\ Visits(box, SharedSlots) /\ Visited(box) = BoxSlots
  BY SharedFacts DEF both, box
<1>6. CASE w.box \notin Furnaces /\ slot \in BoxSlots
  <2>1. m = MergeItemStack(all, stack, both)
    BY <1>4, <1>6, SharedFacts DEF IsResult
  <2>2. slot \notin Visited(both)
    BY <1>5, <1>6, SharedFacts
  <2> QED BY <1>1, <1>5, <2>1, <2>2, OneMoveFacts
<1>7. CASE w.box \notin Furnaces /\ slot \in BagSlots
  <2>1. m = MergeItemStack(all, stack, box)
    BY <1>4, <1>7, SharedFacts DEF IsResult
  <2>2. slot \notin Visited(box)
    BY <1>5, <1>7, SharedFacts
  <2> QED BY <1>1, <1>5, <2>1, <2>2, OneMoveFacts
<1>8. CASE IsResult(w, slot)
  <2>1. m = MergeItemStack(all, stack, both)
    BY <1>4, <1>8, SharedFacts DEF IsResult
  <2>2. slot \notin Visited(both)
    BY <1>5, <1>8, SharedFacts DEF IsResult
  <2> QED BY <1>1, <1>5, <2>1, <2>2, OneMoveFacts
<1>9. CASE w.box \in Furnaces /\ slot \in BagMain
  <2>1. m = MergeItemStack(all, stack, BarOrder)
    BY <1>4, <1>9, SharedFacts DEF IsResult
  <2>2. slot \notin Visited(BarOrder)
    BY <1>9, SharedFacts
  <2> QED BY <1>1, <2>1, <2>2, SharedFacts, OneMoveFacts
<1>10. CASE w.box \in Furnaces /\ slot \in BagBar
  <2>1. m = MergeItemStack(all, stack, MainOrder)
    BY <1>4, <1>10, SharedFacts DEF IsResult
  <2>2. slot \notin Visited(MainOrder)
    BY <1>10, SharedFacts
  <2> QED BY <1>1, <2>1, <2>2, SharedFacts, OneMoveFacts
<1>11. CASE w.box \in Furnaces /\ slot \in BoxSlots \ {Result}
  <2>1. m = IF i.ok THEN i ELSE ib
    BY <1>4, <1>11, SharedFacts DEF IsResult
  <2>2. slot \notin Visited(MainOrder) /\ slot \notin Visited(BarOrder)
    BY <1>11, SharedFacts
  <2>3. CASE i.ok
    BY <1>1, <1>2, <2>1, <2>2, <2>3, SharedFacts, OneMoveFacts
  <2>4. CASE ~i.ok
    <3>1. all \in [SharedSlots -> SoundStacks]
      BY DEF SoundShared
    <3>2. MergesTo(all, stack, MainOrder, SharedSlots, i)
      BY <1>2, <3>1, SharedFacts, Merges
    <3>3. /\ ib.slots \in [SharedSlots -> SoundStacks]
          /\ ib.left \in SoundStacks
          /\ \A s \in SharedSlots \ (Visited(MainOrder) \cup Visited(BarOrder)) : ib.slots[s] = all[s]
          /\ \A v \in Weights : \A S \in SUBSET SharedSlots :
                IsFiniteSet(S) /\ Visited(MainOrder) \cup Visited(BarOrder) \subseteq S =>
                   Load(ib.slots, S, v) + Weighs(ib.left, v) = Load(all, S, v) + Weighs(stack, v)
      BY <1>3, <2>4, <3>1, <3>2, SharedFacts, MergesOn
    <3>4. Visited(MainOrder) \cup Visited(BarOrder) \subseteq SharedSlots
      BY SharedFacts
    <3>5. Load(ib.slots, SharedSlots, One) + Weighs(ib.left, One)
             = Load(all, SharedSlots, One) + Weighs(stack, One)
      BY <3>3, <3>4, SharedFacts, OneIsWeights
    <3>6. ib.slots[slot] = all[slot]
      BY <2>2, <3>3
    <3>7. MovesTo(all, slot, stack, ib)
      BY <3>3, <3>5, <3>6 DEF MovesTo, SoundShared
    <3> QED BY <1>1, <2>1, <2>4, <3>7
  <2> QED BY <2>3, <2>4
<1>12. \/ w.box \notin Furnaces /\ slot \in BoxSlots
       \/ w.box \notin Furnaces /\ slot \in BagSlots
       \/ IsResult(w, slot)
       \/ w.box \in Furnaces /\ slot \in BagMain
       \/ w.box \in Furnaces /\ slot \in BagBar
       \/ w.box \in Furnaces /\ slot \in BoxSlots \ {Result}
  BY SharedFacts DEF IsResult
<1> QED BY <1>6, <1>7, <1>8, <1>9, <1>10, <1>11, <1>12

LEMMA ShiftClickKeeps ==
    ASSUME BoxesSound, NEW p \in Players, NEW slot \in SharedSlots, ShiftClick(p, slot)
    PROVE  BoxesKeep
<1>1. PICK w : w = windows[p] /\ w # NoWindow
  BY DEF ShiftClick
<1>2. PICK box \in Reads(w.box) :
         LET real  == Merged(box, bags[p])
             stack == IF IsResult(w, slot) THEN real[slot] ELSE w.shared[slot]
             moved == Moved(w, real, slot, stack)
             after == [moved.slots EXCEPT ![slot] = moved.left]
         IN  /\ stack # Empty
             /\ boxes' = IF w.box \in alive THEN [boxes EXCEPT ![w.box] = BoxPart(after)] ELSE boxes
             /\ bags' = [bags EXCEPT ![p] = BagPart(after)]
             /\ windows' = [windows EXCEPT ![p].shared = after]
             /\ slips' = slips \cup (IF w.box \notin alive THEN {DeadBox} ELSE {})
                               \cup (IF stack = real[slot] THEN {} ELSE {StaleCopy})
  BY <1>1 DEF ShiftClick
<1>3. PICK real : real = Merged(box, bags[p])
  OBVIOUS
<1>4. PICK stack : stack = IF IsResult(w, slot) THEN real[slot] ELSE w.shared[slot]
  OBVIOUS
<1>5. PICK m : m = Moved(w, real, slot, stack)
  OBVIOUS
<1>6. PICK after : after = [m.slots EXCEPT ![slot] = m.left]
  OBVIOUS
<1>7. /\ stack # Empty
      /\ boxes' = IF w.box \in alive THEN [boxes EXCEPT ![w.box] = BoxPart(after)] ELSE boxes
      /\ bags' = [bags EXCEPT ![p] = BagPart(after)]
      /\ windows' = [windows EXCEPT ![p].shared = after]
      /\ slips' = slips \cup (IF w.box \notin alive THEN {DeadBox} ELSE {})
                        \cup (IF stack = real[slot] THEN {} ELSE {StaleCopy})
  BY <1>2, <1>3, <1>4, <1>5, <1>6
<1>8. litter' = litter
  BY DEF ShiftClick
<1>9. /\ w \in SoundWindow /\ w.box \in Boxes /\ w.shared \in SoundShared /\ w.cursor \in SoundStacks
      /\ boxes[w.box] \in SoundBox /\ bags[p] \in SoundBag
  BY <1>1, WindowFacts
<1>10. box \in SoundBox /\ (w.box \in alive => box = boxes[w.box])
  BY <1>2, <1>9, ReadsFacts
<1>11. real \in SoundShared
  BY <1>3, <1>9, <1>10, MergedFacts
<1>12. stack \in SoundStacks
  BY <1>4, <1>9, <1>11 DEF SoundShared
<1>13. MovesTo(real, slot, stack, m)
  BY <1>5, <1>7, <1>9, <1>11, <1>12, MovedFacts
<1>14. /\ m.slots \in SoundShared /\ m.left \in SoundStacks /\ m.slots[slot] = real[slot]
       /\ Load(m.slots, SharedSlots, One) + Weighs(m.left, One)
            = Load(real, SharedSlots, One) + Weighs(stack, One)
  BY <1>13 DEF MovesTo
<1>15. /\ after \in SoundShared /\ after[slot] = m.left
       /\ \A s \in SharedSlots \ {slot} : m.slots[s] = after[s]
  BY <1>6, <1>14 DEF SoundShared
<1>16. BoxPart(after) \in SoundBox /\ BagPart(after) \in SoundBag
  BY <1>15, SharedLoad
<1>17. boxes \in [Boxes -> SoundBox] /\ bags \in [Players -> SoundBag]
       /\ windows \in [Players -> SoundWindow \cup {NoWindow}]
  BY DEF BoxesSound, BoxesTyped
<1>18. /\ boxes' \in [Boxes -> SoundBox]
       /\ \A c \in Boxes \ {w.box} : boxes'[c] = boxes[c]
       /\ w.box \in alive => boxes'[w.box] = BoxPart(after)
  BY <1>7, <1>9, <1>16, <1>17
<1>19. /\ bags' \in [Players -> SoundBag] /\ bags'[p] = BagPart(after)
       /\ \A q \in Players \ {p} : bags'[q] = bags[q]
  BY <1>7, <1>16, <1>17
<1>20. windows' = [windows EXCEPT ![p] = Clicked(w, after, w.cursor)]
  <2>1. windows' = [windows EXCEPT ![p] = [w EXCEPT !.shared = after]]
    BY <1>1, <1>7, <1>17
  <2>2. [w EXCEPT !.shared = after] = Clicked(w, after, w.cursor)
    BY <1>9 DEF Clicked, SoundWindow
  <2> QED BY <2>1, <2>2
<1>21. ASSUME slips' = {}
       PROVE  /\ slips = {}
              /\ BoxLoad(boxes'[w.box]) + BagLoad(bags'[p]) + Weighs(w.cursor, One)
                   = BoxLoad(boxes[w.box]) + BagLoad(bags[p]) + Weighs(w.cursor, One)
  <2>1. slips = {} /\ w.box \in alive /\ stack = real[slot]
    BY <1>7, <1>21
  <2>2. Load(m.slots, SharedSlots, One) + Weighs(after[slot], One)
           = Load(after, SharedSlots, One) + Weighs(m.slots[slot], One)
    <3>1. \A s \in SharedSlots : m.slots[s] \in SoundStacks /\ after[s] \in SoundStacks
      BY <1>14, <1>15 DEF SoundShared
    <3> QED BY <1>15, <3>1, SharedFacts, LoadChange, OneIsWeights
  <2>3. PICK a, b, c, d, e \in Nat :
           /\ a = Load(m.slots, SharedSlots, One) /\ b = Load(after, SharedSlots, One)
           /\ c = Load(real, SharedSlots, One) /\ d = Weighs(stack, One) /\ e = Weighs(m.left, One)
    <3>1. \A all \in SoundShared : Load(all, SharedSlots, One) \in Nat
      BY SharedFacts, LoadType, OneIsWeights DEF SoundShared
    <3> QED BY <1>11, <1>12, <1>14, <1>15, <3>1, WeighsType, OneIsWeights
  <2>4. a + e = b + d
    BY <1>14, <1>15, <2>1, <2>2, <2>3
  <2>5. a + e = c + d
    BY <1>14, <2>3
  <2>6. b = c
    BY <2>3, <2>4, <2>5
  <2>7. b = BoxLoad(boxes'[w.box]) + BagLoad(bags'[p])
    BY <1>15, <1>18, <1>19, <2>1, <2>3, SharedLoad
  <2>8. c = BoxLoad(boxes[w.box]) + BagLoad(bags[p])
    BY <1>3, <1>9, <1>10, <2>1, <2>3, CopyLoad
  <2> QED BY <2>1, <2>6, <2>7, <2>8
<1> QED BY <1>1, <1>8, <1>9, <1>15, <1>18, <1>19, <1>20, <1>21, ClickedKeeps


LEMMA TakeFromFurnaceKeeps ==
    ASSUME BoxesSound, NEW p \in Players, TakeFromFurnace(p)
    PROVE  BoxesKeep
<1>1. PICK w : w = windows[p] /\ w # NoWindow
  BY DEF TakeFromFurnace
<1>2. PICK box \in Reads(w.box) :
         LET result == box[Result]
             taken  == [box EXCEPT ![Result] = Empty]
             all    == Merged(taken, bags[p])
         IN  /\ result # Empty
             /\ \/ w.cursor = Empty
                \/ /\ w.cursor.kind = result.kind
                   /\ w.cursor.count + result.count <= MaxStackOf[result.kind]
             /\ boxes' = IF w.box \in alive THEN [boxes EXCEPT ![w.box] = taken] ELSE boxes
             /\ windows' = [windows EXCEPT ![p].cursor = StackOf(result.kind, w.cursor.count + result.count),
                                           ![p].shared = all]
             /\ slips' = IF w.box \in alive THEN slips ELSE slips \cup {DeadBox}
  BY <1>1 DEF TakeFromFurnace
<1>3. PICK result : result = box[Result]
  OBVIOUS
<1>4. PICK taken : taken = [box EXCEPT ![Result] = Empty]
  OBVIOUS
<1>5. PICK all : all = Merged(taken, bags[p])
  OBVIOUS
<1>6. PICK cur : cur = StackOf(result.kind, w.cursor.count + result.count)
  OBVIOUS
<1>7. /\ result # Empty
      /\ \/ w.cursor = Empty
         \/ /\ w.cursor.kind = result.kind
            /\ w.cursor.count + result.count <= MaxStackOf[result.kind]
      /\ boxes' = IF w.box \in alive THEN [boxes EXCEPT ![w.box] = taken] ELSE boxes
      /\ windows' = [windows EXCEPT ![p].cursor = cur, ![p].shared = all]
      /\ slips' = IF w.box \in alive THEN slips ELSE slips \cup {DeadBox}
  BY <1>2, <1>3, <1>4, <1>5, <1>6
<1>8. litter' = litter /\ bags' = bags
  BY DEF TakeFromFurnace
<1>9. /\ w \in SoundWindow /\ w.box \in Boxes /\ w.cursor \in SoundStacks
      /\ boxes[w.box] \in SoundBox /\ bags[p] \in SoundBag
  BY <1>1, WindowFacts
<1>10. box \in SoundBox /\ (w.box \in alive => box = boxes[w.box])
  BY <1>2, <1>9, ReadsFacts
<1>11. result \in SoundStacks
  BY <1>3, <1>10, SharedFacts DEF SoundBox
<1>12. /\ taken \in SoundBox /\ taken[Result] = Empty
       /\ \A s \in BoxSlots \ {Result} : taken[s] = box[s]
  BY <1>4, <1>10, SharedFacts, EmptyFacts DEF SoundBox
<1>13. all \in SoundShared
  BY <1>5, <1>9, <1>12, MergedFacts
<1>14. cur \in SoundStacks /\ Weighs(cur, One) = Weighs(w.cursor, One) + Weighs(result, One)
  BY <1>6, <1>7, <1>9, <1>11, StackedFacts, OneIsWeights
<1>15. boxes \in [Boxes -> SoundBox] /\ bags \in [Players -> SoundBag]
       /\ windows \in [Players -> SoundWindow \cup {NoWindow}]
  BY DEF BoxesSound, BoxesTyped
<1>16. /\ boxes' \in [Boxes -> SoundBox]
       /\ \A c \in Boxes \ {w.box} : boxes'[c] = boxes[c]
       /\ w.box \in alive => boxes'[w.box] = taken
  BY <1>7, <1>9, <1>12, <1>15
<1>17. windows' = [windows EXCEPT ![p] = Clicked(w, all, cur)]
  BY <1>1, <1>7, <1>9, <1>15 DEF Clicked, SoundWindow
<1>18. ASSUME slips' = {}
       PROVE  /\ slips = {}
              /\ BoxLoad(boxes'[w.box]) + BagLoad(bags'[p]) + Weighs(cur, One)
                   = BoxLoad(boxes[w.box]) + BagLoad(bags[p]) + Weighs(w.cursor, One)
  <2>1. slips = {} /\ w.box \in alive
    BY <1>7, <1>18
  <2>2. box = boxes[w.box] /\ boxes'[w.box] = taken
    BY <1>10, <1>16, <2>1
  <2>3. Load(box, BoxSlots, One) + Weighs(taken[Result], One)
           = Load(taken, BoxSlots, One) + Weighs(box[Result], One)
    <3>1. \A s \in BoxSlots : box[s] \in SoundStacks /\ taken[s] \in SoundStacks
      BY <1>10, <1>12 DEF SoundBox
    <3> QED BY <1>12, <3>1, SharedFacts, LoadChange, OneIsWeights
  <2>4. PICK a, b, c, d, e \in Nat :
           /\ a = BoxLoad(box) /\ b = BoxLoad(taken) /\ c = BagLoad(bags[p])
           /\ d = Weighs(w.cursor, One) /\ e = Weighs(result, One)
    BY <1>9, <1>10, <1>11, <1>12, PartTypes, WeighsType, OneIsWeights
  <2>5. a = b + e
    BY <1>3, <1>12, <2>3, <2>4, EmptyFacts DEF BoxLoad
  <2>6. b + c + (d + e) = a + c + d
    BY <2>4, <2>5
  <2> QED BY <1>8, <1>14, <2>1, <2>2, <2>4, <2>6
<1>19. bags' \in [Players -> SoundBag] /\ \A q \in Players \ {p} : bags'[q] = bags[q]
  BY <1>8, <1>15
<1> QED BY <1>1, <1>8, <1>9, <1>13, <1>14, <1>16, <1>17, <1>18, <1>19, ClickedKeeps

\* A step between one player's hands and the ground.
LEMMA HandKeeps ==
    ASSUME BoxesSound, NEW p \in Players,
           boxes' \in [Boxes -> SoundBox], bags' \in [Players -> SoundBag],
           windows' \in [Players -> SoundWindow \cup {NoWindow}], litter' \in [Kinds -> Nat],
           slips' = {} =>
              /\ slips = {}
              /\ boxes' = boxes
              /\ \A q \in Players \ {p} : bags'[q] = bags[q] /\ windows'[q] = windows[q]
              /\ BagLoad(bags'[p]) + Held(windows'[p]) + Lying(litter', One)
                   = BagLoad(bags[p]) + Held(windows[p]) + Lying(litter, One)
    PROVE  BoxesKeep
<1>1. BoxesTyped(boxes', bags', windows', litter')
  BY DEF BoxesTyped
<1>2. ASSUME slips' = {}
      PROVE  slips = {} /\ Items(boxes', bags', windows', litter') = Items(boxes, bags, windows, litter)
  <2>1. PICK bg, wn, li : bg = bags' /\ wn = windows' /\ li = litter'
    OBVIOUS
  <2>2. BoxesTyped(boxes, bags, windows, litter) /\ BoxesTyped(boxes, bg, wn, li)
    BY <1>1, <1>2, <2>1 DEF BoxesSound
  <2>3. \A q \in Players \ {p} : bg[q] = bags[q] /\ wn[q] = windows[q]
    BY <1>2, <2>1
  <2>4. BagLoad(bg[p]) + Held(wn[p]) + Lying(li, One) = BagLoad(bags[p]) + Held(windows[p]) + Lying(litter, One)
    BY <1>2, <2>1
  <2>5. Items(boxes, bg, wn, li) = Items(boxes, bags, windows, litter)
    BY <2>2, <2>3, <2>4, HandBalance
  <2> QED BY <1>2, <2>1, <2>5
<1> QED BY <1>1, <1>2 DEF BoxesKeep

LEMMA ClickOutsideBoxKeeps ==
    ASSUME BoxesSound, NEW p \in Players, ClickOutsideBox(p)
    PROVE  BoxesKeep
<1>1. PICK w : w = windows[p] /\ w # NoWindow /\ w.cursor # Empty
  BY DEF ClickOutsideBox
<1>2. PICK n \in {1, w.cursor.count} :
         /\ litter' = [litter EXCEPT ![w.cursor.kind] = @ + n]
         /\ windows' = [windows EXCEPT ![p].cursor = Less(@, n)]
  BY <1>1 DEF ClickOutsideBox
<1>3. boxes' = boxes /\ bags' = bags /\ slips' = slips
  BY DEF ClickOutsideBox
<1>4. /\ w \in SoundWindow /\ w.shared \in SoundShared /\ w.cursor \in SoundStacks
      /\ Held(w) = Weighs(w.cursor, One)
  BY <1>1, WindowFacts
<1>5. PICK k \in Kinds : k = w.cursor.kind /\ n \in 1 .. w.cursor.count /\ n \in Nat
  BY <1>1, <1>2, <1>4, StackFacts DEF SoundStacks
<1>6. PICK cur : cur = Less(w.cursor, n)
  OBVIOUS
<1>7. cur \in SoundStacks /\ Weighs(cur, One) + n * One[k] = Weighs(w.cursor, One)
  BY <1>1, <1>4, <1>5, <1>6, LessFacts, OneIsWeights
<1>8. /\ boxes \in [Boxes -> SoundBox] /\ bags \in [Players -> SoundBag]
      /\ windows \in [Players -> SoundWindow \cup {NoWindow}] /\ litter \in [Kinds -> Nat]
  BY DEF BoxesSound, BoxesTyped
<1>9. windows' = [windows EXCEPT ![p] = Clicked(w, w.shared, cur)]
  <2>1. windows' = [windows EXCEPT ![p] = [w EXCEPT !.cursor = cur]]
    BY <1>1, <1>2, <1>6, <1>8
  <2>2. [w EXCEPT !.cursor = cur] = Clicked(w, w.shared, cur)
    BY <1>4 DEF Clicked, SoundWindow
  <2> QED BY <2>1, <2>2
<1>10. Clicked(w, w.shared, cur) \in SoundWindow /\ Held(Clicked(w, w.shared, cur)) = Weighs(cur, One)
  BY <1>4, <1>7, ClickedFacts
<1>11. /\ windows' \in [Players -> SoundWindow \cup {NoWindow}] /\ Held(windows'[p]) = Weighs(cur, One)
       /\ \A q \in Players \ {p} : windows'[q] = windows[q]
  BY <1>8, <1>9, <1>10
<1>12. PICK more : more = litter'
  OBVIOUS
<1>13. more \in [Kinds -> Nat] /\ more[k] = litter[k] + n /\ \A j \in Kinds \ {k} : more[j] = litter[j]
  BY <1>2, <1>5, <1>8, <1>12
<1>14. Lying(more, One) = Lying(litter, One) + n * One[k]
  BY <1>5, <1>8, <1>13, LyingMore, OneIsWeights
<1>15. PICK a, b, c, d, e \in Nat :
          /\ a = BagLoad(bags[p]) /\ b = Weighs(w.cursor, One) /\ c = Weighs(cur, One)
          /\ d = Lying(litter, One) /\ e = n * One[k]
  <2>1. n * One[k] \in Nat
    BY <1>5, TimesNat, OneIsWeights DEF Weights
  <2> QED BY <1>4, <1>7, <1>8, <2>1, PartTypes, WeighsType, LyingType, OneIsWeights
<1>16. a + c + (d + e) = a + b + d
  <2>1. c + e = b
    BY <1>7, <1>15
  <2> QED BY <1>15, <2>1
<1>17. BagLoad(bags'[p]) + Held(windows'[p]) + Lying(litter', One)
          = BagLoad(bags[p]) + Held(windows[p]) + Lying(litter, One)
  BY <1>1, <1>3, <1>4, <1>11, <1>12, <1>14, <1>15, <1>16
<1>18. boxes' \in [Boxes -> SoundBox] /\ bags' \in [Players -> SoundBag] /\ litter' \in [Kinds -> Nat]
  BY <1>3, <1>8, <1>12, <1>13
<1> QED BY <1>3, <1>11, <1>17, <1>18, HandKeeps

LEMMA CloseBoxKeeps ==
    ASSUME BoxesSound, NEW p \in Players, windows[p] # NoWindow, CloseBox(p)
    PROVE  BoxesKeep
<1>1. PICK w : w = windows[p] /\ w # NoWindow
  OBVIOUS
<1>2. /\ litter' = Spilled(litter, <<w.cursor>>)
      /\ windows' = [windows EXCEPT ![p] = NoWindow]
      /\ Destroy(p, w)
  BY <1>1 DEF CloseBox, Littered
<1>3. w.cursor \in SoundStacks /\ Held(w) = Weighs(w.cursor, One)
  BY <1>1, WindowFacts
<1>4. /\ boxes' \in [Boxes -> SoundBox] /\ bags' \in [Players -> SoundBag]
      /\ slips' = {} => slips = {} /\ boxes' = boxes /\ bags' = bags
  BY <1>1, <1>2, DestroyFacts
<1>5. /\ boxes \in [Boxes -> SoundBox] /\ bags \in [Players -> SoundBag]
      /\ windows \in [Players -> SoundWindow \cup {NoWindow}] /\ litter \in [Kinds -> Nat]
  BY DEF BoxesSound, BoxesTyped
<1>6. PICK more : more = litter'
  OBVIOUS
<1>7. more \in [Kinds -> Nat] /\ Lying(more, One) = Lying(litter, One) + Weighs(w.cursor, One)
  BY <1>2, <1>3, <1>5, <1>6, SpilledOne, OneIsWeights
<1>8. /\ windows' \in [Players -> SoundWindow \cup {NoWindow}] /\ Held(windows'[p]) = 0
      /\ \A q \in Players \ {p} : windows'[q] = windows[q]
  BY <1>2, <1>5 DEF Held
<1>9. PICK a, b, d \in Nat : /\ a = BagLoad(bags[p]) /\ b = Weighs(w.cursor, One)
                             /\ d = Lying(litter, One)
  BY <1>3, <1>5, PartTypes, WeighsType, LyingType, OneIsWeights
<1>10. ASSUME slips' = {}
       PROVE  /\ slips = {} /\ boxes' = boxes
              /\ \A q \in Players \ {p} : bags'[q] = bags[q] /\ windows'[q] = windows[q]
              /\ BagLoad(bags'[p]) + Held(windows'[p]) + Lying(litter', One)
                   = BagLoad(bags[p]) + Held(windows[p]) + Lying(litter, One)
  <2>1. slips = {} /\ boxes' = boxes /\ bags' = bags
    BY <1>4, <1>10
  <2>2. a + 0 + (d + b) = a + b + d
    BY <1>9
  <2>3. BagLoad(bags'[p]) + Held(windows'[p]) + Lying(litter', One)
           = BagLoad(bags[p]) + Held(windows[p]) + Lying(litter, One)
    BY <1>1, <1>3, <1>6, <1>7, <1>8, <1>9, <2>1, <2>2
  <2> QED BY <1>8, <2>1, <2>3
<1>11. litter' \in [Kinds -> Nat]
  BY <1>6, <1>7
<1> QED BY <1>4, <1>8, <1>10, <1>11, HandKeeps

\* Steps that move no item.
LEMMA QuietKeeps ==
    ASSUME BoxesSound, boxes' = boxes, bags' = bags, windows' = windows, litter' = litter,
           slips' = slips
    PROVE  BoxesKeep
BY DEF BoxesSound, BoxesKeep

LEMMA TrackKeeps ==
    ASSUME BoxesSound, NEW p \in Players, Track(p)
    PROVE  BoxesKeep
<1>1. PICK w : w = windows[p]
  OBVIOUS
<1>2. PICK all : all = Merged(boxes[w.box], bags[p])
  OBVIOUS
<1>3. \/ w # NoWindow /\ CloseBox(p)
      \/ /\ w # NoWindow
         /\ windows' = [windows EXCEPT ![p].shared = all]
         /\ UNCHANGED <<boxes, bags, litter, slips>>
      \/ UNCHANGED <<boxes, bags, litter, windows, slips>>
  BY <1>1, <1>2 DEF Track
<1>4. CASE w # NoWindow /\ CloseBox(p)
  BY <1>1, <1>4, CloseBoxKeeps
<1>5. CASE /\ w # NoWindow
           /\ windows' = [windows EXCEPT ![p].shared = all]
           /\ UNCHANGED <<boxes, bags, litter, slips>>
  <2>1. /\ w \in SoundWindow /\ w.box \in Boxes /\ w.cursor \in SoundStacks
        /\ boxes[w.box] \in SoundBox /\ bags[p] \in SoundBag
    BY <1>1, <1>5, WindowFacts
  <2>2. all \in SoundShared
    BY <1>2, <2>1, MergedFacts
  <2>3. /\ boxes \in [Boxes -> SoundBox] /\ bags \in [Players -> SoundBag]
        /\ windows \in [Players -> SoundWindow \cup {NoWindow}]
    BY DEF BoxesSound, BoxesTyped
  <2>4. windows' = [windows EXCEPT ![p] = Clicked(w, all, w.cursor)]
    <3>1. windows' = [windows EXCEPT ![p] = [w EXCEPT !.shared = all]]
      BY <1>1, <1>5, <2>3
    <3>2. [w EXCEPT !.shared = all] = Clicked(w, all, w.cursor)
      BY <2>1 DEF Clicked, SoundWindow
    <3> QED BY <3>1, <3>2
  <2>5. boxes' = boxes /\ bags' = bags /\ litter' = litter /\ slips' = slips
    BY <1>5
  <2>6. boxes' \in [Boxes -> SoundBox] /\ bags' \in [Players -> SoundBag]
    BY <2>3, <2>5
  <2>7. ASSUME slips' = {}
        PROVE  /\ slips = {}
               /\ \A c \in Boxes \ {w.box} : boxes'[c] = boxes[c]
               /\ \A q \in Players \ {p} : bags'[q] = bags[q]
               /\ BoxLoad(boxes'[w.box]) + BagLoad(bags'[p]) + Weighs(w.cursor, One)
                    = BoxLoad(boxes[w.box]) + BagLoad(bags[p]) + Weighs(w.cursor, One)
    BY <2>5, <2>7
  <2>8. w # NoWindow
    BY <1>5
  <2> QED BY <1>1, <2>1, <2>2, <2>4, <2>5, <2>6, <2>7, <2>8, ClickedKeeps
<1>6. CASE UNCHANGED <<boxes, bags, litter, windows, slips>>
  BY <1>6, QuietKeeps
<1> QED BY <1>3, <1>4, <1>5, <1>6

LEMMA ThrowItemKeeps ==
    ASSUME BoxesSound, NEW p \in Players, NEW slot \in BagBar, ThrowItem(p, slot)
    PROVE  BoxesKeep
<1>1. /\ bags[p][slot] # Empty
      /\ bags' = [bags EXCEPT ![p][slot] = Less(@, 1)]
      /\ litter' = [litter EXCEPT ![bags[p][slot].kind] = @ + 1]
      /\ boxes' = boxes /\ windows' = windows /\ slips' = slips
  BY DEF ThrowItem
<1>2. /\ boxes \in [Boxes -> SoundBox] /\ bags \in [Players -> SoundBag]
      /\ windows \in [Players -> SoundWindow \cup {NoWindow}] /\ litter \in [Kinds -> Nat]
  BY DEF BoxesSound, BoxesTyped
<1>3. PICK bag \in SoundBag : bag = bags[p]
  BY <1>2
<1>4. slot \in BagSlots
  BY SharedFacts
<1>5. PICK stack \in SoundStacks : stack = bag[slot] /\ stack # Empty
  BY <1>1, <1>3, <1>4 DEF SoundBag
<1>6. PICK k \in Kinds : k = stack.kind /\ 1 \in 1 .. stack.count
  BY <1>5, StackFacts DEF SoundStacks
<1>7. /\ Less(stack, 1) \in SoundStacks
      /\ Weighs(Less(stack, 1), One) + 1 * One[k] = Weighs(stack, One)
  BY <1>5, <1>6, LessFacts, OneIsWeights
<1>8. PICK rest : rest = [bag EXCEPT ![slot] = Less(stack, 1)]
  OBVIOUS
<1>9. /\ rest \in SoundBag /\ rest[slot] = Less(stack, 1)
      /\ \A s \in BagSlots \ {slot} : bag[s] = rest[s]
  BY <1>3, <1>4, <1>7, <1>8 DEF SoundBag
<1>10. bags' = [bags EXCEPT ![p] = rest]
  BY <1>1, <1>2, <1>3, <1>5, <1>8
<1>11. /\ bags' \in [Players -> SoundBag] /\ bags'[p] = rest
       /\ \A q \in Players \ {p} : bags'[q] = bags[q]
  BY <1>2, <1>9, <1>10
<1>12. Load(bag, BagSlots, One) + Weighs(rest[slot], One) = Load(rest, BagSlots, One) + Weighs(bag[slot], One)
  <2>1. \A s \in BagSlots : bag[s] \in SoundStacks /\ rest[s] \in SoundStacks
    BY <1>3, <1>9 DEF SoundBag
  <2> QED BY <1>4, <1>9, <2>1, SharedFacts, LoadChange, OneIsWeights
<1>13. PICK more : more = litter'
  OBVIOUS
<1>14. more \in [Kinds -> Nat] /\ more[k] = litter[k] + 1 /\ \A j \in Kinds \ {k} : more[j] = litter[j]
  BY <1>1, <1>2, <1>3, <1>5, <1>6, <1>13
<1>15. Lying(more, One) = Lying(litter, One) + 1 * One[k]
  BY <1>2, <1>14, LyingMore, OneIsWeights
<1>16. PICK a, b, c, d, e, f, h \in Nat :
          /\ a = BagLoad(bag) /\ b = BagLoad(rest) /\ c = Weighs(Less(stack, 1), One)
          /\ d = Weighs(stack, One) /\ e = Lying(litter, One) /\ f = 1 * One[k] /\ h = Held(windows[p])
  <2>1. 1 * One[k] \in Nat
    BY TimesNat, OneIsWeights DEF Weights
  <2> QED BY <1>2, <1>3, <1>5, <1>7, <1>9, <2>1, PartTypes, WeighsType, LyingType, OneIsWeights
<1>17. a + c = b + d
  BY <1>5, <1>9, <1>12, <1>16 DEF BagLoad
<1>18. b + h + (e + f) = a + h + e
  <2>1. c + f = d
    BY <1>7, <1>16
  <2>2. a = b + f
    BY <1>17, <2>1
  <2> QED BY <2>2
<1>19. BagLoad(bags'[p]) + Held(windows'[p]) + Lying(litter', One)
          = BagLoad(bags[p]) + Held(windows[p]) + Lying(litter, One)
  BY <1>1, <1>3, <1>11, <1>13, <1>15, <1>16, <1>18
<1>20. /\ boxes' \in [Boxes -> SoundBox] /\ litter' \in [Kinds -> Nat]
       /\ windows' \in [Players -> SoundWindow \cup {NoWindow}]
       /\ \A q \in Players \ {p} : windows'[q] = windows[q]
  BY <1>1, <1>2, <1>13, <1>14
<1> QED BY <1>1, <1>11, <1>19, <1>20, HandKeeps

LEMMA PickupLitterKeeps ==
    ASSUME BoxesSound, NEW p \in Players, PickupLitter(p)
    PROVE  BoxesKeep
<1>1. PICK k \in Kinds :
         \E n \in 1 .. Smaller(litter[k], MaxStackOf[k]) :
            LET picked == PickupItem(bags[p], StackOf(k, n), MainOrder, BarOrder)
            IN  /\ bags' = [bags EXCEPT ![p] = picked.slots]
                /\ litter' = [litter EXCEPT ![k] = @ - n + picked.left.count]
  BY DEF PickupLitter
<1>2. PICK n \in 1 .. Smaller(litter[k], MaxStackOf[k]) :
         LET picked == PickupItem(bags[p], StackOf(k, n), MainOrder, BarOrder)
         IN  /\ bags' = [bags EXCEPT ![p] = picked.slots]
             /\ litter' = [litter EXCEPT ![k] = @ - n + picked.left.count]
  BY <1>1
<1>3. PICK m : m = PickupItem(bags[p], StackOf(k, n), MainOrder, BarOrder)
  OBVIOUS
<1>4. bags' = [bags EXCEPT ![p] = m.slots] /\ litter' = [litter EXCEPT ![k] = @ - n + m.left.count]
  BY <1>2, <1>3
<1>5. boxes' = boxes /\ windows' = windows /\ slips' = slips
  BY DEF PickupLitter
<1>6. /\ boxes \in [Boxes -> SoundBox] /\ bags \in [Players -> SoundBag]
      /\ windows \in [Players -> SoundWindow \cup {NoWindow}] /\ litter \in [Kinds -> Nat]
  BY DEF BoxesSound, BoxesTyped
<1>7. n \in Nat /\ n <= litter[k] /\ n \in 1 .. MaxStackOf[k]
  <2>1. PICK t \in Nat : t = Smaller(litter[k], MaxStackOf[k]) /\ t <= litter[k] /\ t <= MaxStackOf[k]
    BY <1>6, SmallerFacts, StacksAssumption
  <2> QED BY <1>6, <2>1, StacksAssumption
<1>8. PICK stack \in SoundStacks : /\ stack = StackOf(k, n) /\ stack # Empty /\ stack.kind = k
                                   /\ Weighs(stack, One) = n * One[k]
  BY <1>7, StackOfFacts, OneIsWeights DEF SoundStacks
<1>9. PICK bag \in [BagSlots -> SoundStacks] : bag = bags[p]
  BY <1>6 DEF SoundBag
<1>10. PicksUp(bag, stack, BagSlots, BagSlots, m)
  <2>1. Visited(MainOrder) \cup Visited(BarOrder) \subseteq BagSlots
    BY SharedFacts
  <2>2. BagSlots \in SUBSET BagSlots /\ IsFiniteSet(BagSlots)
    BY SharedFacts
  <2> QED BY <1>3, <1>8, <1>9, <2>1, <2>2, SharedFacts, PickupFacts
<1>11. PICK rest \in SoundStacks : rest = m.left /\ (rest # Empty => rest.kind = k)
  BY <1>8, <1>10 DEF PicksUp
<1>12. PICK full \in SoundBag : full = m.slots
  BY <1>10 DEF PicksUp, SoundBag
<1>13. BagLoad(full) + Weighs(rest, One) = BagLoad(bag) + n * One[k]
  BY <1>8, <1>10, <1>11, <1>12, OneIsWeights DEF PicksUp, BagLoad
<1>14. /\ bags' \in [Players -> SoundBag] /\ bags'[p] = full
       /\ \A q \in Players \ {p} : bags'[q] = bags[q]
  BY <1>4, <1>6, <1>12
<1>15. PICK here : here = litter'
  OBVIOUS
<1>16. here \in [Kinds -> Nat] /\ here[k] = litter[k] - n + rest.count
  <2>1. rest.count \in Nat /\ litter[k] - n \in Nat
    BY <1>6, <1>7 DEF SoundStacks, Stack
  <2> QED BY <1>4, <1>6, <1>11, <1>15, <2>1
<1>17. \A j \in Kinds \ {k} : here[j] = litter[j]
  BY <1>4, <1>6, <1>15
<1>18. Lying(here, One) + n * One[k] = Lying(litter, One) + Weighs(rest, One)
  BY <1>6, <1>7, <1>11, <1>16, <1>17, PickedLies, OneIsWeights
<1>19. PICK a, b, c, d, e, f, h \in Nat :
          /\ a = BagLoad(bag) /\ b = BagLoad(full) /\ c = Weighs(rest, One) /\ d = n * One[k]
          /\ e = Lying(litter, One) /\ f = Lying(here, One) /\ h = Held(windows[p])
  <2>1. n * One[k] \in Nat
    BY <1>7, TimesNat, OneIsWeights DEF Weights
  <2>2. bag \in SoundBag
    BY DEF SoundBag
  <2> QED BY <1>6, <1>11, <1>12, <1>16, <2>1, <2>2, PartTypes, WeighsType, LyingType, OneIsWeights
<1>20. b + h + f = a + h + e
  <2>1. b + c = a + d
    BY <1>13, <1>19
  <2>2. f + d = e + c
    BY <1>18, <1>19
  <2> QED BY <1>19, <2>1, <2>2
<1>21. BagLoad(bags'[p]) + Held(windows'[p]) + Lying(litter', One)
          = BagLoad(bags[p]) + Held(windows[p]) + Lying(litter, One)
  BY <1>5, <1>9, <1>14, <1>15, <1>19, <1>20
<1>22. /\ boxes' \in [Boxes -> SoundBox] /\ litter' \in [Kinds -> Nat]
       /\ windows' \in [Players -> SoundWindow \cup {NoWindow}]
       /\ \A q \in Players \ {p} : windows'[q] = windows[q]
  BY <1>5, <1>6, <1>15, <1>16
<1> QED BY <1>5, <1>14, <1>21, <1>22, HandKeeps

\* A step between one box and the ground.
LEMMA BoxKeeps ==
    ASSUME BoxesSound, NEW b \in Boxes,
           boxes' \in [Boxes -> SoundBox], bags' = bags, windows' = windows, litter' \in [Kinds -> Nat],
           slips' = slips, \A c \in Boxes \ {b} : boxes'[c] = boxes[c],
           BoxLoad(boxes'[b]) + Lying(litter', One) = BoxLoad(boxes[b]) + Lying(litter, One)
    PROVE  BoxesKeep
<1>1. BoxesTyped(boxes', bags', windows', litter')
  BY DEF BoxesTyped, BoxesSound
<1>2. PICK bx, li : bx = boxes' /\ li = litter'
  OBVIOUS
<1>3. BoxesTyped(boxes, bags, windows, litter) /\ BoxesTyped(bx, bags, windows, li)
  BY <1>1, <1>2 DEF BoxesSound
<1>4. \A c \in Boxes \ {b} : bx[c] = boxes[c]
  BY <1>2
<1>5. BoxLoad(bx[b]) + Lying(li, One) = BoxLoad(boxes[b]) + Lying(litter, One)
  BY <1>2
<1>6. Items(bx, bags, windows, li) = Items(boxes, bags, windows, litter)
  BY <1>3, <1>4, <1>5, BoxBalance
<1> QED BY <1>1, <1>2, <1>6 DEF BoxesKeep

LEMMA BreakBoxKeeps ==
    ASSUME BoxesSound, NEW b \in Boxes, BreakBox(b)
    PROVE  BoxesKeep
<1>1. /\ litter' = Spilled(litter, boxes[b])
      /\ boxes' = [boxes EXCEPT ![b] = [s \in BoxSlots |-> Empty]]
      /\ bags' = bags /\ windows' = windows /\ slips' = slips
  BY DEF BreakBox, Littered
<1>2. boxes \in [Boxes -> SoundBox] /\ litter \in [Kinds -> Nat]
  BY DEF BoxesSound, BoxesTyped
<1>3. PICK box \in SoundBox : box = boxes[b]
  BY <1>2
<1>4. DOMAIN box = BoxSlots /\ \A s \in BoxSlots : box[s] \in SoundStacks
  BY DEF SoundBox
<1>5. PICK more : more = litter'
  OBVIOUS
<1>6. more \in [Kinds -> Nat] /\ Lying(more, One) = Lying(litter, One) + Load(box, BoxSlots, One)
  <2>1. IsFiniteSet(DOMAIN box) /\ \A s \in DOMAIN box : box[s] \in SoundStacks
    BY <1>4, SharedFacts
  <2>2. more = Spilled(litter, box)
    BY <1>1, <1>3, <1>5
  <2> QED BY <1>2, <1>4, <2>1, <2>2, SpilledLies, OneIsWeights
<1>7. PICK none : none = [s \in BoxSlots |-> Empty]
  OBVIOUS
<1>8. none \in SoundBox /\ Load(none, BoxSlots, One) = 0
  BY <1>7, SharedFacts, EmptyFacts, LoadNothing DEF SoundBox
<1>9. /\ boxes' \in [Boxes -> SoundBox] /\ boxes'[b] = none
      /\ \A c \in Boxes \ {b} : boxes'[c] = boxes[c]
  BY <1>1, <1>2, <1>7, <1>8
<1>10. PICK x, y \in Nat : x = BoxLoad(box) /\ y = Lying(litter, One)
  BY <1>2, PartTypes, LyingType, OneIsWeights
<1>11. BoxLoad(boxes'[b]) + Lying(litter', One) = BoxLoad(boxes[b]) + Lying(litter, One)
  <2>1. 0 + (y + x) = x + y
    BY <1>10
  <2> QED BY <1>3, <1>5, <1>6, <1>8, <1>9, <1>10, <2>1 DEF BoxLoad
<1>12. litter' \in [Kinds -> Nat]
  BY <1>5, <1>6
<1> QED BY <1>1, <1>9, <1>11, <1>12, BoxKeeps

LEMMA SmeltKeeps ==
    ASSUME BoxesSound, NEW b \in Boxes, Smelt(b)
    PROVE  BoxesKeep
<1>1. boxes \in [Boxes -> SoundBox] /\ litter \in [Kinds -> Nat]
  BY DEF BoxesSound, BoxesTyped
<1>2. PICK box \in SoundBox : box = boxes[b]
  BY <1>1
<1>3. PICK input, out \in SoundStacks : input = box[1] /\ out = box[Result]
  BY <1>2, SharedFacts DEF SoundBox
<1>4. PICK made : made = Smelts[input.kind]
  OBVIOUS
<1>5. /\ input # Empty /\ input.kind \in DOMAIN Smelts
      /\ \/ out = Empty
         \/ out.kind = made /\ out.count < MaxStackOf[out.kind]
      /\ boxes' = [boxes EXCEPT ![b][1] = Less(@, 1), ![b][Result] = StackOf(made, out.count + 1)]
      /\ bags' = bags /\ windows' = windows /\ litter' = litter /\ slips' = slips
  <2>1. StackOf(made, 1).kind = made
    BY DEF StackOf
  <2> QED BY <1>2, <1>3, <1>4, <2>1 DEF Smelt
<1>6. made \in Kinds
  BY <1>4, <1>5, WindowsAssumption
<1>7. 1 \in 1 .. input.count /\ input.kind \in Kinds
  BY <1>3, <1>5, StackFacts DEF SoundStacks
<1>8. Less(input, 1) \in SoundStacks /\ Weighs(Less(input, 1), One) + 1 = Weighs(input, One)
  <2>1. Weighs(Less(input, 1), One) + 1 * One[input.kind] = Weighs(input, One) /\ Less(input, 1) \in SoundStacks
    BY <1>3, <1>5, <1>7, LessFacts, OneIsWeights
  <2>2. 1 * One[input.kind] = 1
    BY <1>7 DEF One
  <2> QED BY <2>1, <2>2
<1>9. PICK more : more = StackOf(made, out.count + 1)
  OBVIOUS
<1>10. more \in SoundStacks /\ Weighs(more, One) = Weighs(out, One) + 1
  <2>1. PICK c \in Nat : c = out.count /\ c + 1 \in 1 .. MaxStackOf[made] /\ c + 1 \in Nat
    <3>1. CASE out = Empty
      <4>1. out.count = 0 /\ MaxStackOf[made] \in Nat \ {0}
        BY <1>6, <3>1, EmptyFacts, StacksAssumption
      <4> QED BY <4>1
    <3>2. CASE out # Empty
      <4>1. out.kind = made /\ out.count < MaxStackOf[made] /\ MaxStackOf[made] \in Nat
        BY <1>5, <1>6, <3>2, StacksAssumption
      <4>2. out.count \in Nat
        BY <3>2, StackFacts DEF SoundStacks
      <4> QED BY <4>1, <4>2
    <3> QED BY <3>1, <3>2
  <2>2. more \in SoundStacks
    BY <1>6, <1>9, <2>1, StackOfFacts, OneIsWeights DEF SoundStacks
  <2>3. more.count = c + 1
    BY <1>9, <2>1 DEF StackOf
  <2> QED BY <2>1, <2>2, <2>3, WeighsOne
<1>11. PICK half : half = [box EXCEPT ![1] = Less(input, 1)]
  OBVIOUS
<1>12. /\ half \in SoundBox /\ half[1] = Less(input, 1) /\ half[Result] = out
       /\ \A s \in BoxSlots \ {1} : box[s] = half[s]
  BY <1>2, <1>3, <1>8, <1>11, SharedFacts DEF SoundBox
<1>13. PICK done : done = [half EXCEPT ![Result] = more]
  OBVIOUS
<1>14. /\ done \in SoundBox /\ done[Result] = more
       /\ \A s \in BoxSlots \ {Result} : half[s] = done[s]
  BY <1>10, <1>12, <1>13, SharedFacts DEF SoundBox
<1>15. boxes' = [boxes EXCEPT ![b] = done]
  <2>1. boxes' = [boxes EXCEPT ![b] = [[boxes[b] EXCEPT ![1] = Less(boxes[b][1], 1)] EXCEPT ![Result] = more]]
    BY <1>1, <1>2, <1>3, <1>5, <1>9
  <2> QED BY <1>2, <1>3, <1>11, <1>13, <2>1
<1>16. /\ boxes' \in [Boxes -> SoundBox] /\ boxes'[b] = done
       /\ \A c \in Boxes \ {b} : boxes'[c] = boxes[c]
  BY <1>1, <1>14, <1>15
<1>17. Load(box, BoxSlots, One) + Weighs(half[1], One) = Load(half, BoxSlots, One) + Weighs(box[1], One)
  <2>1. \A s \in BoxSlots : box[s] \in SoundStacks /\ half[s] \in SoundStacks
    BY <1>12 DEF SoundBox
  <2> QED BY <1>12, <2>1, SharedFacts, LoadChange, OneIsWeights
<1>18. Load(half, BoxSlots, One) + Weighs(done[Result], One) = Load(done, BoxSlots, One) + Weighs(half[Result], One)
  <2>1. \A s \in BoxSlots : half[s] \in SoundStacks /\ done[s] \in SoundStacks
    BY <1>12, <1>14 DEF SoundBox
  <2> QED BY <1>14, <2>1, SharedFacts, LoadChange, OneIsWeights
<1>19. PICK x, y, z, u, v \in Nat :
          /\ x = BoxLoad(box) /\ y = BoxLoad(half) /\ z = BoxLoad(done)
          /\ u = Weighs(Less(input, 1), One) /\ v = Weighs(out, One)
  BY <1>3, <1>8, <1>12, <1>14, PartTypes, WeighsType, OneIsWeights
<1>20. x + u = y + (u + 1)
  BY <1>3, <1>8, <1>12, <1>17, <1>19 DEF BoxLoad
<1>21. y + (v + 1) = z + v
  BY <1>10, <1>12, <1>14, <1>18, <1>19 DEF BoxLoad
<1>22. z = x
  BY <1>19, <1>20, <1>21
<1>23. BoxLoad(boxes'[b]) + Lying(litter', One) = BoxLoad(boxes[b]) + Lying(litter, One)
  BY <1>2, <1>5, <1>16, <1>19, <1>22
<1> QED BY <1>1, <1>5, <1>16, <1>23, BoxKeeps
-----------------------------------------------------------------------------

LEMMA CloseContainerKeeps ==
    ASSUME BoxesSound, NEW p \in Players, CloseContainer(p)
    PROVE  BoxesKeep
BY CloseBoxKeeps DEF CloseContainer

LEMMA WindowsNextKeeps ==
    ASSUME BoxesSound, WindowsNext
    PROVE  BoxesKeep
<1>1. ASSUME NEW p \in Players, NEW b \in Boxes, Open(p, b) PROVE BoxesKeep
  BY <1>1, OpenKeeps
<1>2. ASSUME NEW p \in Players, NEW slot \in SharedSlots, ClickShared(p, slot) PROVE BoxesKeep
  BY <1>2, ClickSharedKeeps
<1>3. ASSUME NEW p \in Players, NEW slot \in SharedSlots, ShiftClick(p, slot) PROVE BoxesKeep
  BY <1>3, ShiftClickKeeps
<1>4. ASSUME NEW p \in Players, TakeFromFurnace(p) PROVE BoxesKeep
  BY <1>4, TakeFromFurnaceKeeps
<1>5. ASSUME NEW p \in Players, ClickOutsideBox(p) PROVE BoxesKeep
  BY <1>5, ClickOutsideBoxKeeps
<1>6. ASSUME NEW p \in Players, CloseContainer(p) PROVE BoxesKeep
  BY <1>6, CloseContainerKeeps
<1>7. ASSUME NEW p \in Players, NEW slot \in BagBar, ThrowItem(p, slot) PROVE BoxesKeep
  BY <1>7, ThrowItemKeeps
<1>8. ASSUME NEW b \in Boxes, BreakBox(b) PROVE BoxesKeep
  BY <1>8, BreakBoxKeeps
<1>9. ASSUME NEW p \in Players, Walk(p) PROVE BoxesKeep
  BY <1>9, QuietKeeps DEF Walk
<1>10. CASE StartTracker
  BY <1>10, QuietKeeps DEF StartTracker
<1>11. ASSUME NEW p \in Players, Track(p) PROVE BoxesKeep
  BY <1>11, TrackKeeps
<1>12. ASSUME NEW b \in Boxes, Smelt(b) PROVE BoxesKeep
  BY <1>12, SmeltKeeps
<1>13. ASSUME NEW p \in Players, PickupLitter(p) PROVE BoxesKeep
  BY <1>13, PickupLitterKeeps
<1>14. CASE EndTick
  BY <1>14, QuietKeeps DEF EndTick
<1> QED BY <1>1, <1>2, <1>3, <1>4, <1>5, <1>6, <1>7, <1>8, <1>9, <1>10, <1>11, <1>12, <1>13, <1>14
        DEF WindowsNext

\* A write slips in no other way than those named.
LEMMA SlipsOfWriteAreSlips ==
    ASSUME NEW p, NEW w
    PROVE  SlipsOfWrite(p, w) \subseteq Slips
<1>1. CASE w.box \notin alive
  BY <1>1 DEF SlipsOfWrite, Slips
<1>2. CASE w.box \in alive /\ IsStale(p, w)
  BY <1>2 DEF SlipsOfWrite, Slips
<1>3. CASE w.box \in alive /\ ~IsStale(p, w)
  BY <1>3 DEF SlipsOfWrite
<1> QED BY <1>1, <1>2, <1>3

\* What is not items: who is near, what is alive, where the tick is, and what went wrong so far.
LEMMA ScheduleKept ==
    ASSUME Schedule, WindowsNext
    PROVE  Schedule'
<1>1. ASSUME slips' = slips \/ slips' \subseteq Slips, alive' = alive, near' = near,
             phase' = phase, toTrack' = toTrack
      PROVE  Schedule'
  BY <1>1 DEF Schedule
<1>2. ASSUME NEW p \in Players, Destroy(p, windows[p])
      PROVE  slips' \subseteq Slips
  <2>1. slips' = slips \/ slips' = slips \cup SlipsOfWrite(p, windows[p])
    BY <1>2 DEF Destroy, WriteBack
  <2> QED BY <2>1, SlipsOfWriteAreSlips DEF Schedule
<1>3. ASSUME NEW p \in Players, NEW b \in Boxes, Open(p, b) PROVE Schedule'
  <2>1. \/ slips' = slips \cup SlipsOfWrite(p, windows[p])
                          \cup (IF windows[p].cursor = Empty THEN {} ELSE {CursorLost})
        \/ slips' = IF windows[p].cursor = Empty THEN slips ELSE slips \cup {CursorLost}
        \/ slips' = slips
    BY <1>3 DEF Open
  <2>2. slips' \subseteq Slips
    BY <2>1, SlipsOfWriteAreSlips DEF Schedule, Slips
  <2> QED BY <1>1, <1>3, <2>2 DEF Open
<1>4. ASSUME NEW p \in Players, NEW slot \in SharedSlots, ClickShared(p, slot) PROVE Schedule'
  <2>1. slips' = slips \cup SlipsOfWrite(p, windows[p])
    BY <1>4 DEF ClickShared, WriteBack
  <2>2. slips' \subseteq Slips
    BY <2>1, SlipsOfWriteAreSlips DEF Schedule
  <2> QED BY <1>1, <1>4, <2>2 DEF ClickShared
<1>5. ASSUME NEW p \in Players, NEW slot \in SharedSlots, ShiftClick(p, slot) PROVE Schedule'
  <2>1. slips' \subseteq slips \cup {DeadBox, StaleCopy}
    BY <1>5 DEF ShiftClick
  <2>2. slips' \subseteq Slips
    BY <2>1 DEF Schedule, Slips
  <2> QED BY <1>1, <1>5, <2>2 DEF ShiftClick
<1>6. ASSUME NEW p \in Players, TakeFromFurnace(p) PROVE Schedule'
  <2>1. slips' \subseteq slips \cup {DeadBox}
    BY <1>6 DEF TakeFromFurnace
  <2>2. slips' \subseteq Slips
    BY <2>1 DEF Schedule, Slips
  <2> QED BY <1>1, <1>6, <2>2 DEF TakeFromFurnace
<1>7. ASSUME NEW p \in Players, ClickOutsideBox(p) PROVE Schedule'
  BY <1>1, <1>7 DEF ClickOutsideBox
<1>8. ASSUME NEW p \in Players, CloseContainer(p) PROVE Schedule'
  BY <1>1, <1>2, <1>8 DEF CloseContainer, CloseBox
<1>9. ASSUME NEW p \in Players, NEW slot \in BagBar, ThrowItem(p, slot) PROVE Schedule'
  BY <1>1, <1>9 DEF ThrowItem
<1>10. ASSUME NEW b \in Boxes, BreakBox(b) PROVE Schedule'
  BY <1>10 DEF BreakBox, Schedule
<1>11. ASSUME NEW p \in Players, Walk(p) PROVE Schedule'
  <2>1. near' \subseteq Players
    BY <1>11 DEF Walk, Schedule
  <2> QED BY <1>11, <2>1 DEF Walk, Schedule
<1>12. CASE StartTracker
  BY <1>12 DEF StartTracker, Schedule
<1>13. ASSUME NEW p \in Players, Track(p) PROVE Schedule'
  <2>1. /\ alive' = alive /\ near' = near /\ toTrack' \subseteq toTrack
        /\ phase' \in {"world", phase}
    BY <1>13 DEF Track
  <2>2. slips' \subseteq Slips
    <3>1. CloseBox(p) \/ slips' = slips
      BY <1>13 DEF Track
    <3> QED BY <1>2, <3>1 DEF CloseBox, Schedule
  <2> QED BY <2>1, <2>2 DEF Schedule
<1>14. ASSUME NEW b \in Boxes, Smelt(b) PROVE Schedule'
  BY <1>1, <1>14 DEF Smelt
<1>15. ASSUME NEW p \in Players, PickupLitter(p) PROVE Schedule'
  BY <1>1, <1>15 DEF PickupLitter
<1>16. CASE EndTick
  BY <1>16 DEF EndTick, Schedule
<1> QED BY <1>3, <1>4, <1>5, <1>6, <1>7, <1>8, <1>9, <1>10, <1>11, <1>12, <1>13, <1>14, <1>15, <1>16
        DEF WindowsNext
-----------------------------------------------------------------------------
(* The theorems. *)

LEMMA BoxCount ==
    ASSUME NEW box \in SoundBox
    PROVE  CountIn(box) = BoxLoad(box)
<1> DEFINE f == [s \in BoxSlots |-> box[s].count]
           g == [s \in BoxSlots |-> Weighs(box[s], One)]
<1>1. \A s \in BoxSlots : f[s] = g[s]
  BY WeighsOne DEF SoundBox
<1>2. CountIn(box) = SumFunctionOnSet(f, BoxSlots)
  BY DEF CountIn, SumFunction, SoundBox
<1>3. BoxLoad(box) = SumFunctionOnSet(g, BoxSlots)
  BY DEF BoxLoad, Load
<1> HIDE DEF f, g
<1> QED BY <1>1, <1>2, <1>3, SumSame, SharedFacts

LEMMA BagCount ==
    ASSUME NEW bag \in SoundBag
    PROVE  CountIn(bag) = BagLoad(bag)
<1> DEFINE f == [s \in BagSlots |-> bag[s].count]
           g == [s \in BagSlots |-> Weighs(bag[s], One)]
<1>1. \A s \in BagSlots : f[s] = g[s]
  BY WeighsOne DEF SoundBag
<1>2. CountIn(bag) = SumFunctionOnSet(f, BagSlots)
  BY DEF CountIn, SumFunction, SoundBag
<1>3. BagLoad(bag) = SumFunctionOnSet(g, BagSlots)
  BY DEF BagLoad, Load
<1> HIDE DEF f, g
<1> QED BY <1>1, <1>2, <1>3, SumSame, SharedFacts

LEMMA HeldCount ==
    ASSUME NEW w \in SoundWindow \cup {NoWindow}
    PROVE  Held(w) = IF w = NoWindow THEN 0 ELSE w.cursor.count
<1>1. CASE w = NoWindow
  BY <1>1 DEF Held
<1>2. CASE w # NoWindow
  <2>1. w.cursor \in SoundStacks
    BY <1>2 DEF SoundWindow
  <2> QED BY <1>2, <2>1, WeighsOne DEF Held
<1> QED BY <1>1, <1>2

LEMMA LitterCount ==
    ASSUME NEW li \in [Kinds -> Nat]
    PROVE  SumFunction(li) = Lying(li, One)
<1> DEFINE g == [k \in Kinds |-> li[k] * One[k]]
<1>1. \A k \in Kinds : li[k] = g[k]
  BY DEF One
<1>2. SumFunction(li) = SumFunctionOnSet(li, Kinds)
  BY DEF SumFunction
<1>3. Lying(li, One) = SumFunctionOnSet(g, Kinds)
  BY DEF Lying
<1> HIDE DEF g
<1> QED BY <1>1, <1>2, <1>3, SumSame, StacksAssumption

LEMMA BoxesCount ==
    ASSUME NEW bx \in [Boxes -> SoundBox]
    PROVE  SumFunction([b \in Boxes |-> CountIn(bx[b])]) = InBoxes(bx)
<1> DEFINE f == [b \in Boxes |-> CountIn(bx[b])]
           g == [b \in Boxes |-> BoxLoad(bx[b])]
<1>1. \A b \in Boxes : f[b] = g[b]
  BY BoxCount
<1>2. SumFunction(f) = SumFunctionOnSet(f, Boxes)
  BY DEF SumFunction
<1>3. InBoxes(bx) = SumFunctionOnSet(g, Boxes)
  BY DEF InBoxes
<1> HIDE DEF f, g
<1>4. SumFunction(f) = InBoxes(bx)
  BY <1>1, <1>2, <1>3, SumSame, WindowsAssumption
<1> QED BY <1>4 DEF f

\* ItemCount, in terms of loads.
LEMMA ItemCountIsItems ==
    ASSUME BoxesSound
    PROVE  ItemCount = Items(boxes, bags, windows, litter)
<1> DEFINE f == [p \in Players |-> CountIn(bags[p])
                                     + IF windows[p] = NoWindow THEN 0 ELSE windows[p].cursor.count]
           g == [p \in Players |-> BagLoad(bags[p]) + Held(windows[p])]
<1>1. /\ boxes \in [Boxes -> SoundBox] /\ bags \in [Players -> SoundBag]
      /\ windows \in [Players -> SoundWindow \cup {NoWindow}] /\ litter \in [Kinds -> Nat]
  BY DEF BoxesSound, BoxesTyped
<1>2. ASSUME NEW p \in Players PROVE f[p] = g[p]
  <2>1. CountIn(bags[p]) = BagLoad(bags[p])
    BY <1>1, BagCount
  <2>2. Held(windows[p]) = IF windows[p] = NoWindow THEN 0 ELSE windows[p].cursor.count
    BY <1>1, HeldCount
  <2> QED BY <2>1, <2>2
<1>3. SumFunction(f) = SumFunctionOnSet(f, Players)
  BY DEF SumFunction
<1>4. InHands(bags, windows) = SumFunctionOnSet(g, Players)
  BY DEF InHands
<1>5. ItemCount = SumFunction([b \in Boxes |-> CountIn(boxes[b])]) + SumFunction(f) + SumFunction(litter)
  BY DEF ItemCount
<1> HIDE DEF f, g
<1>6. SumFunction(f) = InHands(bags, windows)
  BY <1>2, <1>3, <1>4, SumSame, WindowsAssumption
<1> QED BY <1>1, <1>5, <1>6, BoxesCount, LitterCount DEF Items

StartCount == SumFunction([b \in Boxes |-> CountIn(StartBoxes[b])])
              + SumFunction([p \in Players |-> CountIn(StartBags[p])])

LEMMA StartFacts ==
    /\ StartBoxes \in [Boxes -> SoundBox] /\ StartBags \in [Players -> SoundBag]
    /\ StartSlots \in [Slots -> SoundStacks]
BY WindowsAssumption, PlayerWindowAssumption DEF SoundBox, SoundBag, SoundStacks

LEMMA NoneLying ==
    ASSUME NEW w \in Weights
    PROVE  Lying([k \in Kinds |-> 0], w) = 0
<1> DEFINE f == [k \in Kinds |-> [j \in Kinds |-> 0][k] * w[k]]
<1>1. \A k \in Kinds : f[k] = 0
  BY DEF Weights
<1>2. Lying([k \in Kinds |-> 0], w) = SumFunctionOnSet(f, Kinds)
  BY DEF Lying
<1> HIDE DEF f
<1> QED BY <1>1, <1>2, SumZero, StacksAssumption

LEMMA StartItems ==
    Items(StartBoxes, StartBags, [p \in Players |-> NoWindow], [k \in Kinds |-> 0]) = StartCount
<1> DEFINE wn == [p \in Players |-> NoWindow]
           f == [p \in Players |-> CountIn(StartBags[p])]
           g == [p \in Players |-> BagLoad(StartBags[p]) + Held(wn[p])]
<1>1. ASSUME NEW p \in Players PROVE f[p] = g[p]
  <2>1. PICK n \in Nat : n = BagLoad(StartBags[p])
    BY StartFacts, PartTypes
  <2>2. CountIn(StartBags[p]) = n
    BY <2>1, StartFacts, BagCount
  <2>3. Held(wn[p]) = 0
    BY DEF Held
  <2> QED BY <2>1, <2>2, <2>3
<1>2. SumFunction(f) = SumFunctionOnSet(f, Players)
  BY DEF SumFunction
<1>3. InHands(StartBags, wn) = SumFunctionOnSet(g, Players)
  BY DEF InHands
<1>4. wn \in [Players -> SoundWindow \cup {NoWindow}]
  OBVIOUS
<1> HIDE DEF f, g, wn
<1>5. SumFunction(f) = InHands(StartBags, wn)
  BY <1>1, <1>2, <1>3, SumSame, WindowsAssumption
<1>6. SumFunction([b \in Boxes |-> CountIn(StartBoxes[b])]) = InBoxes(StartBoxes)
  BY StartFacts, BoxesCount
<1>7. StartCount = InBoxes(StartBoxes) + InHands(StartBags, wn)
  BY <1>5, <1>6 DEF StartCount, f
<1>8. InBoxes(StartBoxes) \in Nat /\ InHands(StartBags, wn) \in Nat
  BY <1>4, StartFacts, InBoxesType, InHandsType
<1>9. Lying([k \in Kinds |-> 0], One) = 0
  BY NoneLying, OneIsWeights
<1> QED BY <1>7, <1>8, <1>9 DEF Items, wn

\* The inductive invariants: sound stacks everywhere, and as long as nothing went wrong, as much as
\* at the start.
WindowInv ==
    /\ WindowTyped
    /\ lapses = {} => Total(slots, cursor, ground) = Load(StartSlots, Kept, Worth)

BoxesInv ==
    /\ BoxesSound
    /\ Schedule
    /\ slips = {} => Items(boxes, bags, windows, litter) = StartCount

\* Each action keeps the worth, so their sequences do.
LEMMA WindowInvHolds == PlayersSpec => []WindowInv
<1>1. PlayersInit => WindowInv
  <2> SUFFICES ASSUME PlayersInit PROVE WindowInv
    OBVIOUS
  <2>1. /\ slots = StartSlots /\ cursor = Empty
        /\ ground = [k \in Kinds |-> 0] /\ lapses = {}
    BY DEF PlayersInit, PlayerWindowInit
  <2>2. WindowTyped
    BY <2>1, StartFacts, EmptyFacts DEF WindowTyped, Typed
  <2>3. PICK n \in Nat : n = Load(StartSlots, Kept, Worth)
    <3>1. \A s \in Kept : StartSlots[s] \in SoundStacks
      BY StartFacts, SlotFacts
    <3> QED BY <3>1, SlotFacts, LoadType, WorthIsWeights
  <2>4. Weighs(cursor, Worth) = 0 /\ Lying(ground, Worth) = 0
    BY <2>1, EmptyFacts, NoneLying, WorthIsWeights
  <2>5. Total(slots, cursor, ground) = n
    BY <2>1, <2>3, <2>4 DEF Total
  <2> QED BY <2>2, <2>3, <2>5 DEF WindowInv
<1>2. WindowInv /\ [PlayersNext]_playersVars => WindowInv'
  <2> SUFFICES ASSUME WindowInv, [PlayersNext]_playersVars PROVE WindowInv'
    OBVIOUS
  <2>1. CASE PlayerWindowNext
    <3>1. WindowKeeps
      BY <2>1, WindowNextKeeps DEF WindowInv
    <3> QED BY <3>1 DEF WindowKeeps, WindowInv, WindowTyped
  <2>2. CASE UNCHANGED windowVars
    <3>1. slots' = slots /\ cursor' = cursor /\ ground' = ground /\ lapses' = lapses
      BY <2>2 DEF windowVars
    <3> QED BY <3>1 DEF WindowInv, WindowTyped
  <2> QED BY <2>1, <2>2 DEF PlayersNext, playersVars
<1> QED BY <1>1, <1>2, PTL DEF PlayersSpec

\* Each action keeps the items, so their interleavings do.
LEMMA BoxesInvHolds == PlayersSpec => []BoxesInv
<1>1. PlayersInit => BoxesInv
  <2> SUFFICES ASSUME PlayersInit PROVE BoxesInv
    OBVIOUS
  <2>1. /\ boxes = StartBoxes /\ alive = Boxes /\ bags = StartBags /\ near = Players
        /\ windows = [p \in Players |-> NoWindow] /\ litter = [k \in Kinds |-> 0]
        /\ phase = "packets" /\ toTrack = {} /\ slips = {}
    BY DEF PlayersInit, WindowsInit
  <2>2. BoxesSound
    BY <2>1, StartFacts DEF BoxesSound, BoxesTyped
  <2>3. Schedule
    BY <2>1 DEF Schedule
  <2>4. Items(boxes, bags, windows, litter) = StartCount
    BY <2>1, StartItems
  <2> QED BY <2>2, <2>3, <2>4 DEF BoxesInv
<1>2. BoxesInv /\ [PlayersNext]_playersVars => BoxesInv'
  <2> SUFFICES ASSUME BoxesInv, [PlayersNext]_playersVars PROVE BoxesInv'
    OBVIOUS
  <2>1. CASE WindowsNext
    <3>1. BoxesKeep
      BY <2>1, WindowsNextKeeps DEF BoxesInv
    <3>2. Schedule'
      BY <2>1, ScheduleKept DEF BoxesInv
    <3> QED BY <3>1, <3>2 DEF BoxesKeep, BoxesInv, BoxesSound
  <2>2. CASE UNCHANGED boxVars
    <3>1. /\ boxes' = boxes /\ alive' = alive /\ bags' = bags /\ near' = near /\ windows' = windows
          /\ litter' = litter /\ phase' = phase /\ toTrack' = toTrack /\ slips' = slips
      BY <2>2 DEF boxVars
    <3>2. BoxesSound' /\ Schedule'
      BY <3>1 DEF BoxesInv, BoxesSound, Schedule
    <3> QED BY <3>1, <3>2 DEF BoxesInv
  <2> QED BY <2>1, <2>2 DEF PlayersNext, playersVars
<1> QED BY <1>1, <1>2, PTL DEF PlayersSpec

\* Whatever players do with their inventories and with what they look into, every slot and every
\* cursor holds nothing or between one item and a full stack of a kind that exists.
THEOREM PlayersTyped == PlayersSpec => []PlayersTypeOK
<1>1. WindowInv => PlayerWindowTypeOK /\ StacksAreSound
  <2> SUFFICES ASSUME WindowInv PROVE PlayerWindowTypeOK /\ StacksAreSound
    OBVIOUS
  <2>1. /\ slots \in [Slots -> SoundStacks] /\ cursor \in SoundStacks /\ ground \in [Kinds -> Nat]
        /\ lapses \subseteq Lapses
    BY DEF WindowInv, WindowTyped, Typed
  <2>2. PlayerWindowTypeOK
    BY <2>1 DEF PlayerWindowTypeOK, SoundStacks
  <2>3. StacksAreSound
    BY <2>1 DEF StacksAreSound, SoundStacks
  <2> QED BY <2>2, <2>3
<1>2. BoxesInv => WindowsTypeOK
  <2> SUFFICES ASSUME BoxesInv PROVE WindowsTypeOK
    OBVIOUS
  <2>1. SoundStacks \subseteq Stack
    BY DEF SoundStacks
  <2>2. /\ SoundBox \subseteq [BoxSlots -> Stack] /\ SoundBag \subseteq [BagSlots -> Stack]
        /\ SoundWindow \subseteq Window
    BY <2>1 DEF SoundBox, SoundBag, SoundWindow, SoundShared, Window
  <2>3. /\ boxes \in [Boxes -> SoundBox] /\ bags \in [Players -> SoundBag]
        /\ windows \in [Players -> SoundWindow \cup {NoWindow}] /\ litter \in [Kinds -> Nat]
    BY DEF BoxesInv, BoxesSound, BoxesTyped
  <2>4. boxes \in [Boxes -> [BoxSlots -> Stack]] /\ bags \in [Players -> [BagSlots -> Stack]]
    BY <2>2, <2>3
  <2>5. windows \in [Players -> Window \cup {NoWindow}]
    BY <2>2, <2>3
  <2>6. /\ alive \subseteq Boxes /\ near \subseteq Players /\ toTrack \subseteq Players
        /\ phase \in {"packets", "tracker", "world"} /\ slips \subseteq {StaleCopy, DeadBox, CursorLost}
    BY DEF BoxesInv, Schedule, Slips
  <2> QED BY <2>3, <2>4, <2>5, <2>6 DEF WindowsTypeOK
<1> QED BY <1>1, <1>2, WindowInvHolds, BoxesInvHolds, PTL DEF PlayersTypeOK

\* Crafts, clicks, shift-clicks, drops, pickups, deaths and logins, closed and broken boxes, smelting
\* and the inventory tracker neither make nor destroy an item, but in the ways that lapses and slips name.
THEOREM NothingLost == PlayersSpec => []NothingIsLost
<1>1. WindowInv => WorthIsKept
  <2>1. WorthIn(StartSlots, Slots \ {ResultSlot}) = Load(StartSlots, Kept, Worth)
    BY DEF WorthIn, SumFunction, Load, Kept, WorthOf, Weighs
  <2> QED BY <2>1, TotalIsWorth DEF WindowInv, WorthIsKept
<1>2. BoxesInv => ItemsAreKept
  BY ItemCountIsItems DEF BoxesInv, ItemsAreKept, StartCount
<1> QED BY <1>1, <1>2, WindowInvHolds, BoxesInvHolds, PTL DEF NothingIsLost
=============================================================================
