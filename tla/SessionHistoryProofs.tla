------------------------ MODULE SessionHistoryProofs ------------------------
(***************************************************************************)
(* Proofs about SessionHistory: that conversations only grow, that the     *)
(* main line's memory is what the history would restore, and that the      *)
(* agent knows the turns and the last analysis of the conversation the     *)
(* user sees, for every limit and any number of turns and forks.           *)
(***************************************************************************)
EXTENDS SessionHistory, FiniteSetTheorems, SequenceTheorems, TLAPS

-----------------------------------------------------------------------------
(* The inductive invariant. *)

Known == fromMain \cup {Main}

(* In a branch the numbers ascend with the ids.                            *)
NumbersAscend ==
    \A i, j \in 1 .. Len(messages) :
        i < j /\ messages[i].branch = messages[j].branch => messages[i].seq < messages[j].seq

(* Nothing is of a turn that has not begun, or of an unknown branch.       *)
SoFar ==
    /\ \A i \in 1 .. Len(messages) :
          messages[i].turn <= turns /\ messages[i].branch \in DOMAIN path
    /\ \A b \in DOMAIN path : \A t \in OnPath(b) : t <= turns
    /\ \A k \in 1 .. Len(checkpoints) : checkpoints[k].cp.turn <= turns
    /\ \A t \in analysed : t <= turns

(* The turn under way is of its branch only, and not yet analysed.         *)
UnderWay ==
    /\ pc # "idle" => /\ turns \in OnPath(branch)
                      /\ \A b \in DOMAIN path \ {branch} : turns \notin OnPath(b)
    /\ pc \in {"said", "thinking", "chained"} => turns \notin analysed
    /\ pc \in {"thinking", "chained"} => branch \in DOMAIN memory
    /\ pc = "chained" => Len(cp) = 1 /\ cp[1].turn = turns
    /\ pc # "chained" => cp = None

(* On the main line the turns ascend with the numbers.                     *)
IsQuestion(i) == i \in Rows(Main) /\ messages[i].role = "user"

MainLineInOrder ==
    \A i, j \in Rows(Main) : i < j /\ IsQuestion(j) => messages[i].turn < messages[j].turn

(* A checkpoint of the main line is numbered between the question of its   *)
(* turn and the next.                                                      *)
CheckpointsPlaced ==
    \A k \in 1 .. Len(checkpoints) :
        /\ checkpoints[k].branch \in DOMAIN path
        /\ checkpoints[k].branch = Main =>
              /\ checkpoints[k].lastSeq = 0 \/ \E i \in Rows(Main) : checkpoints[k].lastSeq = messages[i].seq
              /\ \A i \in 1 .. Len(messages) : IsQuestion(i) =>
                    (messages[i].turn <= checkpoints[k].cp.turn <=> messages[i].seq <= checkpoints[k].lastSeq)

(* What is edited, and what a branch of the main line was forked at, are   *)
(* questions.                                                              *)
ForkPoints ==
    /\ edit # None => \E i \in 1 .. Len(messages) : edit[1] = messages[i] /\ messages[i].role = "user"
    /\ \A b \in fromMain : \E i \in 1 .. Len(messages) : IsQuestion(i) /\ messages[i].seq = b[1]

(* The table holds of a conversation's turns, and of their analyses, all.  *)
TableFollowsPath ==
    /\ \A k \in 1 .. Len(checkpoints) :
          checkpoints[k].cp.analysis => checkpoints[k].cp.turn \in analysed
    /\ \A b \in Known :
          /\ \A k \in 1 .. Len(checkpoints) :
                InChain(checkpoints[k], b) => checkpoints[k].cp.turn \in OnPath(b)
          /\ \A t \in analysed \cap OnPath(b) : \E k \in 1 .. Len(checkpoints) :
                /\ InChain(checkpoints[k], b)
                /\ checkpoints[k].cp.analysis /\ checkpoints[k].cp.turn = t

(* The chain of a branch counts once it was restored or begun.             *)
Ready(b) == b \in DOMAIN memory /\ (memory[b] # << >> \/ (b = branch /\ pc = "thinking"))
Pending(b) == IF b = branch THEN cp ELSE << >>

MemoryFollowsPath ==
    \A b \in Known \cap DOMAIN memory :
        /\ Remembered(b) \subseteq OnPath(b)
        /\ Ready(b) => AnalysesIn(memory[b]) = (analysed \cap OnPath(b)) \cup AnalysesIn(Pending(b))

MemoryFollowsTable ==
    Ready(Main) => memory[Main] = IF pc = "chained" /\ branch = Main
                                  THEN Compact(Listed(Main) \o cp) ELSE Listed(Main)
HistoryInv ==
    /\ TypeOK /\ NumbersAscend /\ SoFar /\ UnderWay /\ MainLineInOrder
    /\ CheckpointsPlaced /\ ForkPoints /\ TableFollowsPath /\ MemoryFollowsPath /\ MemoryFollowsTable

-----------------------------------------------------------------------------
(* Ranks: what Picked returns, without an induction. *)

LEMMA RankType ==
    ASSUME NEW K, IsFiniteSet(K), K \subseteq Nat, NEW i \in Nat
    PROVE  /\ Cardinality(K) \in Nat /\ RankIn(K, i) \in Nat /\ RankIn(K, i) <= Cardinality(K)
           /\ i \in K => RankIn(K, i) \in 1 .. Cardinality(K)
<1> DEFINE low == {h \in K : h <= i}
<1>1. IsFiniteSet(low) /\ Cardinality(low) \in Nat /\ Cardinality(low) <= Cardinality(K)
      /\ Cardinality(K) \in Nat
  <2>1. low \in SUBSET K
    OBVIOUS
  <2> HIDE DEF low
  <2> QED  BY <2>1, FS_Subset, FS_CardinalityType
<1>2. i \in K => low # {}
  OBVIOUS
<1>3. low # {} => Cardinality(low) # 0
  <2> HIDE DEF low
  <2> QED  BY <1>1, FS_EmptySet
<1>4. RankIn(K, i) = Cardinality(low)
  BY DEF RankIn
<1> HIDE DEF low
<1> QED  BY <1>1, <1>2, <1>3, <1>4

LEMMA RankGrows ==
    ASSUME NEW K, IsFiniteSet(K), K \subseteq Nat, NEW i \in K, NEW j \in K, i < j
    PROVE  RankIn(K, i) < RankIn(K, j)
<1> DEFINE low  == {h \in K : h <= i}
           high == {h \in K : h <= j}
<1>1. low \in SUBSET high /\ low # high /\ high \in SUBSET K
  <2>1. i \in Nat /\ j \in Nat /\ \A h \in K : h \in Nat
    OBVIOUS
  <2>2. \A h \in K : h <= i => h <= j
    BY <2>1
  <2>3. j \in high /\ j \notin low
    BY <2>1
  <2> QED  BY <2>2, <2>3
<1>2. RankIn(K, i) = Cardinality(low) /\ RankIn(K, j) = Cardinality(high)
  BY DEF RankIn
<1> HIDE DEF low, high
<1>3. IsFiniteSet(high) /\ Cardinality(high) \in Nat
  BY <1>1, FS_Subset, FS_CardinalityType
<1>4. /\ Cardinality(low) <= Cardinality(high) /\ Cardinality(low) # Cardinality(high)
      /\ IsFiniteSet(low)
  BY <1>1, <1>3, FS_Subset
<1>5. Cardinality(low) \in Nat
  BY <1>4, FS_CardinalityType
<1> QED  BY <1>2, <1>3, <1>4, <1>5

(* Every place is somebody's. *)
LEMMA RankTaken ==
    ASSUME NEW K, IsFiniteSet(K), K \subseteq Nat, NEW n \in 1 .. Cardinality(K)
    PROVE  \E i \in K : RankIn(K, i) = n
<1> DEFINE f == [i \in K |-> RankIn(K, i)]
           T == 1 .. Cardinality(K)
<1>1. Cardinality(K) \in Nat
  BY FS_CardinalityType
<1>2. IsFiniteSet(T) /\ Cardinality(T) = Cardinality(K)
  <2>1. IsFiniteSet(T) /\ Cardinality(T) = IF 1 > Cardinality(K) THEN 0 ELSE Cardinality(K) - 1 + 1
    BY <1>1, FS_Interval
  <2> QED  BY <1>1, <2>1
<1>3. \A i \in K : f[i] \in T
  BY RankType
<1>4. \A i, j \in K : i # j => f[i] # f[j]
  <2> SUFFICES ASSUME NEW i \in K, NEW j \in K, i < j PROVE RankIn(K, i) # RankIn(K, j)
    OBVIOUS
  <2>1. RankIn(K, i) < RankIn(K, j)
    BY RankGrows
  <2>2. RankIn(K, i) \in Nat /\ RankIn(K, j) \in Nat
    <3>1. i \in Nat /\ j \in Nat
      OBVIOUS
    <3> QED  BY <3>1, RankType
  <2> QED  BY <2>1, <2>2
<1>5. f \in Injection(K, T)
  <2> HIDE DEF T
  <2>1. f \in [K -> T]
    BY <1>3
  <2> HIDE DEF f
  <2> QED  BY <1>4, <2>1 DEF Injection, IsInjective
<1>6. f \in Surjection(K, T)
  <2> HIDE DEF f, T
  <2> QED  BY <1>2, <1>5, FS_Injection
<1>7. \E i \in K : f[i] = n
  <2>1. n \in T
    OBVIOUS
  <2> HIDE DEF f, T
  <2> QED  BY <1>6, <2>1 DEF Surjection
<1> QED  BY <1>7

LEMMA RankOnce ==
    ASSUME NEW K, IsFiniteSet(K), K \subseteq Nat, NEW i \in K, NEW j \in K,
           RankIn(K, i) = RankIn(K, j)
    PROVE  i = j
<1>0. i \in Nat /\ j \in Nat
  OBVIOUS
<1>1. RankIn(K, i) \in Nat
  BY <1>0, RankType
<1>2. i < j \/ j < i \/ i = j
  BY <1>0
<1>3. ASSUME i < j PROVE FALSE
  <2>1. RankIn(K, i) < RankIn(K, j)
    BY <1>3, RankGrows
  <2> QED  BY <1>1, <2>1
<1>4. ASSUME j < i PROVE FALSE
  <2>1. RankIn(K, j) < RankIn(K, i)
    BY <1>4, RankGrows
  <2> QED  BY <1>1, <2>1
<1> QED  BY <1>2, <1>3, <1>4

(* The element at a picked place keeps its rank. *)
LEMMA PickedAt ==
    ASSUME NEW s, NEW K, IsFiniteSet(K), K \subseteq Nat
    PROVE  /\ DOMAIN Picked(s, K) = 1 .. Cardinality(K)
           /\ \A i \in K : Picked(s, K)[RankIn(K, i)] = s[i]
<1>1. DOMAIN Picked(s, K) = 1 .. Cardinality(K)
  BY DEF Picked
<1>2. ASSUME NEW i \in K PROVE Picked(s, K)[RankIn(K, i)] = s[i]
  <2> DEFINE r == RankIn(K, i)
  <2>1. r \in 1 .. Cardinality(K)
    BY RankType
  <2>2. \A h \in K : RankIn(K, h) = r => h = i
    BY RankOnce
  <2>3. (CHOOSE h \in K : RankIn(K, h) = r) = i
    <3>1. i \in K /\ RankIn(K, i) = r
      OBVIOUS
    <3> HIDE DEF r
    <3> QED  BY <2>2, <3>1
  <2> HIDE DEF r
  <2>4. Picked(s, K)[r] = s[CHOOSE h \in K : RankIn(K, h) = r]
    BY <2>1 DEF Picked
  <2> QED  BY <2>3, <2>4 DEF r
<1> QED  BY <1>1, <1>2

(* What was picked, was somewhere; and there are as many as places.        *)
Elements(s, K, S) == \A i \in K : s[i] \in S
Comes(p, s, K)    == \A n \in 1 .. Cardinality(K) : \E i \in K : RankIn(K, i) = n /\ p[n] = s[i]

LEMMA PickedFrom ==
    ASSUME NEW s, NEW K, IsFiniteSet(K), K \subseteq Nat, NEW S, Elements(s, K, S)
    PROVE  /\ Picked(s, K) \in Seq(S) /\ Len(Picked(s, K)) = Cardinality(K)
           /\ Cardinality(K) \in Nat /\ Comes(Picked(s, K), s, K)
<1> DEFINE p == Picked(s, K)
           c == Cardinality(K)
<1>1. c \in Nat
  BY FS_CardinalityType
<1>2. DOMAIN p = 1 .. c /\ p = [n \in 1 .. c |-> p[n]]
  BY DEF Picked
<1>3. \A n \in 1 .. c : \E i \in K : RankIn(K, i) = n /\ p[n] = s[i]
  <2> TAKE n \in 1 .. c
  <2>1. PICK i \in K : RankIn(K, i) = n
    BY RankTaken
  <2>2. p[n] = s[i]
    BY <2>1, PickedAt
  <2> QED  BY <2>1, <2>2
<1> HIDE DEF p, c
<1>4. \A n \in 1 .. c : p[n] \in S
  BY <1>3 DEF Elements
<1>5. p \in Seq(S) /\ Len(p) = c
  BY <1>1, <1>2, <1>4
<1>6. Comes(p, s, K)
  BY <1>3 DEF Comes, c
<1> QED  BY <1>1, <1>5, <1>6 DEF p, c

(* Picking is of the elements picked only.                                 *)
LEMMA PickedSame ==
    ASSUME NEW s, NEW t, NEW K, IsFiniteSet(K), K \subseteq Nat, \A i \in K : s[i] = t[i]
    PROVE  Picked(s, K) = Picked(t, K)
<1> DEFINE p == Picked(s, K)
           q == Picked(t, K)
           c == Cardinality(K)
<1>1. p = [n \in 1 .. c |-> p[n]] /\ q = [n \in 1 .. c |-> q[n]]
  BY DEF Picked
<1>2. ASSUME NEW n \in 1 .. c PROVE p[n] = q[n]
  <2>1. PICK i \in K : RankIn(K, i) = n
    BY RankTaken
  <2>2. p[n] = s[i] /\ q[n] = t[i]
    BY <2>1, PickedAt
  <2> QED  BY <2>2
<1> HIDE DEF p, q, c
<1>3. p = q
  BY <1>1, <1>2
<1> QED  BY <1>3 DEF p, q

LEMMA IntervalPlaces ==
    ASSUME NEW n \in Nat, NEW K, K \subseteq 1 .. n
    PROVE  IsFiniteSet(K) /\ K \subseteq Nat /\ Cardinality(K) \in Nat /\ Cardinality(K) <= n
           /\ Cardinality(1 .. n) = n
<1>1. IsFiniteSet(1 .. n) /\ Cardinality(1 .. n) = n
  <2>1. IsFiniteSet(1 .. n) /\ Cardinality(1 .. n) = IF 1 > n THEN 0 ELSE n - 1 + 1
    BY FS_Interval
  <2> QED  BY <2>1
<1>2. IsFiniteSet(K) /\ Cardinality(K) <= n
  BY <1>1, FS_Subset
<1>3. Cardinality(K) \in Nat
  BY <1>2, FS_CardinalityType
<1> QED  BY <1>1, <1>2, <1>3

(* Picking everything.                                                     *)
LEMMA PickedAll ==
    ASSUME NEW S, NEW s \in Seq(S)
    PROVE  Picked(s, 1 .. Len(s)) = s
<1> DEFINE K == 1 .. Len(s)
           p == Picked(s, K)
<1>1. Len(s) \in Nat /\ IsFiniteSet(K) /\ K \subseteq Nat /\ Cardinality(K) = Len(s)
  BY IntervalPlaces
<1>2. ASSUME NEW i \in K PROVE RankIn(K, i) = i
  <2>1. {h \in K : h <= i} = 1 .. i /\ i \in Nat
    OBVIOUS
  <2>2. Cardinality(1 .. i) = i
    BY <2>1, IntervalPlaces
  <2> HIDE DEF K
  <2> QED  BY <2>1, <2>2 DEF RankIn
<1>3. p = [n \in 1 .. Cardinality(K) |-> p[n]]
  BY DEF Picked
<1>4. ASSUME NEW n \in K PROVE p[n] = s[n]
  <2> HIDE DEF K
  <2>1. p[RankIn(K, n)] = s[n]
    BY <1>1, PickedAt
  <2> QED  BY <1>2, <2>1
<1>5. s = [n \in K |-> s[n]]
  OBVIOUS
<1>6. p = [n \in K |-> p[n]]
  BY <1>1, <1>3
<1> HIDE DEF p, K
<1>7. p = s
  BY <1>4, <1>5, <1>6
<1> QED  BY <1>7 DEF p, K

(* More places, all of them after the others: the rest stays as it was.    *)
Beginning(K, L) ==
    IsFiniteSet(L) /\ L \subseteq Nat \ {0} /\ \E z \in Nat : K = L \cap (1 .. z)
Agree(s, t, K) == \A i \in K : s[i] = t[i]

LEMMA PickedMore ==
    ASSUME NEW s, NEW t, NEW K, NEW L, Beginning(K, L), Agree(s, t, K)
    PROVE  \A n \in 1 .. Cardinality(K) : Picked(t, L)[n] = Picked(s, K)[n]
<1>0. PICK z \in Nat : K = L \cap (1 .. z)
  BY DEF Beginning
<1>1. /\ IsFiniteSet(K) /\ K \subseteq Nat /\ IsFiniteSet(L)
      /\ K \subseteq L /\ L \subseteq Nat
  <2>1. K \in SUBSET L
    BY <1>0
  <2>0. IsFiniteSet(L) /\ L \subseteq Nat
    BY DEF Beginning
  <2>2. IsFiniteSet(K)
    BY <2>0, <2>1, FS_Subset
  <2> QED  BY <2>0, <2>1, <2>2
<1>2. ASSUME NEW i \in K PROVE RankIn(K, i) = RankIn(L, i)
  <2>1. \A h \in L : h <= i => h \in K
    <3> SUFFICES ASSUME NEW h \in L, h <= i, h \notin K PROVE FALSE
      OBVIOUS
    <3>1. h \in Nat \ {0} /\ h \notin 1 .. z /\ i \in 1 .. z
      BY <1>0 DEF Beginning
    <3> QED  BY <3>1
  <2>2. {h \in K : h <= i} = {h \in L : h <= i}
    BY <1>1, <2>1
  <2> QED  BY <2>2 DEF RankIn
<1>3. ASSUME NEW n \in 1 .. Cardinality(K) PROVE Picked(t, L)[n] = Picked(s, K)[n]
  <2>1. PICK i \in K : RankIn(K, i) = n
    BY <1>1, RankTaken
  <2>2. Picked(s, K)[n] = s[i]
    BY <1>1, <2>1, PickedAt
  <2>3. i \in L /\ RankIn(L, i) = n
    BY <1>1, <1>2, <2>1
  <2>4. Picked(t, L)[n] = t[i]
    BY <1>1, <2>3, PickedAt
  <2> QED  BY <2>1, <2>2, <2>4 DEF Agree
<1> QED  BY <1>3

(* One more place, after the others.                                       *)
UpTo(K, z) == K \subseteq 1 .. z

LEMMA PickedAppend ==
    ASSUME NEW s, NEW t, NEW K, NEW z \in Nat, UpTo(K, z), NEW S,
           Elements(s, K, S), Agree(s, t, K), t[z + 1] \in S
    PROVE  Picked(t, K \cup {z + 1}) = Append(Picked(s, K), t[z + 1])
<1> DEFINE x == z + 1
           L == K \cup {x}
           p == Picked(s, K)
           q == Picked(t, L)
           c == Cardinality(K)
<1>0. IsFiniteSet(K) /\ K \subseteq Nat /\ K \subseteq 1 .. z
  <2>1. K \subseteq 1 .. z
    BY DEF UpTo
  <2> QED  BY <2>1, IntervalPlaces
<1>1. x \notin K /\ x \in L /\ x \in Nat /\ \A i \in L : i \in Nat \ {0} /\ i <= x
  <2>1. \A i \in K : i \in Nat \ {0} /\ i <= z
    BY <1>0
  <2>2. x \in Nat \ {0} /\ ~ (x <= z) /\ \A i \in Nat : i <= z => i <= x
    OBVIOUS
  <2>3. \A i \in L : i \in K \/ i = x
    OBVIOUS
  <2>4. x \in L
    OBVIOUS
  <2> HIDE DEF x, L
  <2> QED  BY <2>1, <2>2, <2>3, <2>4
<1>2. K = L \cap (1 .. z)
  <2>1. \A i \in K : i \in L /\ i \in 1 .. z
    BY <1>0
  <2>2. \A i \in L : i \in K \/ i = x
    OBVIOUS
  <2>3. x \notin 1 .. z
    OBVIOUS
  <2> HIDE DEF x, L
  <2> QED  BY <2>1, <2>2, <2>3
<1>3. c \in Nat /\ IsFiniteSet(L) /\ Cardinality(L) = c + 1
  <2>1. L = K \cup {x}
    OBVIOUS
  <2> HIDE DEF x, L
  <2> QED  BY <1>0, <1>1, <2>1, FS_CardinalityType, FS_AddElement
<1>4. p \in Seq(S) /\ Len(p) = c
  BY <1>0, PickedFrom
<1>5. q = [n \in 1 .. c + 1 |-> q[n]]
  BY <1>3 DEF Picked
<1>6. \A n \in 1 .. c : q[n] = p[n]
  <2> HIDE DEF L, x
  <2>1. Beginning(K, L)
    BY <1>1, <1>2, <1>3 DEF Beginning
  <2> QED  BY <2>1, PickedMore
<1>7. q[c + 1] = t[x]
  <2> HIDE DEF L, x
  <2>1. {h \in L : h <= x} = L
    BY <1>1
  <2>2. RankIn(L, x) = c + 1
    BY <1>3, <2>1 DEF RankIn
  <2>3. L \subseteq Nat
    BY <1>1
  <2>4. Picked(t, L)[RankIn(L, x)] = t[x]
    BY <1>1, <1>3, <2>3, PickedAt
  <2> QED  BY <2>2, <2>4
<1> DEFINE u == Append(p, t[x])
<1> HIDE DEF p, q, c, L, x
<1>8. u = [n \in 1 .. c + 1 |-> u[n]] /\ u[c + 1] = t[x] /\ \A n \in 1 .. c : u[n] = p[n]
  <2>1. t[x] \in S
    BY DEF x
  <2> QED  BY <1>3, <1>4, <2>1
<1> HIDE DEF u
<1>9. \A n \in 1 .. c + 1 : q[n] = u[n]
  <2>1. \A n \in 1 .. c + 1 : n \in 1 .. c \/ n = c + 1
    BY <1>3
  <2> QED  BY <1>6, <1>7, <1>8, <2>1
<1>10. q = u
  BY <1>5, <1>8, <1>9
<1> QED  BY <1>10 DEF q, p, u, L, x

-----------------------------------------------------------------------------
(* Picking from what was picked.                                           *)

RanksOf(K, A) == {RankIn(K, h) : h \in A}

LEMMA ImageSize ==
    ASSUME NEW K, IsFiniteSet(K), K \subseteq Nat, NEW A \in SUBSET K
    PROVE  /\ IsFiniteSet(RanksOf(K, A)) /\ Cardinality(RanksOf(K, A)) = Cardinality(A)
           /\ \A r \in RanksOf(K, A) : r \in 1 .. Cardinality(K)
<1> DEFINE J == RanksOf(K, A)
           f == [h \in A |-> RankIn(K, h)]
<1>1. IsFiniteSet(A)
  BY FS_Subset
<1>2. \A h \in A : f[h] \in J /\ f[h] = RankIn(K, h)
  BY DEF RanksOf
<1>3. \A r \in J : \E h \in A : r = f[h]
  BY DEF RanksOf
<1>4. \A h, g \in A : f[h] = f[g] => h = g
  <2> SUFFICES ASSUME NEW h \in A, NEW g \in A, f[h] = f[g] PROVE h = g
    OBVIOUS
  <2>1. h \in K /\ g \in K /\ RankIn(K, h) = RankIn(K, g)
    OBVIOUS
  <2> QED  BY <2>1, RankOnce
<1>5. f = [h \in A |-> f[h]]
  OBVIOUS
<1>6. \A r \in J : r \in 1 .. Cardinality(K)
  <2> SUFFICES ASSUME NEW h \in A PROVE RankIn(K, h) \in 1 .. Cardinality(K)
    BY <1>2, <1>3
  <2>1. h \in K /\ h \in Nat
    OBVIOUS
  <2> QED  BY <2>1, RankType
<1> HIDE DEF f, J
<1>7. f \in [A -> J]
  BY <1>2, <1>5
<1>8. f \in Surjection(A, J) /\ f \in Injection(A, J)
  BY <1>3, <1>4, <1>7 DEF Surjection, Injection, IsInjective
<1>9. ExistsBijection(A, J)
  BY <1>8 DEF ExistsBijection, Bijection
<1> QED  BY <1>1, <1>6, <1>9, FS_Bijection DEF J

(* Of the elements picked by K, those that A would pick are in A's order.  *)
LEMMA RankOfRank ==
    ASSUME NEW K, IsFiniteSet(K), K \subseteq Nat, NEW A \in SUBSET K, NEW i \in K
    PROVE  RankIn(RanksOf(K, A), RankIn(K, i)) = RankIn(A, i)
<1> DEFINE low == {h \in A : h <= i}
           J   == RanksOf(K, A)
           r   == RankIn(K, i)
<1>1. {g \in J : g <= r} = RanksOf(K, low)
  <2>1. \A h \in A : h <= i <=> RankIn(K, h) <= r
    <3> SUFFICES ASSUME NEW h \in A PROVE h <= i <=> RankIn(K, h) <= r
      OBVIOUS
    <3>1. h \in K /\ h \in Nat /\ i \in Nat
      OBVIOUS
    <3>2. RankIn(K, h) \in Nat /\ r \in Nat
      BY <3>1, RankType
    <3>3. h < i => RankIn(K, h) < r
      BY <3>1, RankGrows
    <3>4. i < h => r < RankIn(K, h)
      BY <3>1, RankGrows
    <3>5. h = i => RankIn(K, h) = r
      OBVIOUS
    <3>6. h < i \/ i < h \/ h = i
      BY <3>1
    <3>7. (h < i => ~ (i < h) /\ h <= i) /\ (i < h => ~ (h <= i)) /\ (h = i => h <= i)
      BY <3>1
    <3> HIDE DEF r
    <3> DEFINE k == RankIn(K, h)
    <3>8. (k < r => k <= r) /\ (r < k => ~ (k <= r)) /\ (k = r => k <= r)
      <4> HIDE DEF k
      <4>1. k \in Nat /\ r \in Nat
        BY <3>2 DEF k
      <4> QED  BY <4>1
    <3> QED  BY <3>3, <3>4, <3>5, <3>6, <3>7, <3>8
  <2> HIDE DEF r
  <2> QED  BY <2>1 DEF RanksOf
<1>2. low \in SUBSET K
  OBVIOUS
<1>3. Cardinality(RanksOf(K, low)) = Cardinality(low)
  <2> HIDE DEF low
  <2> QED  BY <1>2, ImageSize
<1>4. RankIn(J, r) = Cardinality({g \in J : g <= r}) /\ RankIn(A, i) = Cardinality(low)
  BY DEF RankIn
<1> HIDE DEF low, J, r
<1> QED  BY <1>1, <1>3, <1>4 DEF J, r

LEMMA PickedTwice ==
    ASSUME NEW s, NEW K, IsFiniteSet(K), K \subseteq Nat, NEW A \in SUBSET K
    PROVE  Picked(Picked(s, K), RanksOf(K, A)) = Picked(s, A)
<1> DEFINE J == RanksOf(K, A)
           p == Picked(s, K)
           q == Picked(p, J)
           u == Picked(s, A)
           c == Cardinality(A)
<1>1. /\ IsFiniteSet(J) /\ Cardinality(J) = c /\ J \subseteq Nat
      /\ IsFiniteSet(A) /\ A \subseteq Nat
  <2>1. Cardinality(K) \in Nat
    BY FS_CardinalityType
  <2>2. IsFiniteSet(J) /\ Cardinality(J) = c /\ \A r \in J : r \in 1 .. Cardinality(K)
    BY ImageSize
  <2>3. IsFiniteSet(A) /\ A \subseteq Nat
    BY FS_Subset
  <2> HIDE DEF J, c
  <2>4. J \subseteq Nat
    BY <2>1, <2>2
  <2> QED  BY <2>2, <2>3, <2>4
<1>2. q = [n \in 1 .. c |-> q[n]] /\ u = [n \in 1 .. c |-> u[n]]
  BY <1>1 DEF Picked
<1>3. ASSUME NEW n \in 1 .. c PROVE q[n] = u[n]
  <2>1. PICK i \in A : RankIn(A, i) = n
    BY <1>1, RankTaken
  <2>2. i \in K /\ RankIn(K, i) \in J
    BY DEF RanksOf
  <2>3. RankIn(J, RankIn(K, i)) = n
    BY <2>1, <2>2, RankOfRank
  <2>4. u[n] = s[i]
    BY <1>1, <2>1, PickedAt
  <2>5. p[RankIn(K, i)] = s[i]
    BY <2>2, PickedAt
  <2>6. q[RankIn(J, RankIn(K, i))] = p[RankIn(K, i)]
    <3> HIDE DEF J, p
    <3> QED  BY <1>1, <2>2, PickedAt
  <2> HIDE DEF p, q, u, J
  <2> QED  BY <2>3, <2>4, <2>5, <2>6
<1> HIDE DEF q, u, c
<1>4. q = u
  BY <1>2, <1>3
<1> QED  BY <1>4 DEF q, u

-----------------------------------------------------------------------------
(* Compaction.                                                             *)

(* The greatest of a finite set of numbers.                                *)
LEMMA MaxOf ==
    ASSUME NEW S, IsFiniteSet(S), S \subseteq Nat, S # {}
    PROVE  Max(S) \in S /\ Max(S) \in Nat /\ \A x \in S : x <= Max(S)
<1> DEFINE c == Cardinality(S)
<1>1. c \in Nat /\ c # 0
  BY FS_CardinalityType, FS_EmptySet
<1>2. PICK m \in S : RankIn(S, m) = c
  <2>1. c \in 1 .. c
    <3> HIDE DEF c
    <3> QED  BY <1>1
  <2> QED  BY <2>1, RankTaken
<1>3. {h \in S : h <= m} = S
  <2> DEFINE low == {h \in S : h <= m}
  <2>1. low \in SUBSET S /\ Cardinality(low) = c
    BY <1>2 DEF RankIn
  <2> HIDE DEF low
  <2>2. low = S
    BY <2>1, FS_Subset
  <2> QED  BY <2>2 DEF low
<1>4. m \in Nat /\ \A x \in S : x \in Nat /\ m >= x
  BY <1>3
<1>5. Max(S) \in S /\ \A x \in S : Max(S) >= x
  BY <1>4 DEF Max
<1> DEFINE z == Max(S)
<1> HIDE DEF z
<1>6. z \in Nat /\ \A x \in S : x <= z
  BY <1>4, <1>5 DEF z
<1> QED  BY <1>5, <1>6 DEF z

LEMMA RankZero ==
    ASSUME NEW K, IsFiniteSet(K), K \subseteq Nat, NEW i \in K
    PROVE  ~ (RankIn(K, i) <= 0)
<1>1. i \in Nat /\ RankIn(K, i) \in 1 .. Cardinality(K)
  <2>1. i \in Nat
    OBVIOUS
  <2> QED  BY <2>1, RankType
<1> DEFINE r == RankIn(K, i)
           c == Cardinality(K)
<1>2. c \in Nat
  BY FS_CardinalityType
<1>3. r \in 1 .. c
  BY <1>1
<1> HIDE DEF r, c
<1>4. ~ (r <= 0)
  BY <1>2, <1>3
<1> QED  BY <1>4 DEF r

(* What Without leaves, and that it leaves all but some of F.              *)
PlacesOf(F, s) == F \subseteq 1 .. Len(s)

LEMMA WithoutKeeps ==
    ASSUME NEW S, NEW s \in Seq(S), NEW F, PlacesOf(F, s), NEW n \in Nat
    PROVE  /\ Without(s, F, n) \in Seq(S)
           /\ \A j \in 1 .. Len(Without(s, F, n)) : \E i \in 1 .. Len(s) : Without(s, F, n)[j] = s[i]
           /\ \A i \in (1 .. Len(s)) \ F : \E j \in 1 .. Len(Without(s, F, n)) : Without(s, F, n)[j] = s[i]
<1> DEFINE K == (1 .. Len(s)) \ {i \in F : RankIn(F, i) <= n}
           p == Picked(s, K)
<1>1. Len(s) \in Nat /\ \A i \in 1 .. Len(s) : s[i] \in S
  OBVIOUS
<1>2. K \subseteq 1 .. Len(s) /\ \A i \in (1 .. Len(s)) \ F : i \in K
  BY DEF PlacesOf
<1>3. Without(s, F, n) = p
  BY DEF Without
<1> HIDE DEF K
<1>4. IsFiniteSet(K) /\ K \subseteq Nat
  BY <1>1, <1>2, IntervalPlaces
<1>5. Elements(s, K, S)
  BY <1>1, <1>2 DEF Elements
<1>6. /\ p \in Seq(S) /\ Len(p) = Cardinality(K)
      /\ \A j \in 1 .. Cardinality(K) : \E i \in K : RankIn(K, i) = j /\ p[j] = s[i]
  <2>1. p \in Seq(S) /\ Len(p) = Cardinality(K) /\ Comes(p, s, K)
    BY <1>4, <1>5, PickedFrom
  <2> HIDE DEF p
  <2> QED  BY <2>1 DEF Comes
<1>7. ASSUME NEW i \in K PROVE \E j \in 1 .. Len(p) : p[j] = s[i]
  <2>1. i \in Nat /\ RankIn(K, i) \in 1 .. Cardinality(K)
    BY <1>4, RankType
  <2>2. p[RankIn(K, i)] = s[i]
    BY <1>4, PickedAt
  <2> HIDE DEF p
  <2> QED  BY <1>6, <2>1, <2>2
<1> HIDE DEF p
<1> QED  BY <1>2, <1>3, <1>6, <1>7

(* w is what a compaction of s left of it.                                 *)
PointsKept(w, s) ==
    /\ w \in Seq(Point)
    /\ \A j \in 1 .. Len(w) : \E i \in 1 .. Len(s) : w[j] = s[i]
    /\ \A i \in 1 .. Len(s) : s[i].analysis => \E j \in 1 .. Len(w) : w[j] = s[i]
RowsKept(w, s) ==
    /\ w \in Seq(Row)
    /\ \A j \in 1 .. Len(w) : \E i \in 1 .. Len(s) : w[j] = s[i]
    /\ \A i \in 1 .. Len(s) : s[i].cp.analysis => \E j \in 1 .. Len(w) : w[j] = s[i]

LEMMA CompactKeeps ==
    ASSUME NEW c \in Seq(Point)
    PROVE  PointsKept(Compact(c), c)
<1> DEFINE F == {i \in 1 .. Len(c) : ~ c[i].analysis}
           n == Len(c) - Limit
           w == Without(c, F, n)
<1>1. CASE Len(c) <= Limit
  <2>1. Compact(c) = c
    BY <1>1 DEF Compact
  <2> QED  BY <2>1 DEF PointsKept
<1>2. CASE ~ (Len(c) <= Limit)
  <2>1. F \subseteq 1 .. Len(c) /\ n \in Nat /\ \A i \in 1 .. Len(c) : c[i].analysis => i \notin F
    BY <1>2, LimitIsNat
  <2>2. Compact(c) = w
    BY <1>2 DEF Compact
  <2> HIDE DEF F, n
  <2>3. /\ w \in Seq(Point)
        /\ \A j \in 1 .. Len(w) : \E i \in 1 .. Len(c) : w[j] = c[i]
        /\ \A i \in (1 .. Len(c)) \ F : \E j \in 1 .. Len(w) : w[j] = c[i]
    <3>1. PlacesOf(F, c)
      BY <2>1 DEF PlacesOf
    <3> QED  BY <2>1, <3>1, WithoutKeeps
  <2> HIDE DEF w
  <2> QED  BY <2>1, <2>2, <2>3 DEF PointsKept
<1> QED  BY <1>1, <1>2

LEMMA CompactRowsKeeps ==
    ASSUME NEW rows \in Seq(Row), NEW b
    PROVE  RowsKept(CompactRows(rows, b), rows)
<1> DEFINE own == {i \in 1 .. Len(rows) : rows[i].branch = b}
           F == {i \in own : ~ rows[i].cp.analysis}
           n == Overflow(Cardinality(own))
           w == Without(rows, F, n)
<1>1. Cardinality(own) \in Nat
  <2>1. own \subseteq 1 .. Len(rows) /\ Len(rows) \in Nat
    OBVIOUS
  <2> HIDE DEF own
  <2> QED  BY <2>1, IntervalPlaces
<1>2. n \in Nat
  <2> HIDE DEF own
  <2> QED  BY <1>1, LimitIsNat DEF Overflow
<1>3. F \subseteq 1 .. Len(rows) /\ \A i \in 1 .. Len(rows) : rows[i].cp.analysis => i \notin F
  OBVIOUS
<1>4. CompactRows(rows, b) = w
  BY DEF CompactRows
<1> HIDE DEF F, n
<1>5. /\ w \in Seq(Row)
      /\ \A j \in 1 .. Len(w) : \E i \in 1 .. Len(rows) : w[j] = rows[i]
      /\ \A i \in (1 .. Len(rows)) \ F : \E j \in 1 .. Len(w) : w[j] = rows[i]
  <2>1. PlacesOf(F, rows)
    BY <1>3 DEF PlacesOf
  <2> QED  BY <1>2, <2>1, WithoutKeeps
<1> HIDE DEF w
<1> QED  BY <1>3, <1>4, <1>5 DEF RowsKept

-----------------------------------------------------------------------------
(* What a chain is restored from.                                          *)

Cps(rows)         == [i \in 1 .. Len(rows) |-> rows[i].cp]
ChainOf(rows, b)  == {i \in 1 .. Len(rows) : InChain(rows[i], b)}
ListedIn(rows, b) == Picked(Cps(rows), ChainOf(rows, b))

LEMMA ListedIs == \A b : Listed(b) = ListedIn(checkpoints, b)
BY DEF Listed, ListedIn, Cps, ChainOf

(* w lists the checkpoints of b's chain, and no others.                    *)
ListsChain(w, rows, b) ==
    /\ \A n \in 1 .. Len(w) : \E k \in 1 .. Len(rows) : InChain(rows[k], b) /\ w[n] = rows[k].cp
    /\ \A k \in 1 .. Len(rows) : InChain(rows[k], b) => \E n \in 1 .. Len(w) : w[n] = rows[k].cp

LEMMA ListedHas ==
    ASSUME NEW rows \in Seq(Row), NEW b
    PROVE  ListedIn(rows, b) \in Seq(Point) /\ ListsChain(ListedIn(rows, b), rows, b)
<1> DEFINE K == ChainOf(rows, b)
           s == Cps(rows)
           p == Picked(s, K)
<1>1. Len(rows) \in Nat /\ \A i \in 1 .. Len(rows) : rows[i] \in Row /\ rows[i].cp \in Point /\ s[i] = rows[i].cp
  <2>1. \A x \in Row : x.cp \in Point
    BY DEF Row
  <2>2. \A i \in 1 .. Len(rows) : rows[i] \in Row
    OBVIOUS
  <2>3. \A i \in 1 .. Len(rows) : s[i] = rows[i].cp
    BY DEF Cps
  <2> QED  BY <2>1, <2>2, <2>3
<1>2. K \subseteq 1 .. Len(rows) /\ \A i \in 1 .. Len(rows) : i \in K <=> InChain(rows[i], b)
  BY DEF ChainOf
<1>3. p = ListedIn(rows, b)
  BY DEF ListedIn
<1> HIDE DEF K, s
<1>4. IsFiniteSet(K) /\ K \subseteq Nat
  BY <1>1, <1>2, IntervalPlaces
<1>5. Elements(s, K, Point)
  BY <1>1, <1>2 DEF Elements
<1>6. p \in Seq(Point) /\ Len(p) = Cardinality(K) /\ Comes(p, s, K)
  BY <1>4, <1>5, PickedFrom
<1>7. ASSUME NEW i \in K PROVE \E j \in 1 .. Len(p) : p[j] = s[i]
  <2>1. i \in Nat /\ RankIn(K, i) \in 1 .. Cardinality(K)
    BY <1>4, RankType
  <2>2. p[RankIn(K, i)] = s[i]
    BY <1>4, PickedAt
  <2> HIDE DEF p
  <2> QED  BY <1>6, <2>1, <2>2
<1> HIDE DEF p
<1>8. \A n \in 1 .. Len(p) : \E k \in K : p[n] = s[k]
  BY <1>6 DEF Comes
<1>9. /\ \A n \in 1 .. Len(p) : \E k \in 1 .. Len(rows) : InChain(rows[k], b) /\ p[n] = rows[k].cp
      /\ \A k \in 1 .. Len(rows) : InChain(rows[k], b) => \E n \in 1 .. Len(p) : p[n] = rows[k].cp
  BY <1>1, <1>2, <1>7, <1>8
<1>10. ListsChain(p, rows, b)
  BY <1>9 DEF ListsChain
<1> QED  BY <1>3, <1>6, <1>10

(* The main line's chain in a table some rows of which were deleted.       *)
LEMMA ListedAfter ==
    ASSUME NEW rows \in Seq(Row), NEW K, PlacesOf(K, rows)
    PROVE  ListedIn(Picked(rows, K), Main) = Picked(Cps(rows), {i \in K : rows[i].branch = Main})
<1> DEFINE R == Picked(rows, K)
           A == {i \in K : rows[i].branch = Main}
           s == Cps(rows)
           t == Picked(s, K)
           c == Cardinality(K)
<1>1. Len(rows) \in Nat /\ K \subseteq 1 .. Len(rows)
      /\ \A i \in K : rows[i] \in Row /\ s[i] = rows[i].cp
  BY DEF Cps, PlacesOf
<1>2. IsFiniteSet(K) /\ K \subseteq Nat /\ c \in Nat
  BY <1>1, IntervalPlaces
<1>3. R \in Seq(Row) /\ Len(R) = c /\ Comes(R, rows, K)
  <2>1. Elements(rows, K, Row)
    BY <1>1 DEF Elements
  <2> QED  BY <1>2, <2>1, PickedFrom
<1>4. \A i \in K : RankIn(K, i) \in 1 .. c /\ R[RankIn(K, i)] = rows[i] /\ t[RankIn(K, i)] = s[i]
  <2> TAKE i \in K
  <2>1. i \in Nat /\ RankIn(K, i) \in 1 .. c
    BY <1>2, RankType
  <2>2. R[RankIn(K, i)] = rows[i]
    BY <1>2, PickedAt
  <2>3. t[RankIn(K, i)] = s[i]
    BY <1>2, PickedAt
  <2> QED  BY <2>1, <2>2, <2>3
<1>5. t = [n \in 1 .. c |-> t[n]]
  BY DEF Picked
<1> DEFINE u == Cps(R)
<1>6. u = [n \in 1 .. c |-> u[n]] /\ \A n \in 1 .. c : u[n] = R[n].cp
  <2> HIDE DEF R, c
  <2> QED  BY <1>3 DEF Cps
<1> HIDE DEF R, s, t, c, u
<1>7. ASSUME NEW n \in 1 .. c PROVE u[n] = t[n]
  <2>1. PICK i \in K : RankIn(K, i) = n /\ R[n] = rows[i]
    BY <1>3 DEF Comes, c
  <2> QED  BY <1>1, <1>4, <1>6, <2>1
<1>8. u = t
  BY <1>5, <1>6, <1>7
<1>9. ChainOf(R, Main) = RanksOf(K, A)
  <2>1. ASSUME NEW n \in 1 .. c, R[n].branch = Main PROVE n \in RanksOf(K, A)
    <3>1. PICK i \in K : RankIn(K, i) = n /\ R[n] = rows[i]
      BY <1>3 DEF Comes, c
    <3> QED  BY <2>1, <3>1 DEF RanksOf
  <2>2. ASSUME NEW i \in A PROVE RankIn(K, i) \in 1 .. c /\ R[RankIn(K, i)].branch = Main
    <3>1. i \in K /\ rows[i].branch = Main
      OBVIOUS
    <3> QED  BY <1>4, <3>1
  <2>3. ChainOf(R, Main) = {n \in 1 .. c : R[n].branch = Main}
    BY <1>3 DEF ChainOf, InChain
  <2>4. \A n \in RanksOf(K, A) : \E i \in A : n = RankIn(K, i)
    BY DEF RanksOf
  <2> HIDE DEF A
  <2>5. \A n \in RanksOf(K, A) : n \in 1 .. c /\ R[n].branch = Main
    BY <2>2, <2>4
  <2> QED  BY <2>1, <2>3, <2>5
<1>10. Picked(t, RanksOf(K, A)) = Picked(s, A)
  <2>1. A \in SUBSET K
    OBVIOUS
  <2> HIDE DEF A
  <2> QED  BY <1>2, <2>1, PickedTwice DEF t
<1>11. ListedIn(R, Main) = Picked(u, ChainOf(R, Main))
  BY DEF ListedIn, u
<1> QED  BY <1>8, <1>9, <1>10, <1>11 DEF R, s

LEMMA CpsAppended ==
    ASSUME NEW rows \in Seq(Row), NEW row \in Row
    PROVE  LET more == Append(rows, row)
           IN  /\ more \in Seq(Row) /\ Len(more) = Len(rows) + 1 /\ Len(rows) \in Nat
               /\ \A i \in 1 .. Len(rows) : more[i] = rows[i] /\ Cps(more)[i] = Cps(rows)[i]
                                            /\ Cps(rows)[i] = rows[i].cp /\ rows[i].cp \in Point
               /\ more[Len(rows) + 1] = row /\ Cps(more)[Len(rows) + 1] = row.cp /\ row.cp \in Point
<1> DEFINE more == Append(rows, row)
           z == Len(rows)
<1>1. /\ more \in Seq(Row) /\ Len(more) = z + 1 /\ z \in Nat
      /\ \A i \in 1 .. z : more[i] = rows[i] /\ rows[i] \in Row
      /\ more[z + 1] = row
  OBVIOUS
<1>2. \A x \in Row : x.cp \in Point
  BY DEF Row
<1> HIDE DEF more
<1>3. /\ \A i \in 1 .. z + 1 : Cps(more)[i] = more[i].cp
      /\ \A i \in 1 .. z : Cps(rows)[i] = rows[i].cp
  BY <1>1 DEF Cps
<1> HIDE DEF z
<1>4. \A i \in 1 .. z : i \in 1 .. z + 1
  BY <1>1
<1>5. z + 1 \in 1 .. z + 1
  BY <1>1
<1> QED  BY <1>1, <1>2, <1>3, <1>4, <1>5 DEF more, z

(* Saving on another branch does not touch the main line's chain.          *)
LEMMA OtherSave ==
    ASSUME NEW rows \in Seq(Row), NEW row \in Row, row.branch # Main
    PROVE  ListedIn(CompactRows(Append(rows, row), row.branch), Main) = ListedIn(rows, Main)
<1> DEFINE more == Append(rows, row)
           b == row.branch
           own == {i \in 1 .. Len(more) : more[i].branch = b}
           F == {i \in own : ~ more[i].cp.analysis}
           n == Overflow(Cardinality(own))
           gone == {i \in F : RankIn(F, i) <= n}
           K == (1 .. Len(more)) \ gone
           M == ChainOf(rows, Main)
           z == Len(rows)
<1>1. /\ more \in Seq(Row) /\ Len(more) = z + 1 /\ z \in Nat
      /\ \A i \in 1 .. z : more[i] = rows[i] /\ Cps(more)[i] = Cps(rows)[i]
      /\ more[z + 1] = row
  BY CpsAppended
<1>2. CompactRows(more, b) = Picked(more, K)
  BY DEF CompactRows, Without
<1>3. \A i \in gone : more[i].branch # Main
  OBVIOUS
<1> HIDE DEF more, gone
<1>4. M = {i \in K : more[i].branch = Main}
  <2>1. M = {i \in 1 .. z : rows[i].branch = Main}
    BY DEF ChainOf, InChain
  <2>2. \A i \in 1 .. z + 1 : i \in 1 .. z \/ i = z + 1
    BY <1>1
  <2>3. \A i \in 1 .. z : i \in 1 .. z + 1
    BY <1>1
  <2>4. \A i \in K : more[i].branch = Main => i \in 1 .. z /\ rows[i].branch = Main
    BY <1>1, <2>2
  <2>5. \A i \in 1 .. z : rows[i].branch = Main => i \in K /\ more[i].branch = Main
    BY <1>1, <1>3, <2>3
  <2> HIDE DEF K, M
  <2> QED  BY <2>1, <2>4, <2>5
<1>5. PlacesOf(K, more)
  BY DEF PlacesOf
<1> HIDE DEF K
<1>6. ListedIn(Picked(more, K), Main) = Picked(Cps(more), {i \in K : more[i].branch = Main})
  BY <1>1, <1>5, ListedAfter
<1>7. Picked(Cps(more), M) = Picked(Cps(rows), M)
  <2>1. M \subseteq 1 .. z
    BY DEF ChainOf
  <2> HIDE DEF M
  <2>2. IsFiniteSet(M) /\ M \subseteq Nat
    BY <1>1, <2>1, IntervalPlaces
  <2>3. \A i \in M : Cps(more)[i] = Cps(rows)[i]
    BY <1>1, <2>1
  <2> QED  BY <2>2, <2>3, PickedSame
<1> QED  BY <1>2, <1>4, <1>6, <1>7 DEF more, ListedIn

(* The chain's rule is the table's.                                        *)
Ordinary(s, O) == {i \in O : ~ s[i].analysis}
Left(s, O) ==
    O \ {i \in Ordinary(s, O) : RankIn(Ordinary(s, O), i) <= Overflow(Cardinality(O))}

LEMMA CompactPicked ==
    ASSUME NEW s, NEW O, IsFiniteSet(O), O \subseteq Nat, Elements(s, O, Point)
    PROVE  Compact(Picked(s, O)) = Picked(s, Left(s, O))
<1> DEFINE F == {i \in O : ~ s[i].analysis}
           c == Cardinality(O)
           n == Overflow(c)
           gone == {i \in F : RankIn(F, i) <= n}
           A == O \ gone
           p == Picked(s, O)
<1>0. Left(s, O) = A
  BY DEF Left, Ordinary
<1>1. p \in Seq(Point) /\ Len(p) = c /\ c \in Nat /\ Comes(p, s, O)
  BY PickedFrom
<1>2. IsFiniteSet(F) /\ F \subseteq Nat /\ F \in SUBSET O
  <2>1. F \in SUBSET O
    OBVIOUS
  <2> HIDE DEF F
  <2> QED  BY <2>1, FS_Subset
<1>3. CASE c <= Limit
  <2>1. n = 0
    <3> HIDE DEF c
    <3> QED  BY <1>1, <1>3, LimitIsNat DEF Overflow
  <2>2. gone = {}
    <3> HIDE DEF F, n
    <3> QED  BY <1>2, <2>1, RankZero
  <2>3. Compact(p) = p
    BY <1>1, <1>3 DEF Compact
  <2>4. A = O
    BY <2>2
  <2> QED  BY <1>0, <2>3, <2>4
<1>4. CASE ~ (c <= Limit)
  <2> DEFINE G == {r \in 1 .. c : ~ p[r].analysis}
             Z == (1 .. c) \ {r \in G : RankIn(G, r) <= n}
  <2>1. n = c - Limit
    <3> HIDE DEF c
    <3> QED  BY <1>1, <1>4, LimitIsNat DEF Overflow
  <2>2. Compact(p) = Picked(p, Z)
    <3>1. Compact(p) = Without(p, {r \in 1 .. Len(p) : ~ p[r].analysis}, Len(p) - Limit)
      BY <1>1, <1>4 DEF Compact
    <3>2. Compact(p) = Without(p, G, n)
      <4> HIDE DEF n, p, c
      <4> QED  BY <1>1, <2>1, <3>1
    <3> HIDE DEF G, n, c, p
    <3> QED  BY <1>1, <3>2 DEF Without
  <2>3. \A i \in O : RankIn(O, i) \in 1 .. c /\ p[RankIn(O, i)] = s[i]
    <3> TAKE i \in O
    <3>1. i \in Nat /\ RankIn(O, i) \in 1 .. c
      BY RankType
    <3>2. p[RankIn(O, i)] = s[i]
      BY PickedAt
    <3> QED  BY <3>1, <3>2
  <2>4. \A r \in 1 .. c : \E i \in O : RankIn(O, i) = r
    BY RankTaken
  <2>5. G = RanksOf(O, F)
    <3>1. \A r \in 1 .. c : ~ p[r].analysis => r \in RanksOf(O, F)
      <4> SUFFICES ASSUME NEW r \in 1 .. c, ~ p[r].analysis PROVE r \in RanksOf(O, F)
        OBVIOUS
      <4>1. PICK i \in O : RankIn(O, i) = r
        BY <2>4
      <4>2. p[r] = s[i]
        BY <2>3, <4>1
      <4>3. i \in F
        BY <4>2
      <4> HIDE DEF F
      <4> QED  BY <4>1, <4>3 DEF RanksOf
    <3>2. \A i \in F : RankIn(O, i) \in 1 .. c /\ ~ p[RankIn(O, i)].analysis
      <4> HIDE DEF p, c
      <4> QED  BY <2>3
    <3>3. \A r \in RanksOf(O, F) : \E i \in F : r = RankIn(O, i)
      BY DEF RanksOf
    <3> HIDE DEF F, p, c
    <3>4. \A r \in RanksOf(O, F) : r \in 1 .. c /\ ~ p[r].analysis
      BY <3>2, <3>3
    <3> QED  BY <3>1, <3>4
  <2>6. \A i \in O : RankIn(RanksOf(O, F), RankIn(O, i)) = RankIn(F, i)
    <3> HIDE DEF F
    <3> QED  BY <1>2, RankOfRank
  <2>7. \A i \in O : RankIn(O, i) \in RanksOf(O, F) => i \in F
    <3> SUFFICES ASSUME NEW i \in O, NEW h \in F, RankIn(O, i) = RankIn(O, h) PROVE i \in F
      BY DEF RanksOf
    <3>1. h \in O
      OBVIOUS
    <3>2. i = h
      BY <3>1, RankOnce
    <3> QED  BY <3>2
  <2>8. \A i \in F : RankIn(O, i) \in RanksOf(O, F)
    BY DEF RanksOf
  <2>9. Z = RanksOf(O, A)
    <3>1. \A i \in O : RankIn(O, i) \in Z <=> i \in A
      <4> SUFFICES ASSUME NEW i \in O PROVE RankIn(O, i) \in Z <=> i \in A
        OBVIOUS
      <4>1. RankIn(O, i) \in Z <=> ~ (RankIn(O, i) \in G /\ RankIn(G, RankIn(O, i)) <= n)
        <5> HIDE DEF c, n, G
        <5> QED  BY <2>3
      <4>2. i \in A <=> ~ (i \in F /\ RankIn(F, i) <= n)
        OBVIOUS
      <4>3. RankIn(O, i) \in G <=> i \in F
        BY <2>5, <2>7, <2>8, <1>2
      <4>4. RankIn(G, RankIn(O, i)) = RankIn(F, i)
        BY <2>5, <2>6
      <4> HIDE DEF Z, A, G, n, F
      <4> QED  BY <4>1, <4>2, <4>3, <4>4
    <3>2. \A r \in Z : r \in 1 .. c
      OBVIOUS
    <3>3. A \in SUBSET O
      OBVIOUS
    <3> HIDE DEF Z, A, c
    <3> QED  BY <2>4, <3>1, <3>2, <3>3 DEF RanksOf
  <2>10. Picked(p, RanksOf(O, A)) = Picked(s, A)
    <3>1. A \in SUBSET O
      OBVIOUS
    <3> HIDE DEF A
    <3> QED  BY <3>1, PickedTwice
  <2> HIDE DEF Z, A, p
  <2>11. Compact(p) = Picked(s, A)
    BY <2>2, <2>9, <2>10
  <2> QED  BY <1>0, <2>11 DEF A, p
<1> QED  BY <1>3, <1>4

(* On the main line the table is compacted as the chain is.                *)
LEMMA MainSave ==
    ASSUME NEW rows \in Seq(Row), NEW row \in Row, row.branch = Main
    PROVE  ListedIn(CompactRows(Append(rows, row), Main), Main)
             = Compact(ListedIn(rows, Main) \o <<row.cp>>)
<1> DEFINE more == Append(rows, row)
           s == Cps(more)
           own == {i \in 1 .. Len(more) : more[i].branch = Main}
           F == {i \in own : ~ more[i].cp.analysis}
           n == Overflow(Cardinality(own))
           gone == {i \in F : RankIn(F, i) <= n}
           K == (1 .. Len(more)) \ gone
           M == ChainOf(rows, Main)
           z == Len(rows)
<1>1. /\ more \in Seq(Row) /\ Len(more) = z + 1 /\ z \in Nat
      /\ \A i \in 1 .. z : more[i] = rows[i] /\ s[i] = Cps(rows)[i]
                           /\ Cps(rows)[i] = rows[i].cp /\ rows[i].cp \in Point
      /\ more[z + 1] = row /\ s[z + 1] = row.cp /\ row.cp \in Point
  BY CpsAppended
<1>2. CompactRows(more, Main) = Picked(more, K)
  BY DEF CompactRows, Without
<1>3. own \ gone = {i \in K : more[i].branch = Main}
  OBVIOUS
<1>4. PlacesOf(K, more)
  BY DEF PlacesOf
<1>5. ListedIn(Picked(more, K), Main) = Picked(s, own \ gone)
  <2>1. ListedIn(Picked(more, K), Main) = Picked(Cps(more), {i \in K : more[i].branch = Main})
    <3> HIDE DEF K, more
    <3> QED  BY <1>1, <1>4, ListedAfter
  <2> HIDE DEF K, own, gone, more
  <2> QED  BY <1>3, <2>1
<1>6. \A i \in own : s[i] = more[i].cp /\ s[i] \in Point
  <2>1. \A i \in 1 .. z + 1 : i \in 1 .. z \/ i = z + 1
    BY <1>1
  <2> HIDE DEF more, s
  <2>2. \A i \in own : i \in 1 .. z + 1
    BY <1>1
  <2> HIDE DEF own
  <2> QED  BY <1>1, <2>1, <2>2
<1>7. F = {i \in own : ~ s[i].analysis}
  <2> HIDE DEF more, own, s
  <2> QED  BY <1>6
<1>8. IsFiniteSet(own) /\ own \subseteq Nat
  <2>1. own \subseteq 1 .. z + 1 /\ z + 1 \in Nat
    <3> HIDE DEF more
    <3> QED  BY <1>1
  <2> HIDE DEF own
  <2> QED  BY <2>1, IntervalPlaces
<1>9. Compact(Picked(s, own)) = Picked(s, own \ gone)
  <2>1. Elements(s, own, Point)
    <3> HIDE DEF own, s
    <3> QED  BY <1>6 DEF Elements
  <2>2. Compact(Picked(s, own)) = Picked(s, Left(s, own))
    <3> HIDE DEF own, s
    <3> QED  BY <1>8, <2>1, CompactPicked
  <2>3. Left(s, own) = own \ gone
    <3> HIDE DEF own, s, F
    <3> QED  BY <1>7 DEF Left, Ordinary
  <2> HIDE DEF F, own, s
  <2> QED  BY <2>2, <2>3
<1>10. own = M \cup {z + 1} /\ M \subseteq 1 .. z
  <2>1. M = {i \in 1 .. z : rows[i].branch = Main}
    BY DEF ChainOf, InChain
  <2> HIDE DEF more, M
  <2>2. \A i \in 1 .. z + 1 : i \in 1 .. z \/ i = z + 1
    BY <1>1
  <2>3. z + 1 \in 1 .. z + 1 /\ \A i \in 1 .. z : i \in 1 .. z + 1
    BY <1>1
  <2>4. own = {i \in 1 .. z + 1 : more[i].branch = Main}
    BY <1>1
  <2>5. \A i \in own : i \in M \/ i = z + 1
    BY <1>1, <2>1, <2>2, <2>4
  <2>6. \A i \in M : i \in own
    BY <1>1, <2>1, <2>3, <2>4
  <2>7. z + 1 \in own
    BY <1>1, <2>3, <2>4
  <2>8. \A i \in M : i \in 1 .. z
    BY <2>1
  <2> HIDE DEF own
  <2> QED  BY <2>5, <2>6, <2>7, <2>8
<1>11. Picked(s, own) = Append(ListedIn(rows, Main), row.cp)
  <2> HIDE DEF s, own, M, z, more
  <2>1. Elements(Cps(rows), M, Point) /\ Agree(Cps(rows), s, M) /\ UpTo(M, z)
    BY <1>1, <1>10 DEF Elements, Agree, UpTo
  <2>2. Picked(s, M \cup {z + 1}) = Append(Picked(Cps(rows), M), s[z + 1])
    BY <1>1, <1>10, <2>1, PickedAppend
  <2>3. Picked(Cps(rows), M) = ListedIn(rows, Main)
    BY DEF ListedIn, M
  <2> QED  BY <1>1, <1>10, <2>2, <2>3
<1>12. Append(ListedIn(rows, Main), row.cp) = ListedIn(rows, Main) \o <<row.cp>>
  <2>1. ListedIn(rows, Main) \in Seq(Point)
    BY ListedHas
  <2> QED  BY <1>1, <2>1, AppendIsConcat
<1> HIDE DEF more, s, own, gone, K
<1> QED  BY <1>2, <1>5, <1>9, <1>11, <1>12 DEF more

-----------------------------------------------------------------------------
(* Numbers and their order.  The operators are those of SessionHistory, of *)
(* any table of messages.                                                  *)

Of(ms, b) == {i \in 1 .. Len(ms) : ms[i].branch = b}
PlaceIn(ms, R, i) ==
    Cardinality({h \in R : ms[h].seq < ms[i].seq \/ (ms[h].seq = ms[i].seq /\ h <= i)})
Sorted(ms, R)    == [k \in 1 .. Cardinality(R) |-> ms[CHOOSE i \in R : PlaceIn(ms, R, i) = k]]
Numbers(ms, R)   == {0} \cup {ms[i].seq : i \in R}
ShownIn(ms, b) ==
    [k \in 1 .. Cardinality(Of(ms, b)) |->
        <<Sorted(ms, Of(ms, b))[k].turn, Sorted(ms, Of(ms, b))[k].role>>]
Ascending(ms) ==
    \A i, j \in 1 .. Len(ms) : i < j /\ ms[i].branch = ms[j].branch => ms[i].seq < ms[j].seq

LEMMA HighestIs ==
    ASSUME NEW ms \in Seq(Message), NEW R, PlacesOf(R, ms)
    PROVE  /\ Max(Numbers(ms, R)) \in Nat
           /\ \A i \in R : ms[i].seq <= Max(Numbers(ms, R))
           /\ Max(Numbers(ms, R)) = 0 \/ \E i \in R : Max(Numbers(ms, R)) = ms[i].seq
<1> DEFINE f == [i \in R |-> ms[i].seq]
           T == {ms[i].seq : i \in R}
           S == Numbers(ms, R)
<1>1. \A i \in R : f[i] \in Nat /\ f[i] = ms[i].seq
  <2>1. \A i \in R : ms[i] \in Message
    BY DEF PlacesOf
  <2>2. \A m \in Message : m.seq \in Nat
    BY DEF Message
  <2> QED  BY <2>1, <2>2
<1>2. IsFiniteSet(R)
  <2>1. R \subseteq 1 .. Len(ms) /\ Len(ms) \in Nat
    BY DEF PlacesOf
  <2> QED  BY <2>1, IntervalPlaces
<1>3. IsFiniteSet(T)
  <2>1. f \in Surjection(R, T)
    <3>1. f = [i \in R |-> f[i]] /\ (\A i \in R : f[i] \in T) /\ \A x \in T : \E i \in R : x = f[i]
      OBVIOUS
    <3> HIDE DEF f, T
    <3>2. f \in [R -> T]
      BY <3>1
    <3> QED  BY <3>1, <3>2 DEF Surjection
  <2> HIDE DEF f, T
  <2> QED  BY <1>2, <2>1, FS_Surjection
<1>4. S = T \cup {0}
  BY DEF Numbers
<1>5. IsFiniteSet(S) /\ S \subseteq Nat /\ S # {}
  <2>1. \A x \in T : x \in Nat
    BY <1>1
  <2> HIDE DEF T, S
  <2> QED  BY <1>3, <1>4, <2>1, FS_AddElement
<1>6. Max(S) \in S /\ Max(S) \in Nat /\ \A x \in S : x <= Max(S)
  <2> HIDE DEF S
  <2> QED  BY <1>5, MaxOf
<1>7. (\A i \in R : ms[i].seq \in S) /\ \A x \in S : x = 0 \/ \E i \in R : x = ms[i].seq
  BY DEF Numbers
<1> HIDE DEF S
<1> QED  BY <1>6, <1>7 DEF S

LEMMA SortedFrom ==
    ASSUME NEW ms \in Seq(Message), NEW R, PlacesOf(R, ms), NEW k \in 1 .. Cardinality(R)
    PROVE  \E i \in R : Sorted(ms, R)[k] = ms[i]
<1> DEFINE before(i) == {h \in R : ms[h].seq < ms[i].seq \/ (ms[h].seq = ms[i].seq /\ h <= i)}
           f == [i \in R |-> PlaceIn(ms, R, i)]
           T == 1 .. Cardinality(R)
<1>1. \A i \in R : i \in Nat /\ ms[i].seq \in Nat
  <2>1. \A i \in R : i \in Nat /\ ms[i] \in Message
    BY DEF PlacesOf
  <2>2. \A m \in Message : m.seq \in Nat
    BY DEF Message
  <2> QED  BY <2>1, <2>2
<1>2. IsFiniteSet(R) /\ Cardinality(R) \in Nat
  <2>1. R \subseteq 1 .. Len(ms) /\ Len(ms) \in Nat
    BY DEF PlacesOf
  <2> QED  BY <2>1, IntervalPlaces
<1>3. \A i \in R : before(i) \in SUBSET R /\ i \in before(i)
  BY <1>1
<1>4. \A i \in R : f[i] = Cardinality(before(i)) /\ f[i] = PlaceIn(ms, R, i)
  BY DEF PlaceIn
<1>5. ASSUME NEW i \in R PROVE f[i] \in T
  <2> DEFINE low == before(i)
  <2>1. low \in SUBSET R /\ i \in low
    BY <1>3
  <2>2. f[i] = Cardinality(low)
    BY <1>4
  <2> HIDE DEF low, f
  <2>3. IsFiniteSet(low) /\ Cardinality(low) <= Cardinality(R) /\ Cardinality(low) \in Nat
    BY <1>2, <2>1, FS_Subset, FS_CardinalityType
  <2>4. Cardinality(low) # 0
    BY <2>1, <2>3, FS_EmptySet
  <2> QED  BY <1>2, <2>2, <2>3, <2>4
<1>6. ASSUME NEW i \in R, NEW j \in R, i # j, j \notin before(i) PROVE f[i] # f[j]
  <2> DEFINE low == before(i)
             high == before(j)
  <2>1. low \in SUBSET high
    <3> SUFFICES ASSUME NEW h \in low PROVE h \in high
      OBVIOUS
    <3>1. /\ ms[h].seq < ms[i].seq \/ (ms[h].seq = ms[i].seq /\ h <= i)
          /\ ms[i].seq < ms[j].seq \/ (ms[j].seq = ms[i].seq /\ i < j)
      BY <1>1, <1>6
    <3>2. h \in R /\ h \in Nat /\ i \in Nat /\ j \in Nat
      BY <1>1
    <3>3. ms[h].seq \in Nat /\ ms[i].seq \in Nat /\ ms[j].seq \in Nat
      BY <1>1, <3>2
    <3>4. ms[h].seq < ms[j].seq \/ (ms[h].seq = ms[j].seq /\ h <= j)
      <4> DEFINE x == ms[h].seq
                 y == ms[i].seq
                 v == ms[j].seq
      <4>1. x \in Nat /\ y \in Nat /\ v \in Nat /\ (x < y \/ (x = y /\ h <= i)) /\ (y < v \/ (v = y /\ i < j))
        BY <3>1, <3>3
      <4> HIDE DEF x, y, v
      <4>2. x < v \/ (x = v /\ h <= j)
        BY <3>2, <4>1
      <4> QED  BY <4>2 DEF x, v
    <3> QED  BY <3>2, <3>4
  <2>2. j \in high /\ j \notin low /\ high \in SUBSET R
    BY <1>3, <1>6
  <2>3. f[i] = Cardinality(low) /\ f[j] = Cardinality(high)
    BY <1>4
  <2> HIDE DEF low, high, f
  <2>4. IsFiniteSet(high)
    BY <1>2, <2>2, FS_Subset
  <2>5. Cardinality(low) # Cardinality(high)
    BY <2>1, <2>2, <2>4, FS_Subset
  <2> QED  BY <2>3, <2>5
<1>7. \A i, j \in R : i # j => f[i] # f[j]
  <2> SUFFICES ASSUME NEW i \in R, NEW j \in R, i # j PROVE f[i] # f[j]
    OBVIOUS
  <2>1. j \notin before(i) \/ i \notin before(j)
    <3>1. /\ i \in Nat /\ j \in Nat /\ ms[i].seq \in Nat /\ ms[j].seq \in Nat
      BY <1>1
    <3> QED  BY <3>1
  <2>2. CASE j \notin before(i)
    BY <1>6, <2>2
  <2>3. CASE i \notin before(j)
    BY <1>6, <2>3
  <2> QED  BY <2>1, <2>2, <2>3
<1>8. f = [i \in R |-> f[i]]
  OBVIOUS
<1> HIDE DEF f
<1>9. f \in Injection(R, T)
  <2> HIDE DEF T
  <2>1. f \in [R -> T]
    BY <1>5, <1>8
  <2> QED  BY <1>7, <2>1 DEF Injection, IsInjective
<1>10. IsFiniteSet(T) /\ Cardinality(T) = Cardinality(R)
  <2> DEFINE c == Cardinality(R)
  <2>1. c \in Nat
    BY <1>2
  <2> HIDE DEF c
  <2>2. IsFiniteSet(1 .. c) /\ Cardinality(1 .. c) = IF 1 > c THEN 0 ELSE c - 1 + 1
    BY <2>1, FS_Interval
  <2>3. IsFiniteSet(1 .. c) /\ Cardinality(1 .. c) = c
    BY <2>1, <2>2
  <2> QED  BY <2>3 DEF c
<1>11. \E i \in R : f[i] = k
  <2>1. k \in T
    OBVIOUS
  <2> HIDE DEF T
  <2>2. f \in Surjection(R, T)
    BY <1>9, <1>10, FS_Injection
  <2> QED  BY <2>1, <2>2 DEF Surjection
<1>12. \E i \in R : PlaceIn(ms, R, i) = k
  BY <1>4, <1>11
<1>13. (CHOOSE i \in R : PlaceIn(ms, R, i) = k) \in R
  BY <1>12
<1> QED  BY <1>13 DEF Sorted

(* In a branch the numbers order as the ids do.                            *)
LEMMA SortedIsPicked ==
    ASSUME NEW ms \in Seq(Message), Ascending(ms), NEW b
    PROVE  Sorted(ms, Of(ms, b)) = Picked(ms, Of(ms, b))
<1> DEFINE R == Of(ms, b)
           c == Cardinality(R)
           p == Picked(ms, R)
           u == Sorted(ms, R)
<1>1. R \subseteq 1 .. Len(ms) /\ Len(ms) \in Nat
  BY DEF Of
<1>2. IsFiniteSet(R) /\ R \subseteq Nat
  <2> HIDE DEF R
  <2> QED  BY <1>1, IntervalPlaces
<1>3. \A i \in R : ms[i].seq \in Nat /\ i \in Nat
  <2>1. \A i \in R : ms[i] \in Message
    BY <1>1
  <2>2. \A m \in Message : m.seq \in Nat
    BY DEF Message
  <2> QED  BY <1>2, <2>1, <2>2
<1>4. \A i, j \in R : i < j => ms[i].seq < ms[j].seq
  BY DEF Of, Ascending
<1>5. ASSUME NEW i \in R PROVE PlaceIn(ms, R, i) = RankIn(R, i)
  <2>1. ASSUME NEW h \in R
        PROVE  (ms[h].seq < ms[i].seq \/ (ms[h].seq = ms[i].seq /\ h <= i)) <=> h <= i
    <3>1. h < i => ms[h].seq < ms[i].seq
      BY <1>4
    <3>2. i < h => ms[i].seq < ms[h].seq
      BY <1>4
    <3>3. h = i => ms[h].seq = ms[i].seq
      OBVIOUS
    <3> DEFINE x == ms[h].seq
               y == ms[i].seq
    <3>4. x \in Nat /\ y \in Nat /\ h \in Nat /\ i \in Nat
      BY <1>3
    <3>5. (h < i => x < y) /\ (i < h => y < x) /\ (h = i => x = y)
      BY <3>1, <3>2, <3>3
    <3> HIDE DEF x, y
    <3>6. (x < y \/ (x = y /\ h <= i)) <=> h <= i
      BY <3>4, <3>5
    <3> QED  BY <3>6 DEF x, y
  <2> HIDE DEF R
  <2> QED  BY <2>1 DEF PlaceIn, RankIn
<1>6. p = [n \in 1 .. c |-> p[n]] /\ u = [n \in 1 .. c |-> u[n]]
  BY DEF Picked, Sorted
<1>7. ASSUME NEW n \in 1 .. c PROVE p[n] = u[n]
  <2>1. PICK i \in R : RankIn(R, i) = n
    BY <1>2, RankTaken
  <2>2. p[n] = ms[i]
    BY <1>2, <2>1, PickedAt
  <2>3. \A h \in R : PlaceIn(ms, R, h) = n => h = i
    <3> SUFFICES ASSUME NEW h \in R, PlaceIn(ms, R, h) = n PROVE h = i
      OBVIOUS
    <3>1. RankIn(R, h) = RankIn(R, i)
      BY <1>5, <2>1
    <3> QED  BY <1>2, <3>1, RankOnce
  <2>4. PlaceIn(ms, R, i) = n
    BY <1>5, <2>1
  <2>5. (CHOOSE h \in R : PlaceIn(ms, R, h) = n) = i
    <3> HIDE DEF R
    <3> QED  BY <2>3, <2>4
  <2>6. u[n] = ms[CHOOSE h \in R : PlaceIn(ms, R, h) = n]
    BY DEF Sorted
  <2> HIDE DEF p, u
  <2> QED  BY <2>2, <2>5, <2>6
<1> HIDE DEF p, u, c
<1>8. p = u
  BY <1>6, <1>7
<1> QED  BY <1>8 DEF p, u

LEMMA SamePrefix ==
    ASSUME NEW u, NEW v, NEW c \in Nat, \A n \in 1 .. c : u[n] = v[n]
    PROVE  SubSeq(u, 1, c) = SubSeq(v, 1, c)
<1> DEFINE S == {u[n] : n \in 1 .. c}
           x == SubSeq(u, 1, c)
           y == SubSeq(v, 1, c)
<1>1. \A n \in 1 .. c : u[n] \in S /\ v[n] \in S
  OBVIOUS
<1> HIDE DEF S
<1>2. 1 \in Int /\ c \in Int /\ c - 1 + 1 = c /\ (IF 1 <= c THEN c - 1 + 1 ELSE 0) = c
      /\ \A n \in 1 .. c : 1 + n - 1 = n
  OBVIOUS
<1>3. x \in Seq(S) /\ Len(x) = c /\ \A n \in 1 .. c - 1 + 1 : x[n] = u[1 + n - 1]
  BY <1>1, <1>2, SubSeqProperties
<1>4. y \in Seq(S) /\ Len(y) = c /\ \A n \in 1 .. c - 1 + 1 : y[n] = v[1 + n - 1]
  BY <1>1, <1>2, SubSeqProperties
<1> HIDE DEF x, y
<1>5. x = y
  BY <1>2, <1>3, <1>4
<1> QED  BY <1>5 DEF x, y

Continues(ms, mt) ==
    Len(ms) <= Len(mt) /\ \A i \in 1 .. Len(ms) : mt[i] = ms[i]

LEMMA ShownGrows ==
    ASSUME NEW ms \in Seq(Message), NEW mt \in Seq(Message), Ascending(ms), Ascending(mt),
           Continues(ms, mt), NEW b
    PROVE  IsPrefix(ShownIn(ms, b), ShownIn(mt, b))
<1> DEFINE K == Of(ms, b)
           L == Of(mt, b)
           p == Picked(ms, K)
           q == Picked(mt, L)
           c == Cardinality(K)
           d == Cardinality(L)
           u == ShownIn(ms, b)
           v == ShownIn(mt, b)
           z == Len(ms)
<1>1. K \subseteq 1 .. z /\ L \subseteq 1 .. Len(mt) /\ z \in Nat /\ Len(mt) \in Nat /\ z <= Len(mt)
  BY DEF Of, Continues
<1>2. K = L \cap (1 .. z)
  <2>1. \A i \in 1 .. z : i \in 1 .. Len(mt) /\ mt[i] = ms[i]
    <3>1. \A i \in 1 .. z : i \in 1 .. Len(mt)
      BY <1>1
    <3> QED  BY <3>1 DEF Continues
  <2> QED  BY <2>1 DEF Of
<1>3. IsFiniteSet(L) /\ L \subseteq Nat \ {0} /\ IsFiniteSet(K) /\ c \in Nat /\ d \in Nat
  <2> HIDE DEF K, L
  <2>1. \A i \in L : i \in Nat \ {0}
    BY <1>1
  <2>2. L \subseteq Nat \ {0}
    BY <2>1
  <2> QED  BY <1>1, <2>2, IntervalPlaces
<1>4. c <= d
  <2>1. K \in SUBSET L
    BY <1>2
  <2> HIDE DEF K, L
  <2> QED  BY <1>3, <2>1, FS_Subset
<1>5. \A n \in 1 .. c : q[n] = p[n]
  <2>1. Beginning(K, L)
    <3> HIDE DEF K, L
    <3> QED  BY <1>1, <1>2, <1>3 DEF Beginning
  <2>2. Agree(ms, mt, K)
    <3> HIDE DEF K
    <3> QED  BY <1>1 DEF Agree, Continues
  <2> HIDE DEF K, L
  <2> QED  BY <2>1, <2>2, PickedMore
<1>6. Sorted(ms, K) = p /\ Sorted(mt, L) = q
  BY SortedIsPicked
<1>7. /\ u = [k \in 1 .. c |-> <<p[k].turn, p[k].role>>]
      /\ v = [k \in 1 .. d |-> <<q[k].turn, q[k].role>>]
  <2> HIDE DEF p, q
  <2> QED  BY <1>6 DEF ShownIn
<1> HIDE DEF p, q, c, d, u, v, K, L
<1>8. \A n \in 1 .. c : n \in 1 .. d
  BY <1>3, <1>4
<1>9. /\ u = [k \in 1 .. c |-> u[k]] /\ v = [k \in 1 .. d |-> v[k]]
      /\ \A n \in 1 .. c : u[n] = v[n]
  BY <1>5, <1>7, <1>8
<1>10. Len(u) = c /\ Len(v) = d
  BY <1>3, <1>9
<1>11. SubSeq(u, 1, c) = SubSeq(v, 1, c)
  BY <1>3, <1>9, SamePrefix
<1> QED  BY <1>4, <1>10, <1>11 DEF IsPrefix, u, v

-----------------------------------------------------------------------------
(* What the steps do to messages and path.                                 *)

TurnsOf(p)  == {p[i][1] : i \in 1 .. Len(p)}
Says        == Nat \X {"user", "assistant"}

LEMMA OnPathIs == \A b : OnPath(b) = TurnsOf(path[b]) /\ OnPath(b)' = TurnsOf(path'[b])
BY DEF OnPath, TurnsOf

LEMMA MessageParts ==
    \A m \in Message : /\ m.branch \in Branches /\ m.seq \in Nat /\ m.seq # 0 /\ m.turn \in Nat
                       /\ m.role \in {"user", "assistant"}
BY DEF Message

LEMMA MessagesTyped ==
    ASSUME messages \in Seq(Message)
    PROVE  /\ Len(messages) \in Nat
           /\ \A i \in 1 .. Len(messages) :
                 /\ messages[i] \in Message /\ messages[i].branch \in Branches
                 /\ messages[i].seq \in Nat /\ messages[i].seq # 0 /\ messages[i].turn \in Nat
<1>1. \A i \in 1 .. Len(messages) : messages[i] \in Message
  OBVIOUS
<1> QED  BY <1>1, MessageParts

LEMMA HighestHere ==
    ASSUME messages \in Seq(Message), NEW R, PlacesOf(R, messages)
    PROVE  /\ Highest(R) \in Nat
           /\ \A i \in R : messages[i].seq <= Highest(R)
           /\ Highest(R) = 0 \/ \E i \in R : Highest(R) = messages[i].seq
<1>1. Highest(R) = Max(Numbers(messages, R))
  BY DEF Highest, Numbers
<1>2. /\ Max(Numbers(messages, R)) \in Nat
      /\ \A i \in R : messages[i].seq <= Max(Numbers(messages, R))
      /\ Max(Numbers(messages, R)) = 0 \/ \E i \in R : Max(Numbers(messages, R)) = messages[i].seq
  BY HighestIs
<1> QED  BY <1>1, <1>2

(* Either counter exceeds every number of the branch it is used on.        *)
LEMMA NextExceeds ==
    ASSUME messages \in Seq(Message), NEW b
    PROVE  /\ NextSeq \in Nat \ {0} /\ NextSeqOn(b) \in Nat \ {0} /\ HighestSeq \in Nat
           /\ \A i \in 1 .. Len(messages) : messages[i].seq < NextSeq /\ messages[i].seq <= HighestSeq
           /\ \A i \in Rows(b) : messages[i].seq < NextSeqOn(b)
<1> DEFINE A == 1 .. Len(messages)
           R == Rows(b)
           g == Highest(A)
           h == Highest(R)
<1>1. PlacesOf(A, messages) /\ PlacesOf(R, messages) /\ R \subseteq A
  BY DEF PlacesOf, Rows
<1>2. \A i \in A : messages[i].seq \in Nat
  BY MessagesTyped
<1> HIDE DEF A, R
<1>3. g \in Nat /\ \A i \in A : messages[i].seq <= g
  BY <1>1, HighestHere
<1>4. h \in Nat /\ \A i \in R : messages[i].seq <= h
  BY <1>1, HighestHere
<1>5. NextSeq = g + 1 /\ NextSeqOn(b) = h + 1 /\ HighestSeq = g
  BY DEF NextSeq, HighestSeq, NextSeqOn, A, R
<1> HIDE DEF g, h
<1>6. \A i \in A : messages[i].seq < g + 1
  BY <1>2, <1>3
<1>7. \A i \in R : messages[i].seq < h + 1
  BY <1>1, <1>2, <1>4
<1>8. g + 1 \in Nat \ {0} /\ h + 1 \in Nat \ {0}
  BY <1>3, <1>4
<1> QED  BY <1>3, <1>5, <1>6, <1>7, <1>8 DEF A, R

PathTyped ==
    /\ path = [b \in DOMAIN path |-> path[b]]
    /\ \A b \in DOMAIN path : path[b] \in Seq(Says)

Spoken(b, seq, t, role) ==
    LET m == [branch |-> b, seq |-> seq, turn |-> t, role |-> role]
        z == Len(messages) + 1
    IN  /\ messages' \in Seq(Message) /\ Len(messages') = z /\ messages'[z] = m
        /\ \A i \in 1 .. Len(messages) : messages'[i] = messages[i]
        /\ DOMAIN path' = DOMAIN path /\ PathTyped'
        /\ OnPath(b)' = OnPath(b) \cup {t}
        /\ \A c \in DOMAIN path \ {b} : OnPath(c)' = OnPath(c)

LEMMA Appended ==
    ASSUME messages \in Seq(Message), PathTyped, NEW b \in DOMAIN path, b \in Branches,
           NEW seq \in Nat \ {0}, NEW t \in Nat, NEW role \in {"user", "assistant"},
           Append1(b, seq, t, role)
    PROVE  Spoken(b, seq, t, role)
<1> DEFINE m == [branch |-> b, seq |-> seq, turn |-> t, role |-> role]
           z == Len(messages) + 1
           x == <<t, role>>
           p == path[b]
           q == Append(p, x)
<1>1. m \in Message /\ messages' = Append(messages, m)
  BY DEF Message, Append1
<1>2. x \in Says /\ x[1] = t
  BY DEF Says
<1>3. p \in Seq(Says)
  BY DEF PathTyped
<1>4. path' = [path EXCEPT ![b] = q]
  BY DEF Append1
<1> HIDE DEF m, x, p
<1>5. /\ q \in Seq(Says) /\ Len(q) = Len(p) + 1 /\ Len(p) \in Nat /\ q[Len(p) + 1] = x
      /\ \A i \in 1 .. Len(p) : q[i] = p[i]
  BY <1>2, <1>3
<1> HIDE DEF q
<1>6. TurnsOf(q) = TurnsOf(p) \cup {t}
  <2>1. \A i \in 1 .. Len(q) : i \in 1 .. Len(p) \/ i = Len(p) + 1
    BY <1>5
  <2>2. Len(p) + 1 \in 1 .. Len(q) /\ \A i \in 1 .. Len(p) : i \in 1 .. Len(q)
    BY <1>5
  <2>3. \A i \in 1 .. Len(p) : q[i][1] = p[i][1]
    BY <1>5
  <2>4. q[Len(p) + 1][1] = t
    BY <1>2, <1>5
  <2> QED  BY <2>1, <2>2, <2>3, <2>4 DEF TurnsOf
<1>7. /\ DOMAIN path' = DOMAIN path /\ path'[b] = q /\ path' = [c \in DOMAIN path' |-> path'[c]]
      /\ \A c \in DOMAIN path \ {b} : path'[c] = path[c]
  BY <1>4
<1>8. PathTyped'
  BY <1>5, <1>7 DEF PathTyped
<1>9. OnPath(b)' = OnPath(b) \cup {t} /\ \A c \in DOMAIN path \ {b} : OnPath(c)' = OnPath(c)
  BY <1>6, <1>7, OnPathIs DEF p
<1>10. /\ messages' \in Seq(Message) /\ Len(messages') = z /\ messages'[z] = m
       /\ \A i \in 1 .. Len(messages) : messages'[i] = messages[i]
  BY <1>1
<1> QED  BY <1>7, <1>8, <1>9, <1>10 DEF Spoken, m

(* What the copies of a fork are.                                          *)
CopiesOf(ms, R, b, h) ==
    [k \in 1 .. Cardinality(R) |-> [Sorted(ms, R)[k] EXCEPT !.branch = b, !.seq = h + k]]
AreCopies(t, ms, n, b, h) ==
    /\ t \in Seq(Message) /\ Len(t) = n
    /\ \A k \in 1 .. n : /\ t[k].branch = b /\ t[k].seq = h + k
                         /\ \E i \in 1 .. Len(ms) : t[k].turn = ms[i].turn

LEMMA Copies ==
    ASSUME NEW ms \in Seq(Message), NEW R, PlacesOf(R, ms), NEW b \in Branches, NEW h \in Nat
    PROVE  AreCopies(CopiesOf(ms, R, b, h), ms, Cardinality(R), b, h) /\ Cardinality(R) \in Nat
<1> DEFINE c == Cardinality(R)
           t == CopiesOf(ms, R, b, h)
<1>1. c \in Nat /\ R \subseteq 1 .. Len(ms)
  <2>1. R \subseteq 1 .. Len(ms) /\ Len(ms) \in Nat
    BY DEF PlacesOf
  <2> QED  BY <2>1, IntervalPlaces
<1>2. ASSUME NEW k \in 1 .. c
      PROVE  /\ t[k] \in Message /\ t[k].branch = b /\ t[k].seq = h + k
             /\ \E i \in 1 .. Len(ms) : t[k].turn = ms[i].turn
  <2>1. PICK i \in R : Sorted(ms, R)[k] = ms[i]
    BY SortedFrom
  <2>2. i \in 1 .. Len(ms)
    BY <1>1
  <2> DEFINE m == ms[i]
             y == [m EXCEPT !.branch = b, !.seq = h + k]
  <2>3. m \in Message
    BY <2>2
  <2>4. t[k] = y
    BY <2>1 DEF CopiesOf
  <2> HIDE DEF m, c, t
  <2>5. h + k \in Nat \ {0}
    BY <1>1
  <2>6. y \in Message /\ y.branch = b /\ y.seq = h + k /\ y.turn = m.turn
    BY <2>3, <2>5 DEF Message
  <2> HIDE DEF y
  <2> QED  BY <2>2, <2>4, <2>6 DEF m
<1>3. t = [k \in 1 .. c |-> t[k]]
  BY DEF CopiesOf
<1> HIDE DEF c, t
<1>4. t \in Seq(Message) /\ Len(t) = c
  BY <1>1, <1>2, <1>3
<1> QED  BY <1>1, <1>2, <1>4 DEF c, t, AreCopies

(* What was said before a turn.                                            *)
LEMMA SaidBefore ==
    ASSUME NEW p \in Seq(Says), NEW n \in Nat
    PROVE  LET K == {i \in 1 .. Len(p) : p[i][1] < n}
           IN  /\ Picked(p, K) \in Seq(Says)
               /\ TurnsOf(Picked(p, K)) = {t \in TurnsOf(p) : t < n}
<1> DEFINE K == {i \in 1 .. Len(p) : p[i][1] < n}
           q == Picked(p, K)
<1>1. Len(p) \in Nat /\ \A i \in 1 .. Len(p) : p[i] \in Says
  OBVIOUS
<1>2. K \subseteq 1 .. Len(p) /\ \A i \in 1 .. Len(p) : i \in K <=> p[i][1] < n
  OBVIOUS
<1> HIDE DEF K
<1>3. IsFiniteSet(K) /\ K \subseteq Nat
  BY <1>1, <1>2, IntervalPlaces
<1>4. Elements(p, K, Says)
  BY <1>1, <1>2 DEF Elements
<1>5. q \in Seq(Says) /\ Len(q) = Cardinality(K) /\ Comes(q, p, K)
  BY <1>3, <1>4, PickedFrom
<1>6. ASSUME NEW i \in K PROVE \E j \in 1 .. Len(q) : q[j] = p[i]
  <2>1. i \in Nat /\ RankIn(K, i) \in 1 .. Cardinality(K)
    BY <1>3, RankType
  <2>2. q[RankIn(K, i)] = p[i]
    BY <1>3, PickedAt
  <2> HIDE DEF q
  <2> QED  BY <1>5, <2>1, <2>2
<1> HIDE DEF q
<1>7. \A j \in 1 .. Len(q) : \E i \in K : q[j] = p[i]
  BY <1>5 DEF Comes
<1>8. TurnsOf(q) = {t \in TurnsOf(p) : t < n}
  <2>1. ASSUME NEW j \in 1 .. Len(q) PROVE q[j][1] \in TurnsOf(p) /\ q[j][1] < n
    <3>1. PICK i \in K : q[j] = p[i]
      BY <1>7
    <3>2. i \in 1 .. Len(p) /\ p[i][1] < n
      BY <1>2
    <3> QED  BY <3>1, <3>2 DEF TurnsOf
  <2>2. ASSUME NEW i \in 1 .. Len(p), p[i][1] < n PROVE p[i][1] \in TurnsOf(q)
    <3>1. i \in K
      BY <1>2, <2>2
    <3>2. PICK j \in 1 .. Len(q) : q[j] = p[i]
      BY <1>6, <3>1
    <3> QED  BY <3>2 DEF TurnsOf
  <2>3. \A x \in TurnsOf(q) : \E j \in 1 .. Len(q) : x = q[j][1]
    BY DEF TurnsOf
  <2>4. \A x \in TurnsOf(p) : \E i \in 1 .. Len(p) : x = p[i][1]
    BY DEF TurnsOf
  <2> QED  BY <2>1, <2>2, <2>3, <2>4
<1> QED  BY <1>5, <1>8 DEF q, K

ForkOf(m, b) ==
    LET z == Len(messages)
    IN  /\ b \in Branches /\ b # Main
        /\ messages' \in Seq(Message) /\ Len(messages') \in Nat /\ z \in Nat /\ z <= Len(messages')
        /\ \A i \in 1 .. z : messages'[i] = messages[i]
        /\ \A i \in 1 .. Len(messages') : i \notin 1 .. z =>
              /\ messages'[i].branch = b /\ messages'[i].seq = HighestSeq + (i - z)
              /\ \E j \in 1 .. z : messages'[i].turn = messages[j].turn
        /\ PathTyped' /\ DOMAIN path' = DOMAIN path \cup {b}
        /\ \A c \in DOMAIN path : path'[c] = path[c] /\ OnPath(c)' = OnPath(c)
        /\ b \notin DOMAIN path => OnPath(b)' = {t \in OnPath(m.branch) : t < m.turn}
        /\ fromMain' \subseteq fromMain \cup {b}
        /\ b \in fromMain' => b \in fromMain \/ (m.branch = Main /\ b \notin DOMAIN path)

LEMMA Forked ==
    ASSUME messages \in Seq(Message), PathTyped, DOMAIN path \subseteq Branches,
           NEW m \in Message, m.branch \in DOMAIN path, edit = <<m>>, NEW now \in Nat, Fork(now)
    PROVE  ForkOf(m, <<m.seq, now>>)
<1> DEFINE b == <<m.seq, now>>
           z == Len(messages)
           R == {i \in 1 .. Len(messages) : messages[i].seq < m.seq}
           h == HighestSeq
           t == [k \in 1 .. Cardinality(R) |-> [BySeq(R)[k] EXCEPT !.branch = b, !.seq = h + k]]
           p == path[m.branch]
           K == {i \in 1 .. Len(p) : p[i][1] < m.turn}
           q == Picked(p, K)
           c == Cardinality(R)
<1>0. edit[1] = m
  OBVIOUS
<1>1. /\ messages' = messages \o t
      /\ path' = [d \in DOMAIN path \cup {b} |-> IF d \in DOMAIN path THEN path[d] ELSE q]
      /\ fromMain' = IF m.branch # Main THEN fromMain \ {b}
                     ELSE IF b \in DOMAIN path THEN fromMain ELSE fromMain \cup {b}
  BY <1>0 DEF Fork
<1>2. m.seq \in Nat /\ m.seq # 0 /\ m.turn \in Nat
  BY MessageParts
<1>3. b \in Branches /\ b # Main
  BY <1>2 DEF Branches, Main
<1>4. h \in Nat
  BY NextExceeds
<1>5. PlacesOf(R, messages)
  BY DEF PlacesOf
<1>6. /\ t \in Seq(Message) /\ Len(t) = c /\ c \in Nat
      /\ \A k \in 1 .. c : /\ t[k].branch = b /\ t[k].seq = h + k
                           /\ \E i \in 1 .. Len(messages) : t[k].turn = messages[i].turn
  <2>1. BySeq(R) = Sorted(messages, R)
    BY DEF BySeq, Sorted, Place, PlaceIn
  <2>3. t = CopiesOf(messages, R, b, h)
    <3> HIDE DEF R, h, b
    <3> QED  BY <2>1 DEF CopiesOf
  <2> HIDE DEF R, t, h, b
  <2>4. AreCopies(CopiesOf(messages, R, b, h), messages, c, b, h) /\ c \in Nat
    BY <1>3, <1>4, <1>5, Copies
  <2> QED  BY <2>3, <2>4 DEF AreCopies
<1>7. p \in Seq(Says) /\ q \in Seq(Says) /\ TurnsOf(q) = {x \in TurnsOf(p) : x < m.turn}
  <2>1. p \in Seq(Says)
    BY DEF PathTyped
  <2> HIDE DEF p
  <2> QED  BY <1>2, <2>1, SaidBefore
<1> HIDE DEF R, t, h, b, q, c, K, p
<1>8. /\ messages' \in Seq(Message) /\ Len(messages') = z + c /\ z \in Nat
      /\ \A i \in 1 .. z : messages'[i] = messages[i]
      /\ \A i \in 1 .. z + c : i \notin 1 .. z => messages'[i] = t[i - z]
  <2> DEFINE w == messages \o t
  <2>1. z \in Nat /\ t \in Seq(Message) /\ Len(t) = c /\ c \in Nat
    BY <1>6
  <2>2. /\ w \in Seq(Message) /\ Len(w) = Len(messages) + Len(t)
        /\ \A i \in 1 .. Len(messages) + Len(t) :
              w[i] = IF i <= Len(messages) THEN messages[i] ELSE t[i - Len(messages)]
    BY <2>1, ConcatProperties
  <2> HIDE DEF w, z
  <2>3. \A i \in 1 .. z + c : w[i] = IF i <= z THEN messages[i] ELSE t[i - z]
    BY <2>1, <2>2 DEF z
  <2>4. \A i \in 1 .. z : i \in 1 .. z + c /\ i <= z
    BY <2>1
  <2>5. \A i \in 1 .. z + c : i \notin 1 .. z => ~ (i <= z)
    BY <2>1
  <2>6. messages' = w
    BY <1>1 DEF w
  <2> QED  BY <2>1, <2>2, <2>3, <2>4, <2>5, <2>6 DEF z
<1>9. z + c \in Nat /\ z <= z + c
  BY <1>6, <1>8
<1>10. \A i \in 1 .. z + c : i \notin 1 .. z => i - z \in 1 .. c
  BY <1>6, <1>8
<1>11. /\ DOMAIN path' = DOMAIN path \cup {b} /\ path' = [d \in DOMAIN path' |-> path'[d]]
       /\ \A d \in DOMAIN path : path'[d] = path[d]
       /\ b \notin DOMAIN path => path'[b] = q
  BY <1>1
<1>12. PathTyped'
  BY <1>7, <1>11 DEF PathTyped
<1>13. /\ \A d \in DOMAIN path : OnPath(d)' = OnPath(d)
       /\ b \notin DOMAIN path => OnPath(b)' = {x \in OnPath(m.branch) : x < m.turn}
  BY <1>7, <1>11, OnPathIs DEF p
<1>14. fromMain' \subseteq fromMain \cup {b}
       /\ (b \in fromMain' => b \in fromMain \/ (m.branch = Main /\ b \notin DOMAIN path))
  BY <1>1
<1>15. \A i \in 1 .. Len(messages') : i \notin 1 .. z =>
                     /\ messages'[i].branch = b /\ messages'[i].seq = h + (i - z)
                     /\ \E j \in 1 .. z : messages'[i].turn = messages[j].turn
  <2> SUFFICES ASSUME NEW i \in 1 .. z + c, i \notin 1 .. z
               PROVE  /\ messages'[i].branch = b /\ messages'[i].seq = h + (i - z)
                      /\ \E j \in 1 .. z : messages'[i].turn = messages[j].turn
    BY <1>8
  <2> DEFINE k == i - z
  <2>1. k \in 1 .. c /\ messages'[i] = t[k]
    BY <1>8, <1>10
  <2> HIDE DEF k, z
  <2>2. t[k].branch = b /\ t[k].seq = h + k /\ \E j \in 1 .. z : t[k].turn = messages[j].turn
    BY <1>6, <2>1 DEF z
  <2>3. /\ messages'[i].branch = b /\ messages'[i].seq = h + k
        /\ \E j \in 1 .. z : messages'[i].turn = messages[j].turn
    BY <2>1, <2>2
  <2> QED  BY <2>3 DEF k
<1> QED  BY <1>3, <1>8, <1>9, <1>11, <1>12, <1>13, <1>14, <1>15 DEF ForkOf, b, h

-----------------------------------------------------------------------------
(* The conjuncts about messages, checkpoints and path, one lemma for each  *)
(* and for each way the messages grow.                                     *)

LEMMA Typed ==
    ASSUME TypeOK
    PROVE  /\ messages \in Seq(Message) /\ checkpoints \in Seq(Row) /\ PathTyped
           /\ DOMAIN path \subseteq Branches /\ branch \in DOMAIN path /\ Main \in DOMAIN path
           /\ fromMain \subseteq DOMAIN path /\ DOMAIN memory \subseteq DOMAIN path
           /\ Main \in DOMAIN memory /\ Main \notin fromMain
           /\ memory = [b \in DOMAIN memory |-> memory[b]]
           /\ \A b \in DOMAIN memory : memory[b] \in Seq(Point)
           /\ turns \in Nat /\ clock \in Nat /\ forks \in Nat /\ analysed \subseteq Nat
           /\ cp \in Seq(Point) /\ edit \in Seq(Message)
BY DEF TypeOK, PathTyped, Says

LEMMA RowParts ==
    \A x \in Row : x.branch \in Branches /\ x.lastSeq \in Nat /\ x.cp \in Point
                   /\ x.cp.turn \in Nat /\ x.cp.analysis \in BOOLEAN
<1>1. \A x \in Row : x.branch \in Branches /\ x.lastSeq \in Nat /\ x.cp \in Point
  BY DEF Row
<1>2. \A p \in Point : p.turn \in Nat /\ p.analysis \in BOOLEAN
  BY DEF Point
<1> QED  BY <1>1, <1>2

LEMMA CheckpointsTyped ==
    ASSUME checkpoints \in Seq(Row)
    PROVE  /\ Len(checkpoints) \in Nat
           /\ \A k \in 1 .. Len(checkpoints) :
                 /\ checkpoints[k] \in Row /\ checkpoints[k].branch \in Branches
                 /\ checkpoints[k].lastSeq \in Nat /\ checkpoints[k].cp \in Point
                 /\ checkpoints[k].cp.turn \in Nat
<1>1. \A k \in 1 .. Len(checkpoints) : checkpoints[k] \in Row
  OBVIOUS
<1> QED  BY <1>1, RowParts

LEMMA RowsAre == \A b : Rows(b) = Of(messages, b) /\ Rows(b)' = Of(messages', b)
BY DEF Rows, Of

QuestionIn(ms, i) == i \in 1 .. Len(ms) /\ ms[i].branch = Main /\ ms[i].role = "user"

LEMMA QuestionsAre ==
    \A i : (IsQuestion(i) <=> QuestionIn(messages, i)) /\ (IsQuestion(i)' <=> QuestionIn(messages', i))
BY DEF IsQuestion, QuestionIn, Rows

(* A message is appended.                                                  *)
Uttered(b, seq, t, role) ==
    LET z == Len(messages) + 1
    IN  /\ Len(messages') = z /\ messages'[z] = [branch |-> b, seq |-> seq, turn |-> t, role |-> role]
        /\ \A i \in 1 .. Len(messages) : messages'[i] = messages[i]
        /\ \A i \in Rows(b) : messages[i].seq < seq

LEMMA UtterNumbers ==
    ASSUME TypeOK, NumbersAscend, NEW b, NEW seq, NEW t, NEW role, Uttered(b, seq, t, role)
    PROVE  NumbersAscend'
<1> DEFINE z == Len(messages) + 1
<1>1. Len(messages) \in Nat
  BY Typed, MessagesTyped
<1>2. \A i \in 1 .. z : i \in 1 .. Len(messages) \/ i = z
  BY <1>1
<1>3. Len(messages') = z /\ \A i \in 1 .. Len(messages) : messages'[i] = messages[i]
  BY DEF Uttered
<1>4. messages'[z].branch = b /\ messages'[z].seq = seq
  BY DEF Uttered
<1>5. SUFFICES ASSUME NEW i \in 1 .. z, NEW j \in 1 .. z, i < j,
                      messages'[i].branch = messages'[j].branch
               PROVE  messages'[i].seq < messages'[j].seq
  BY <1>3 DEF NumbersAscend
<1>6. i \in 1 .. Len(messages)
  BY <1>1, <1>5
<1>7. CASE j = z
  <2>1. messages'[i] = messages[i] /\ messages[i].branch = b
    BY <1>3, <1>4, <1>5, <1>6, <1>7
  <2>2. i \in Rows(b)
    BY <1>6, <2>1 DEF Rows
  <2>3. messages[i].seq < seq
    BY <2>2 DEF Uttered
  <2> QED  BY <1>4, <1>7, <2>1, <2>3
<1>8. CASE j \in 1 .. Len(messages)
  <2>1. messages'[i] = messages[i] /\ messages'[j] = messages[j]
    BY <1>3, <1>6, <1>8
  <2>2. messages[i].seq < messages[j].seq
    BY <1>5, <1>6, <1>8, <2>1 DEF NumbersAscend
  <2> QED  BY <2>1, <2>2
<1> QED  BY <1>2, <1>7, <1>8

LEMMA UtterInOrder ==
    ASSUME TypeOK, SoFar, MainLineInOrder, NEW b, NEW seq, NEW t \in Nat, NEW role,
           Uttered(b, seq, t, role), role = "user" => turns < t
    PROVE  MainLineInOrder'
<1> DEFINE z == Len(messages) + 1
<1>1. Len(messages) \in Nat /\ turns \in Nat
      /\ \A i \in 1 .. Len(messages) : messages[i].turn \in Nat
  BY Typed, MessagesTyped
<1>2. \A i \in 1 .. z : i \in 1 .. Len(messages) \/ i = z
  BY <1>1
<1>3. Len(messages') = z /\ \A i \in 1 .. Len(messages) : messages'[i] = messages[i]
  BY DEF Uttered
<1>4. messages'[z].branch = b /\ messages'[z].turn = t /\ messages'[z].role = role
  BY DEF Uttered
<1>5. SUFFICES ASSUME NEW i \in 1 .. z, NEW j \in 1 .. z, i < j,
                      messages'[i].branch = Main, QuestionIn(messages', j)
               PROVE  messages'[i].turn < messages'[j].turn
  BY <1>3, QuestionsAre DEF MainLineInOrder, Rows
<1>6. i \in 1 .. Len(messages) /\ messages'[i] = messages[i]
  BY <1>1, <1>3, <1>5
<1>7. CASE j = z
  <2>1. role = "user"
    BY <1>4, <1>5, <1>7 DEF QuestionIn
  <2>2. messages[i].turn <= turns /\ messages[i].turn \in Nat /\ turns < t
    BY <1>1, <1>6, <2>1 DEF SoFar
  <2>3. messages[i].turn < t
    BY <1>1, <2>2
  <2> QED  BY <1>4, <1>6, <1>7, <2>3
<1>8. CASE j \in 1 .. Len(messages)
  <2>1. messages'[j] = messages[j]
    BY <1>3, <1>8
  <2>2. IsQuestion(j)
    BY <1>5, <1>8, <2>1, QuestionsAre DEF QuestionIn
  <2>3. i \in Rows(Main) /\ j \in Rows(Main)
    BY <1>5, <1>6, <2>2 DEF Rows, IsQuestion
  <2>4. messages[i].turn < messages[j].turn
    BY <1>5, <2>2, <2>3 DEF MainLineInOrder
  <2> QED  BY <1>6, <2>1, <2>4
<1> QED  BY <1>2, <1>7, <1>8

LEMMA UtterPlaced ==
    ASSUME TypeOK, SoFar, CheckpointsPlaced, NEW b, NEW seq \in Nat \ {0}, NEW t \in Nat, NEW role,
           Uttered(b, seq, t, role), role = "user" => turns < t,
           checkpoints' = checkpoints, DOMAIN path' = DOMAIN path
    PROVE  CheckpointsPlaced'
<1> DEFINE z == Len(messages) + 1
<1>1. Len(messages) \in Nat /\ turns \in Nat
      /\ \A i \in 1 .. Len(messages) : messages[i].seq \in Nat
      /\ \A k \in 1 .. Len(checkpoints) : checkpoints[k].lastSeq \in Nat /\ checkpoints[k].cp.turn \in Nat
  BY Typed, MessagesTyped, CheckpointsTyped
<1>2. \A i \in 1 .. z : i \in 1 .. Len(messages) \/ i = z
  BY <1>1
<1>3. /\ Len(messages') = z /\ \A i \in 1 .. Len(messages) : messages'[i] = messages[i]
      /\ \A i \in 1 .. Len(messages) : i \in 1 .. z
  BY <1>1 DEF Uttered
<1>4. /\ messages'[z].branch = b /\ messages'[z].turn = t /\ messages'[z].role = role
      /\ messages'[z].seq = seq
  BY DEF Uttered
<1>5. ASSUME NEW k \in 1 .. Len(checkpoints), checkpoints[k].branch = Main
      PROVE  /\ checkpoints[k].lastSeq = 0 \/ \E i \in Rows(Main)' : checkpoints[k].lastSeq = messages'[i].seq
             /\ \A i \in 1 .. z : QuestionIn(messages', i) =>
                  (messages'[i].turn <= checkpoints[k].cp.turn <=> messages'[i].seq <= checkpoints[k].lastSeq)
  <2> DEFINE n == checkpoints[k].lastSeq
             w == checkpoints[k].cp.turn
  <2>0. n \in Nat /\ w \in Nat /\ w <= turns
    <3>1. w <= turns
      BY DEF SoFar
    <3>2. n \in Nat /\ w \in Nat
      BY Typed, CheckpointsTyped
    <3> HIDE DEF n, w
    <3> QED  BY <3>1, <3>2
  <2>1. n = 0 \/ \E i \in Rows(Main) : n = messages[i].seq
    BY <1>5 DEF CheckpointsPlaced
  <2>2. \A i \in 1 .. Len(messages) : IsQuestion(i) => (messages[i].turn <= w <=> messages[i].seq <= n)
    BY <1>5 DEF CheckpointsPlaced
  <2> HIDE DEF n, w
  <2>3. \A i \in Rows(Main) : i \in Rows(Main)' /\ messages'[i].seq = messages[i].seq
    BY <1>3 DEF Rows
  <2>4. n = 0 \/ \E i \in Rows(Main)' : n = messages'[i].seq
    BY <2>1, <2>3
  <2>5. ASSUME NEW i \in 1 .. z, QuestionIn(messages', i)
        PROVE  messages'[i].turn <= w <=> messages'[i].seq <= n
    <3>1. CASE i \in 1 .. Len(messages)
      <4>1. messages'[i] = messages[i]
        BY <1>3, <3>1
      <4>2. IsQuestion(i)
        BY <2>5, <3>1, <4>1, QuestionsAre DEF QuestionIn
      <4> QED  BY <2>2, <3>1, <4>1, <4>2
    <3>2. CASE i = z
      <4>1. role = "user" /\ b = Main
        BY <1>4, <2>5, <3>2 DEF QuestionIn
      <4>2. ~ (t <= w)
        BY <1>1, <2>0, <4>1
      <4>3. n < seq
        <5>1. \A h \in Rows(Main) : messages[h].seq < seq
          BY <4>1 DEF Uttered
        <5> QED  BY <2>1, <5>1
      <4>4. ~ (seq <= n)
        BY <2>0, <4>3
      <4> QED  BY <1>4, <3>2, <4>2, <4>4
    <3> QED  BY <1>2, <3>1, <3>2
  <2> QED  BY <2>4, <2>5 DEF n, w
<1>6. \A k \in 1 .. Len(checkpoints) : checkpoints[k].branch \in DOMAIN path
  BY DEF CheckpointsPlaced
<1> HIDE DEF z
<1> QED  BY <1>3, <1>5, <1>6, QuestionsAre DEF CheckpointsPlaced

LEMMA MorePoints ==
    ASSUME TypeOK, ForkPoints, Continues(messages, messages'), messages' \in Seq(Message),
           edit' = edit \/ edit' = << >>, fromMain' \subseteq fromMain
    PROVE  ForkPoints'
<1>1. \A i \in 1 .. Len(messages) : i \in 1 .. Len(messages') /\ messages'[i] = messages[i]
  <2>1. Len(messages) \in Nat /\ Len(messages') \in Nat /\ Len(messages) <= Len(messages')
    BY Typed, MessagesTyped DEF Continues
  <2>2. \A i \in 1 .. Len(messages) : i \in 1 .. Len(messages')
    BY <2>1
  <2> QED  BY <2>2 DEF Continues
<1>2. ASSUME edit' # None
      PROVE  \E i \in 1 .. Len(messages') : edit'[1] = messages'[i] /\ messages'[i].role = "user"
  <2>1. edit' = edit /\ edit # None
    BY <1>2 DEF None
  <2> QED  BY <1>1, <2>1 DEF ForkPoints
<1>3. ASSUME NEW b \in fromMain'
      PROVE  \E i \in 1 .. Len(messages') : QuestionIn(messages', i) /\ messages'[i].seq = b[1]
  <2>1. PICK i \in 1 .. Len(messages) : IsQuestion(i) /\ messages[i].seq = b[1]
    BY DEF ForkPoints
  <2> QED  BY <1>1, <2>1, QuestionsAre DEF QuestionIn
<1> QED  BY <1>2, <1>3, QuestionsAre DEF ForkPoints

LEMMA KeepTable ==
    ASSUME TableFollowsPath, checkpoints' = checkpoints, fromMain' = fromMain,
           analysed' = analysed, DOMAIN path' = DOMAIN path, Known \subseteq DOMAIN path,
           \A c \in DOMAIN path : /\ OnPath(c) \subseteq OnPath(c)'
                                  /\ analysed \cap OnPath(c)' \subseteq OnPath(c)
    PROVE  TableFollowsPath'
<1>1. ASSUME NEW b \in Known
      PROVE  /\ \A k \in 1 .. Len(checkpoints) :
                    InChain(checkpoints[k], b) => checkpoints[k].cp.turn \in OnPath(b)'
             /\ \A t \in analysed \cap OnPath(b)' : \E k \in 1 .. Len(checkpoints) :
                   /\ InChain(checkpoints[k], b)
                   /\ checkpoints[k].cp.analysis /\ checkpoints[k].cp.turn = t
  <2>1. /\ \A k \in 1 .. Len(checkpoints) :
                    InChain(checkpoints[k], b) => checkpoints[k].cp.turn \in OnPath(b)
        /\ \A t \in analysed \cap OnPath(b) : \E k \in 1 .. Len(checkpoints) :
                   /\ InChain(checkpoints[k], b)
                   /\ checkpoints[k].cp.analysis /\ checkpoints[k].cp.turn = t
    BY DEF TableFollowsPath
  <2>2. OnPath(b) \subseteq OnPath(b)' /\ analysed \cap OnPath(b)' \subseteq OnPath(b)
    OBVIOUS
  <2> QED  BY <2>1, <2>2
<1>2. Known' = Known
  BY DEF Known
<1>3. \A k \in 1 .. Len(checkpoints) :
          checkpoints[k].cp.analysis => checkpoints[k].cp.turn \in analysed
  BY DEF TableFollowsPath
<1> QED  BY <1>1, <1>2, <1>3 DEF TableFollowsPath

(* A fork.                                                                 *)
ForkGrew(b, m) ==
    LET z == Len(messages)
    IN  /\ b # Main /\ Len(messages') \in Nat /\ z <= Len(messages')
        /\ \A i \in 1 .. z : messages'[i] = messages[i]
        /\ \A i \in 1 .. Len(messages') : i \notin 1 .. z =>
              /\ messages'[i].branch = b /\ messages'[i].seq = HighestSeq + (i - z)
              /\ \E j \in 1 .. z : messages'[i].turn = messages[j].turn
        /\ DOMAIN path' = DOMAIN path \cup {b}
        /\ \A c \in DOMAIN path : path'[c] = path[c] /\ OnPath(c)' = OnPath(c)
        /\ b \notin DOMAIN path => OnPath(b)' = {t \in OnPath(m.branch) : t < m.turn}
        /\ fromMain' \subseteq fromMain \cup {b}
        /\ b \in fromMain' => b \in fromMain \/ (m.branch = Main /\ b \notin DOMAIN path)
        /\ m \in Message /\ m.role = "user" /\ m.branch \in DOMAIN path
        /\ \E i \in 1 .. z : messages[i] = m
        /\ checkpoints' = checkpoints /\ analysed' = analysed /\ turns' = turns /\ b[1] = m.seq

LEMMA ForkNumbers ==
    ASSUME TypeOK, NumbersAscend, NEW b, NEW m, ForkGrew(b, m)
    PROVE  NumbersAscend'
<1> DEFINE z == Len(messages)
<1>1. z \in Nat /\ HighestSeq \in Nat /\ Len(messages') \in Nat
      /\ \A i \in 1 .. z : messages[i].seq \in Nat /\ messages[i].seq <= HighestSeq
  BY Typed, MessagesTyped, NextExceeds DEF ForkGrew
<1>2. \A i \in 1 .. z : messages'[i] = messages[i]
  BY DEF ForkGrew
<1>3. \A i \in 1 .. Len(messages') : i \notin 1 .. z => messages'[i].seq = HighestSeq + (i - z)
  BY DEF ForkGrew
<1>4. SUFFICES ASSUME NEW i \in 1 .. Len(messages'), NEW j \in 1 .. Len(messages'), i < j,
                      messages'[i].branch = messages'[j].branch
               PROVE  messages'[i].seq < messages'[j].seq
  BY DEF NumbersAscend
<1>5. CASE j \in 1 .. z
  <2>1. i \in 1 .. z
    BY <1>1, <1>4, <1>5
  <2>2. messages'[i] = messages[i] /\ messages'[j] = messages[j]
    BY <1>2, <1>5, <2>1
  <2> QED  BY <1>4, <1>5, <2>1, <2>2 DEF NumbersAscend
<1>6. CASE j \notin 1 .. z
  <2> DEFINE h == HighestSeq
             x == messages'[i].seq
             y == messages'[j].seq
  <2>1. y = h + (j - z)
    BY <1>3, <1>6
  <2>2. i \in 1 .. z => x \in Nat /\ x <= h
    BY <1>1, <1>2
  <2>3. i \notin 1 .. z => x = h + (i - z)
    BY <1>3
  <2>4. h \in Nat
    BY <1>1
  <2> HIDE DEF h, x, y, z
  <2>5. x < y
    BY <1>1, <1>4, <1>6, <2>1, <2>2, <2>3, <2>4
  <2> QED  BY <2>5 DEF x, y
<1> QED  BY <1>5, <1>6

LEMMA ForkMainRows ==
    ASSUME TypeOK, NEW b, NEW m, ForkGrew(b, m)
    PROVE  /\ Rows(Main)' = Rows(Main) /\ Rows(Main) \subseteq 1 .. Len(messages)
           /\ \A i \in 1 .. Len(messages) : i \in 1 .. Len(messages') /\ messages'[i] = messages[i]
           /\ \A i : QuestionIn(messages', i) <=> IsQuestion(i)
<1> DEFINE z == Len(messages)
<1>1. \A i \in 1 .. z : i \in 1 .. Len(messages') /\ messages'[i] = messages[i]
  <2>1. z \in Nat /\ Len(messages') \in Nat /\ z <= Len(messages')
    BY Typed, MessagesTyped DEF ForkGrew
  <2>2. \A i \in 1 .. z : i \in 1 .. Len(messages')
    BY <2>1
  <2> QED  BY <2>2 DEF ForkGrew
<1>2. \A i \in 1 .. Len(messages') : messages'[i].branch = Main => i \in 1 .. z
  BY DEF ForkGrew
<1>3. Rows(Main)' = Rows(Main) /\ Rows(Main) \subseteq 1 .. Len(messages)
  BY <1>1, <1>2 DEF Rows
<1>4. \A i : QuestionIn(messages', i) <=> IsQuestion(i)
  BY <1>1, <1>2, QuestionsAre DEF QuestionIn
<1> QED  BY <1>1, <1>3, <1>4

LEMMA ForkInOrder ==
    ASSUME TypeOK, MainLineInOrder, NEW b, NEW m, ForkGrew(b, m)
    PROVE  MainLineInOrder'
<1>1. /\ Rows(Main)' = Rows(Main)
      /\ \A i \in Rows(Main) : messages'[i] = messages[i]
      /\ \A i : IsQuestion(i)' <=> IsQuestion(i)
  BY ForkMainRows, QuestionsAre
<1> QED  BY <1>1 DEF MainLineInOrder

LEMMA ForkPlaced ==
    ASSUME TypeOK, CheckpointsPlaced, NEW b, NEW m, ForkGrew(b, m)
    PROVE  CheckpointsPlaced'
<1>1. /\ Rows(Main)' = Rows(Main) /\ Rows(Main) \subseteq 1 .. Len(messages)
      /\ \A i \in 1 .. Len(messages) : i \in 1 .. Len(messages') /\ messages'[i] = messages[i]
      /\ \A i : IsQuestion(i)' <=> IsQuestion(i)
  BY ForkMainRows, QuestionsAre
<1>2. \A i : IsQuestion(i) => i \in 1 .. Len(messages)
  BY DEF IsQuestion, Rows
<1>3. checkpoints' = checkpoints /\ DOMAIN path \subseteq DOMAIN path'
  BY DEF ForkGrew
<1> QED  BY <1>1, <1>2, <1>3 DEF CheckpointsPlaced

LEMMA ForkForkPoints ==
    ASSUME TypeOK, ForkPoints, NEW b, NEW m, ForkGrew(b, m), edit' = << >>
    PROVE  ForkPoints'
<1>1. /\ \A i \in 1 .. Len(messages) : i \in 1 .. Len(messages') /\ messages'[i] = messages[i]
      /\ \A i : QuestionIn(messages', i) <=> IsQuestion(i)
  BY ForkMainRows
<1>2. ASSUME NEW c \in fromMain'
      PROVE  \E i \in 1 .. Len(messages') : QuestionIn(messages', i) /\ messages'[i].seq = c[1]
  <2>1. CASE c \in fromMain
    <3>1. PICK i \in 1 .. Len(messages) : IsQuestion(i) /\ messages[i].seq = c[1]
      BY <2>1 DEF ForkPoints
    <3> QED  BY <1>1, <3>1
  <2>2. CASE c \notin fromMain
    <3>1. c = b /\ m.branch = Main
      BY <2>2 DEF ForkGrew
    <3>2. PICK i \in 1 .. Len(messages) : messages[i] = m
      BY DEF ForkGrew
    <3>3. QuestionIn(messages, i) /\ messages[i].seq = c[1]
      BY <3>1, <3>2 DEF QuestionIn, ForkGrew
    <3> QED  BY <1>1, <3>3, QuestionsAre
  <2> QED  BY <2>1, <2>2
<1>3. edit' = None
  BY DEF None
<1> QED  BY <1>2, <1>3, QuestionsAre DEF ForkPoints

LEMMA ForkTable ==
    ASSUME TypeOK, SoFar, CheckpointsPlaced, TableFollowsPath, NEW b, NEW m, ForkGrew(b, m)
    PROVE  TableFollowsPath'
<1>1. checkpoints' = checkpoints /\ analysed' = analysed
  BY DEF ForkGrew
<1>2. ASSUME NEW c \in Known'
      PROVE  /\ \A k \in 1 .. Len(checkpoints) :
                    InChain(checkpoints[k], c) => checkpoints[k].cp.turn \in OnPath(c)'
             /\ \A t \in analysed \cap OnPath(c)' : \E k \in 1 .. Len(checkpoints) :
                   /\ InChain(checkpoints[k], c)
                   /\ checkpoints[k].cp.analysis /\ checkpoints[k].cp.turn = t
  <2>1. CASE c \in Known
    <3>1. c \in DOMAIN path
      BY <2>1, Typed DEF Known
    <3>2. OnPath(c)' = OnPath(c)
      BY <3>1 DEF ForkGrew
    <3> QED  BY <2>1, <3>2 DEF TableFollowsPath
  <2>2. CASE c \notin Known
    <3>1. c = b /\ m.branch = Main /\ b \notin DOMAIN path /\ b # Main /\ b[1] = m.seq
      BY <2>2 DEF ForkGrew, Known
    <3>2. OnPath(c)' = {t \in OnPath(Main) : t < m.turn}
      BY <3>1 DEF ForkGrew
    <3>3. PICK i \in 1 .. Len(messages) : messages[i] = m
      BY DEF ForkGrew
    <3>4. IsQuestion(i) /\ m.seq \in Nat /\ m.turn \in Nat
      BY <3>1, <3>3, QuestionsAre, MessageParts DEF QuestionIn, ForkGrew
    <3>5. ASSUME NEW k \in 1 .. Len(checkpoints)
          PROVE  InChain(checkpoints[k], c) <=>
                    checkpoints[k].branch = Main /\ checkpoints[k].cp.turn < m.turn
      <4> DEFINE n == checkpoints[k].lastSeq
                 w == checkpoints[k].cp.turn
      <4>1. checkpoints[k].branch # b
        BY <3>1 DEF CheckpointsPlaced
      <4>2. n \in Nat /\ w \in Nat
        BY Typed, CheckpointsTyped
      <4>3. checkpoints[k].branch = Main => (m.turn <= w <=> m.seq <= n)
        BY <3>3, <3>4 DEF CheckpointsPlaced
      <4>4. InChain(checkpoints[k], c) <=> checkpoints[k].branch = Main /\ n < m.seq
        BY <3>1, <4>1 DEF InChain
      <4> HIDE DEF n, w
      <4>5. (n < m.seq <=> ~ (m.seq <= n)) /\ (w < m.turn <=> ~ (m.turn <= w))
        BY <3>4, <4>2
      <4> QED  BY <4>3, <4>4, <4>5 DEF w
    <3>6. ASSUME NEW k \in 1 .. Len(checkpoints), InChain(checkpoints[k], c)
          PROVE  checkpoints[k].cp.turn \in OnPath(c)'
      <4>1. checkpoints[k].branch = Main /\ checkpoints[k].cp.turn < m.turn
        BY <3>5, <3>6
      <4>2. checkpoints[k].cp.turn \in OnPath(Main)
        BY <4>1 DEF TableFollowsPath, Known, InChain
      <4> QED  BY <3>2, <4>1, <4>2
    <3>7. ASSUME NEW t \in analysed \cap OnPath(c)'
          PROVE  \E k \in 1 .. Len(checkpoints) :
                   /\ InChain(checkpoints[k], c)
                   /\ checkpoints[k].cp.analysis /\ checkpoints[k].cp.turn = t
      <4>1. t \in analysed \cap OnPath(Main) /\ t < m.turn
        BY <3>2, <3>7
      <4>2. PICK k \in 1 .. Len(checkpoints) :
               /\ InChain(checkpoints[k], Main)
               /\ checkpoints[k].cp.analysis /\ checkpoints[k].cp.turn = t
        BY <4>1 DEF TableFollowsPath, Known
      <4>3. checkpoints[k].branch = Main
        BY <4>2 DEF InChain
      <4> QED  BY <3>5, <4>1, <4>2, <4>3
    <3> QED  BY <3>6, <3>7
  <2> QED  BY <2>1, <2>2
<1>3. \A k \in 1 .. Len(checkpoints) :
          checkpoints[k].cp.analysis => checkpoints[k].cp.turn \in analysed
  BY DEF TableFollowsPath
<1> QED  BY <1>1, <1>2, <1>3 DEF TableFollowsPath

(* A checkpoint is saved: its row is the last, and some rows are gone.     *)
NewRow == [branch |-> branch, lastSeq |-> Highest(Rows(branch)), cp |-> cp[1]]

SavedRows(row) ==
    /\ checkpoints' \in Seq(Row)
    /\ \A k \in 1 .. Len(checkpoints') : checkpoints'[k] = row
          \/ \E j \in 1 .. Len(checkpoints) : checkpoints'[k] = checkpoints[j]
    /\ \A j \in 1 .. Len(checkpoints) : checkpoints[j].cp.analysis =>
          \E k \in 1 .. Len(checkpoints') : checkpoints'[k] = checkpoints[j]
    /\ row.cp.analysis => \E k \in 1 .. Len(checkpoints') : checkpoints'[k] = row

LEMMA SaveRows ==
    ASSUME checkpoints \in Seq(Row), NEW row \in Row, NEW b,
           checkpoints' = CompactRows(Append(checkpoints, row), b)
    PROVE  SavedRows(row)
<1> DEFINE more == Append(checkpoints, row)
           z == Len(checkpoints)
<1>1. /\ more \in Seq(Row) /\ Len(more) = z + 1 /\ z \in Nat /\ more[z + 1] = row
      /\ \A i \in 1 .. z : more[i] = checkpoints[i]
  BY CpsAppended
<1>2. checkpoints' = CompactRows(more, b)
  OBVIOUS
<1> HIDE DEF more
<1>3. RowsKept(CompactRows(more, b), more)
  BY <1>1, CompactRowsKeeps
<1>4. /\ checkpoints' \in Seq(Row)
      /\ \A k \in 1 .. Len(checkpoints') : \E i \in 1 .. z + 1 : checkpoints'[k] = more[i]
      /\ \A i \in 1 .. z + 1 : more[i].cp.analysis =>
            \E k \in 1 .. Len(checkpoints') : checkpoints'[k] = more[i]
  BY <1>1, <1>2, <1>3 DEF RowsKept
<1> HIDE DEF z
<1>5. /\ \A i \in 1 .. z + 1 : i \in 1 .. z \/ i = z + 1
      /\ \A i \in 1 .. z : i \in 1 .. z + 1
      /\ z + 1 \in 1 .. z + 1
  BY <1>1
<1>6. \A k \in 1 .. Len(checkpoints') : checkpoints'[k] = row
          \/ \E j \in 1 .. z : checkpoints'[k] = checkpoints[j]
  BY <1>1, <1>4, <1>5
<1>7. \A j \in 1 .. z : checkpoints[j].cp.analysis =>
          \E k \in 1 .. Len(checkpoints') : checkpoints'[k] = checkpoints[j]
  BY <1>1, <1>4, <1>5
<1>8. row.cp.analysis => \E k \in 1 .. Len(checkpoints') : checkpoints'[k] = row
  BY <1>1, <1>4, <1>5
<1> QED  BY <1>4, <1>6, <1>7, <1>8 DEF SavedRows, z

LEMMA NewRowIs ==
    ASSUME TypeOK, UnderWay, pc = "chained"
    PROVE  /\ NewRow \in Row /\ NewRow.branch = branch /\ NewRow.lastSeq = Highest(Rows(branch))
           /\ NewRow.cp = cp[1] /\ NewRow.cp.turn = turns /\ cp = <<cp[1]>> /\ cp[1] \in Point
<1>1. cp \in Seq(Point) /\ Len(cp) = 1 /\ cp[1].turn = turns
  BY Typed DEF UnderWay
<1>2. cp[1] \in Point /\ cp = <<cp[1]>>
  BY <1>1
<1>3. branch \in Branches
  BY Typed
<1>4. Highest(Rows(branch)) \in Nat
  <2>1. PlacesOf(Rows(branch), messages)
    BY DEF PlacesOf, Rows
  <2> QED  BY <2>1, Typed, HighestHere
<1> DEFINE c == cp[1]
           h == Highest(Rows(branch))
<1>5. c \in Point /\ h \in Nat /\ c.turn = turns
  BY <1>1, <1>2, <1>4
<1> HIDE DEF c, h
<1> DEFINE x == [branch |-> branch, lastSeq |-> h, cp |-> c]
<1>6. x \in Row /\ x.branch = branch /\ x.lastSeq = h /\ x.cp = c /\ x.cp.turn = turns
  BY <1>3, <1>5 DEF Row
<1> HIDE DEF x
<1>7. NewRow = x
  BY DEF NewRow, x, c, h
<1> QED  BY <1>2, <1>6, <1>7 DEF c, h

LEMMA SavePlaced ==
    ASSUME TypeOK, SoFar, UnderWay, CheckpointsPlaced, pc = "chained", SavedRows(NewRow),
           messages' = messages, path' = path
    PROVE  CheckpointsPlaced'
<1>1. ASSUME NEW r, \/ r = NewRow
                    \/ \E j \in 1 .. Len(checkpoints) : r = checkpoints[j]
      PROVE  /\ r.branch \in DOMAIN path
             /\ r.branch = Main =>
                  /\ r.lastSeq = 0 \/ \E i \in Rows(Main) : r.lastSeq = messages[i].seq
                  /\ \A i \in 1 .. Len(messages) : IsQuestion(i) =>
                        (messages[i].turn <= r.cp.turn <=> messages[i].seq <= r.lastSeq)
  <2>1. CASE r = NewRow
    <3>1. PlacesOf(Rows(Main), messages)
      BY DEF PlacesOf, Rows
    <3>2. /\ \A i \in Rows(Main) : messages[i].seq <= Highest(Rows(Main))
          /\ Highest(Rows(Main)) = 0 \/ \E i \in Rows(Main) : Highest(Rows(Main)) = messages[i].seq
      BY <3>1, Typed, HighestHere
    <3>3. r.branch = branch /\ r.lastSeq = Highest(Rows(branch)) /\ r.cp.turn = turns
      BY <2>1, NewRowIs
    <3>4. \A i \in 1 .. Len(messages) : IsQuestion(i) => messages[i].turn <= turns /\ i \in Rows(Main)
      BY DEF SoFar, IsQuestion
    <3> QED  BY <3>2, <3>3, <3>4, Typed
  <2>2. CASE \E j \in 1 .. Len(checkpoints) : r = checkpoints[j]
    BY <2>2 DEF CheckpointsPlaced
  <2> QED  BY <1>1, <2>1, <2>2
<1>2. \A k \in 1 .. Len(checkpoints') :
         \/ checkpoints'[k] = NewRow
         \/ \E j \in 1 .. Len(checkpoints) : checkpoints'[k] = checkpoints[j]
  BY DEF SavedRows
<1>3. Rows(Main)' = Rows(Main) /\ \A i : IsQuestion(i)' <=> IsQuestion(i)
  BY DEF Rows, IsQuestion
<1> QED  BY <1>1, <1>2, <1>3 DEF CheckpointsPlaced

LEMMA SaveTable ==
    ASSUME TypeOK, UnderWay, ForkPoints, TableFollowsPath, pc = "chained", SavedRows(NewRow),
           path' = path, fromMain' = fromMain,
           analysed' = IF cp[1].analysis THEN analysed \cup {turns} ELSE analysed
    PROVE  TableFollowsPath'
<1>1. /\ NewRow.branch = branch /\ NewRow.lastSeq = Highest(Rows(branch))
      /\ NewRow.cp = cp[1] /\ NewRow.cp.turn = turns
  BY NewRowIs
<1>2. \A k \in 1 .. Len(checkpoints') :
         \/ checkpoints'[k] = NewRow
         \/ \E j \in 1 .. Len(checkpoints) : checkpoints'[k] = checkpoints[j]
  BY DEF SavedRows
<1>3. Known' = Known /\ \A b : OnPath(b)' = OnPath(b)
  BY DEF Known, OnPath
<1>4. turns \in OnPath(branch) /\ \A b \in DOMAIN path \ {branch} : turns \notin OnPath(b)
  BY DEF UnderWay
<1>5. ASSUME NEW k \in 1 .. Len(checkpoints'), checkpoints'[k].cp.analysis
      PROVE  checkpoints'[k].cp.turn \in analysed'
  <2>1. CASE checkpoints'[k] = NewRow
    BY <1>1, <1>5, <2>1
  <2>2. CASE \E j \in 1 .. Len(checkpoints) : checkpoints'[k] = checkpoints[j]
    <3>1. PICK j \in 1 .. Len(checkpoints) : checkpoints'[k] = checkpoints[j]
      BY <2>2
    <3>2. checkpoints[j].cp.turn \in analysed
      BY <1>5, <3>1 DEF TableFollowsPath
    <3> QED  BY <3>1, <3>2
  <2> QED  BY <1>2, <2>1, <2>2
<1>6. ASSUME NEW b \in Known, InChain(NewRow, b) PROVE b = branch
  <2>1. b = branch \/ (b # Main /\ branch = Main /\ Highest(Rows(Main)) < b[1])
    BY <1>1, <1>6 DEF InChain
  <2>2. ASSUME b # Main, Highest(Rows(Main)) < b[1] PROVE FALSE
    <3>1. PICK i \in 1 .. Len(messages) : IsQuestion(i) /\ messages[i].seq = b[1]
      BY <2>2 DEF ForkPoints, Known
    <3>2. PlacesOf(Rows(Main), messages)
      BY DEF PlacesOf, Rows
    <3>3. messages[i].seq <= Highest(Rows(Main)) /\ Highest(Rows(Main)) \in Nat
      BY <3>1, <3>2, Typed, HighestHere DEF IsQuestion
    <3>4. messages[i].seq \in Nat
      BY Typed, MessagesTyped
    <3> QED  BY <2>2, <3>1, <3>3, <3>4
  <2> QED  BY <2>1, <2>2
<1>7. ASSUME NEW b \in Known, NEW k \in 1 .. Len(checkpoints'), InChain(checkpoints'[k], b)
      PROVE  checkpoints'[k].cp.turn \in OnPath(b)
  <2>1. CASE checkpoints'[k] = NewRow
    BY <1>1, <1>4, <1>6, <1>7, <2>1
  <2>2. CASE \E j \in 1 .. Len(checkpoints) : checkpoints'[k] = checkpoints[j]
    <3>1. PICK j \in 1 .. Len(checkpoints) : checkpoints'[k] = checkpoints[j]
      BY <2>2
    <3>2. checkpoints[j].cp.turn \in OnPath(b)
      BY <1>7, <3>1 DEF TableFollowsPath
    <3> QED  BY <3>1, <3>2
  <2> QED  BY <1>2, <2>1, <2>2
<1>8. ASSUME NEW b \in Known, NEW t \in analysed' \cap OnPath(b)
      PROVE  \E k \in 1 .. Len(checkpoints') :
                /\ InChain(checkpoints'[k], b)
                /\ checkpoints'[k].cp.analysis /\ checkpoints'[k].cp.turn = t
  <2>1. CASE t \in analysed
    <3>1. PICK j \in 1 .. Len(checkpoints) :
             /\ InChain(checkpoints[j], b)
             /\ checkpoints[j].cp.analysis /\ checkpoints[j].cp.turn = t
      BY <1>8, <2>1 DEF TableFollowsPath
    <3>2. PICK k \in 1 .. Len(checkpoints') : checkpoints'[k] = checkpoints[j]
      BY <3>1 DEF SavedRows
    <3> QED  BY <3>1, <3>2
  <2>2. CASE t \notin analysed
    <3>1. t = turns /\ cp[1].analysis
      BY <1>8, <2>2
    <3>2. b = branch
      <4>1. b \in DOMAIN path
        BY Typed DEF Known
      <4> QED  BY <1>4, <1>8, <3>1, <4>1
    <3>3. PICK k \in 1 .. Len(checkpoints') : checkpoints'[k] = NewRow
      BY <1>1, <3>1 DEF SavedRows
    <3> QED  BY <1>1, <3>1, <3>2, <3>3 DEF InChain
  <2> QED  BY <2>1, <2>2
<1> QED  BY <1>3, <1>5, <1>7, <1>8 DEF TableFollowsPath

-----------------------------------------------------------------------------
(* Chains in memory.                                                       *)

TurnsIn(chain) == {chain[i].turn : i \in 1 .. Len(chain)}

LEMMA RememberedIs == \A b : Remembered(b) = TurnsIn(memory[b]) /\ Remembered(b)' = TurnsIn(memory'[b])
BY DEF Remembered, TurnsIn

LEMMA EmptyChain == AnalysesIn(<< >>) = {} /\ TurnsIn(<< >>) = {}
BY DEF AnalysesIn, TurnsIn

LEMMA CompactTurns ==
    ASSUME NEW c \in Seq(Point)
    PROVE  /\ Compact(c) \in Seq(Point)
           /\ AnalysesIn(Compact(c)) = AnalysesIn(c) /\ TurnsIn(Compact(c)) \subseteq TurnsIn(c)
<1> DEFINE w == Compact(c)
<1>1. /\ w \in Seq(Point)
      /\ \A j \in 1 .. Len(w) : \E i \in 1 .. Len(c) : w[j] = c[i]
      /\ \A i \in 1 .. Len(c) : c[i].analysis => \E j \in 1 .. Len(w) : w[j] = c[i]
  BY CompactKeeps DEF PointsKept
<1> HIDE DEF w
<1>2. TurnsIn(w) \subseteq TurnsIn(c)
  BY <1>1 DEF TurnsIn
<1>3. \A t \in AnalysesIn(w) : t \in AnalysesIn(c)
  <2> SUFFICES ASSUME NEW j \in 1 .. Len(w), w[j].analysis PROVE w[j].turn \in AnalysesIn(c)
    BY DEF AnalysesIn
  <2>1. PICK i \in 1 .. Len(c) : w[j] = c[i]
    BY <1>1
  <2> QED  BY <2>1 DEF AnalysesIn
<1>4. \A t \in AnalysesIn(c) : t \in AnalysesIn(w)
  <2> SUFFICES ASSUME NEW i \in 1 .. Len(c), c[i].analysis PROVE c[i].turn \in AnalysesIn(w)
    BY DEF AnalysesIn
  <2>1. PICK j \in 1 .. Len(w) : w[j] = c[i]
    BY <1>1
  <2> QED  BY <2>1 DEF AnalysesIn
<1> QED  BY <1>1, <1>2, <1>3, <1>4 DEF w

LEMMA OneMore ==
    ASSUME NEW c \in Seq(Point), NEW p \in Point
    PROVE  /\ c \o <<p>> \in Seq(Point)
           /\ AnalysesIn(<<p>>) = IF p.analysis THEN {p.turn} ELSE {}
           /\ AnalysesIn(c \o <<p>>) = AnalysesIn(c) \cup AnalysesIn(<<p>>)
           /\ TurnsIn(c \o <<p>>) = TurnsIn(c) \cup {p.turn}
<1> DEFINE w == c \o <<p>>
           z == Len(c)
<1>1. w \in Seq(Point) /\ Len(w) = z + 1 /\ z \in Nat /\ w[z + 1] = p /\ \A i \in 1 .. z : w[i] = c[i]
  OBVIOUS
<1>2. Len(<<p>>) = 1 /\ <<p>>[1] = p
  OBVIOUS
<1>3. AnalysesIn(<<p>>) = IF p.analysis THEN {p.turn} ELSE {}
  <2> DEFINE o == <<p>>
  <2>1. Len(o) = 1 /\ o[1] = p /\ \A i \in 1 .. 1 : i = 1
    OBVIOUS
  <2> HIDE DEF o
  <2>2. {j \in 1 .. Len(o) : o[j].analysis} = IF p.analysis THEN {1} ELSE {}
    BY <2>1
  <2>3. AnalysesIn(o) = IF p.analysis THEN {p.turn} ELSE {}
    BY <2>1, <2>2 DEF AnalysesIn
  <2> QED  BY <2>3 DEF o
<1> HIDE DEF w, z
<1>4. (\A i \in 1 .. z + 1 : i \in 1 .. z \/ i = z + 1) /\ (\A i \in 1 .. z : i \in 1 .. z + 1)
      /\ z + 1 \in 1 .. z + 1
  BY <1>1
<1>5. TurnsIn(w) = TurnsIn(c) \cup {p.turn}
  <2>1. \A t \in TurnsIn(w) : t \in TurnsIn(c) \/ t = p.turn
    <3> SUFFICES ASSUME NEW i \in 1 .. z + 1 PROVE w[i].turn \in TurnsIn(c) \/ w[i].turn = p.turn
      BY <1>1 DEF TurnsIn
    <3> QED  BY <1>1, <1>4 DEF TurnsIn, z
  <2>2. \A t \in TurnsIn(c) : t \in TurnsIn(w)
    <3> SUFFICES ASSUME NEW i \in 1 .. z PROVE c[i].turn \in TurnsIn(w)
      BY DEF TurnsIn, z
    <3> QED  BY <1>1, <1>4 DEF TurnsIn
  <2>3. p.turn \in TurnsIn(w)
    BY <1>1, <1>4 DEF TurnsIn
  <2> QED  BY <2>1, <2>2, <2>3
<1>6. AnalysesIn(w) = AnalysesIn(c) \cup AnalysesIn(<<p>>)
  <2>1. \A t \in AnalysesIn(w) : t \in AnalysesIn(c) \/ (p.analysis /\ t = p.turn)
    <3> SUFFICES ASSUME NEW i \in 1 .. z + 1, w[i].analysis
                 PROVE  w[i].turn \in AnalysesIn(c) \/ (p.analysis /\ w[i].turn = p.turn)
      BY <1>1 DEF AnalysesIn
    <3> QED  BY <1>1, <1>4 DEF AnalysesIn, z
  <2>2. \A t \in AnalysesIn(c) : t \in AnalysesIn(w)
    <3> SUFFICES ASSUME NEW i \in 1 .. z, c[i].analysis PROVE c[i].turn \in AnalysesIn(w)
      BY DEF AnalysesIn, z
    <3> QED  BY <1>1, <1>4 DEF AnalysesIn
  <2>3. p.analysis => p.turn \in AnalysesIn(w)
    BY <1>1, <1>4 DEF AnalysesIn
  <2> QED  BY <1>3, <2>1, <2>2, <2>3
<1> QED  BY <1>1, <1>3, <1>5, <1>6 DEF w

(* What a restart restores is what the conversation calls for.             *)
LEMMA ListedFollows ==
    ASSUME TypeOK, TableFollowsPath, NEW b \in Known
    PROVE  /\ Listed(b) \in Seq(Point)
           /\ TurnsIn(Listed(b)) \subseteq OnPath(b)
           /\ AnalysesIn(Listed(b)) = analysed \cap OnPath(b)
<1> DEFINE w == Listed(b)
<1>1. /\ w \in Seq(Point)
      /\ \A n \in 1 .. Len(w) : \E k \in 1 .. Len(checkpoints) :
                 InChain(checkpoints[k], b) /\ w[n] = checkpoints[k].cp
      /\ \A k \in 1 .. Len(checkpoints) : InChain(checkpoints[k], b) =>
                 \E n \in 1 .. Len(w) : w[n] = checkpoints[k].cp
  <2>1. w = ListedIn(checkpoints, b)
    BY ListedIs
  <2>2. w \in Seq(Point) /\ ListsChain(w, checkpoints, b)
    BY <2>1, Typed, ListedHas
  <2> HIDE DEF w
  <2> QED  BY <2>2 DEF ListsChain
<1> HIDE DEF w
<1>2. /\ \A k \in 1 .. Len(checkpoints) :
            InChain(checkpoints[k], b) => checkpoints[k].cp.turn \in OnPath(b)
      /\ \A t \in analysed \cap OnPath(b) : \E k \in 1 .. Len(checkpoints) :
            /\ InChain(checkpoints[k], b)
            /\ checkpoints[k].cp.analysis /\ checkpoints[k].cp.turn = t
      /\ \A k \in 1 .. Len(checkpoints) :
            checkpoints[k].cp.analysis => checkpoints[k].cp.turn \in analysed
  BY DEF TableFollowsPath
<1>3. \A n \in 1 .. Len(w) : w[n].turn \in OnPath(b) /\ (w[n].analysis => w[n].turn \in analysed)
  BY <1>1, <1>2
<1>4. TurnsIn(w) \subseteq OnPath(b)
  BY <1>3 DEF TurnsIn
<1>5. \A t \in AnalysesIn(w) : t \in analysed \cap OnPath(b)
  BY <1>3 DEF AnalysesIn
<1>6. ASSUME NEW t \in analysed \cap OnPath(b) PROVE t \in AnalysesIn(w)
  <2>1. PICK k \in 1 .. Len(checkpoints) :
            /\ InChain(checkpoints[k], b)
            /\ checkpoints[k].cp.analysis /\ checkpoints[k].cp.turn = t
    BY <1>2
  <2>2. PICK n \in 1 .. Len(w) : w[n] = checkpoints[k].cp
    BY <1>1, <2>1
  <2> QED  BY <2>1, <2>2 DEF AnalysesIn
<1> QED  BY <1>1, <1>4, <1>5, <1>6 DEF w

-----------------------------------------------------------------------------
(* One lemma for each action.                                              *)

PlacesTyped ==
    /\ {Main, branch} \cup DOMAIN memory \cup fromMain \subseteq DOMAIN path
    /\ DOMAIN path \subseteq Branches /\ Main \in DOMAIN memory \ fromMain
MemoryTyped ==
    /\ memory = [b \in DOMAIN memory |-> memory[b]]
    /\ \A b \in DOMAIN memory : memory[b] \in Seq(Point)
RestTyped ==
    /\ pc \in {"idle", "said", "thinking", "chained", "saved"}
    /\ cp \in Seq(Point) /\ Len(cp) <= 1 /\ edit \in Seq(Message) /\ Len(edit) <= 1
    /\ clock \in Nat /\ turns \in Nat /\ forks \in Nat /\ analysed \subseteq Nat

LEMMA TypeOKIs ==
    /\ TypeOK <=> /\ messages \in Seq(Message) /\ checkpoints \in Seq(Row)
                  /\ PathTyped /\ PlacesTyped /\ MemoryTyped /\ RestTyped
    /\ TypeOK' <=> /\ messages' \in Seq(Message) /\ checkpoints' \in Seq(Row)
                   /\ PathTyped' /\ PlacesTyped' /\ MemoryTyped' /\ RestTyped'
BY DEF TypeOK, PathTyped, PlacesTyped, MemoryTyped, RestTyped, Says

(* What does not change with neither table nor path.                       *)
LEMMA Frame ==
    ASSUME HistoryInv, UNCHANGED <<diskVars, turns, path, fromMain, analysed>>
    PROVE  /\ NumbersAscend' /\ SoFar' /\ MainLineInOrder' /\ CheckpointsPlaced' /\ TableFollowsPath'
           /\ \A b : OnPath(b)' = OnPath(b) /\ Listed(b)' = Listed(b)
           /\ Known' = Known
<1>1. /\ messages' = messages /\ checkpoints' = checkpoints /\ turns' = turns /\ path' = path
      /\ fromMain' = fromMain /\ analysed' = analysed
  BY DEF diskVars
<1>2. NumbersAscend'
  BY <1>1 DEF HistoryInv, NumbersAscend
<1>3. \A b : OnPath(b)' = OnPath(b) /\ Listed(b)' = Listed(b)
  BY <1>1 DEF OnPath, Listed
<1>4. Known' = Known
  BY <1>1 DEF Known
<1>5. SoFar'
  BY <1>1, <1>3 DEF HistoryInv, SoFar
<1>6. MainLineInOrder'
  BY <1>1 DEF HistoryInv, MainLineInOrder, Rows, IsQuestion
<1>7. CheckpointsPlaced'
  BY <1>1 DEF HistoryInv, CheckpointsPlaced, Rows, IsQuestion
<1>8. TableFollowsPath'
  BY <1>1, <1>3, <1>4 DEF HistoryInv, TableFollowsPath
<1> QED  BY <1>2, <1>3, <1>4, <1>5, <1>6, <1>7, <1>8

LEMMA MoreOrSame ==
    ASSUME HistoryInv, messages' = messages, edit' = edit \/ edit' = << >>, fromMain' = fromMain
    PROVE  ForkPoints'
<1>1. TypeOK /\ ForkPoints
  BY DEF HistoryInv
<1>2. messages \in Seq(Message) /\ Len(messages) \in Nat
  BY <1>1, Typed, MessagesTyped
<1>3. Continues(messages, messages')
  BY <1>2 DEF Continues
<1> QED  BY <1>1, <1>2, <1>3, MorePoints

LEMMA InitOK == Init => HistoryInv
<1> SUFFICES ASSUME Init PROVE HistoryInv
  OBVIOUS
<1>1. /\ messages = << >> /\ checkpoints = << >>
      /\ memory = [b \in {Main} |-> << >>] /\ path = [b \in {Main} |-> << >>]
      /\ pc = "idle" /\ branch = Main /\ cp = << >> /\ edit = << >> /\ clock = 1
      /\ turns = 0 /\ forks = 0 /\ fromMain = {} /\ analysed = {}
  BY DEF Init, None
<1>2. DOMAIN memory = {Main} /\ DOMAIN path = {Main} /\ memory[Main] = << >> /\ path[Main] = << >>
      /\ Main \in Branches
  BY <1>1 DEF Main, Branches
<1>3. TypeOK
  <2>1. PathTyped /\ PlacesTyped /\ MemoryTyped
    BY <1>1, <1>2 DEF PathTyped, PlacesTyped, MemoryTyped
  <2>2. RestTyped
    BY <1>1 DEF RestTyped
  <2>3. messages \in Seq(Message) /\ checkpoints \in Seq(Row)
    BY <1>1
  <2> QED  BY <2>1, <2>2, <2>3, TypeOKIs
<1>4. Len(messages) = 0 /\ Len(checkpoints) = 0 /\ 1 .. 0 = {}
  BY <1>1
<1>5. OnPath(Main) = {} /\ Remembered(Main) = {}
  BY <1>1, <1>2, OnPathIs, RememberedIs, EmptyChain DEF TurnsOf, TurnsIn
<1>6. NumbersAscend
  BY <1>4 DEF NumbersAscend
<1>7. SoFar
  BY <1>1, <1>2, <1>4, <1>5 DEF SoFar
<1>8. UnderWay
  BY <1>1 DEF UnderWay, None
<1>9. MainLineInOrder
  BY <1>4 DEF MainLineInOrder, Rows
<1>10. CheckpointsPlaced
  BY <1>4 DEF CheckpointsPlaced
<1>11. ForkPoints
  BY <1>1 DEF ForkPoints, None
<1>12. TableFollowsPath
  BY <1>1, <1>4 DEF TableFollowsPath
<1>13. MemoryFollowsPath
  BY <1>1, <1>2, <1>5 DEF MemoryFollowsPath, Ready
<1>14. MemoryFollowsTable
  BY <1>1, <1>2 DEF MemoryFollowsTable, Ready
<1> QED  BY <1>3, <1>6, <1>7, <1>8, <1>9, <1>10, <1>11, <1>12, <1>13, <1>14 DEF HistoryInv

LEMMA EditCheckOK ==
    ASSUME HistoryInv, NEW m \in ToSet(messages), EditCheck(m)
    PROVE  HistoryInv'
<1>0. TypeOK /\ UnderWay /\ ForkPoints /\ MemoryFollowsPath /\ MemoryFollowsTable
  BY DEF HistoryInv
<1>1. /\ UNCHANGED <<diskVars, memory, runVars, clock, ghostVars>>
      /\ edit' = <<m>> /\ m.role = "user"
  BY DEF EditCheck
<1>2. UNCHANGED <<diskVars, turns, path, fromMain, analysed>> /\ messages' = messages
      /\ checkpoints' = checkpoints /\ memory' = memory /\ pc' = pc /\ branch' = branch /\ cp' = cp
      /\ clock' = clock /\ forks' = forks
  BY <1>1 DEF ghostVars, runVars, diskVars
<1>3. /\ NumbersAscend' /\ SoFar' /\ MainLineInOrder' /\ CheckpointsPlaced' /\ TableFollowsPath'
      /\ \A b : OnPath(b)' = OnPath(b) /\ Listed(b)' = Listed(b)
      /\ Known' = Known
  BY <1>2, Frame
<1>4. m \in Message /\ \E i \in 1 .. Len(messages) : m = messages[i]
  <2>1. messages \in Seq(Message)
    BY <1>0, Typed
  <2>2. PICK i \in 1 .. Len(messages) : m = messages[i]
    BY <2>1 DEF ToSet
  <2> QED  BY <2>1, <2>2
<1>5. TypeOK'
  <2>1. PathTyped' /\ PlacesTyped' /\ MemoryTyped'
    BY <1>0, <1>2, TypeOKIs DEF PathTyped, PlacesTyped, MemoryTyped
  <2>2. edit' \in Seq(Message) /\ Len(edit') <= 1
    BY <1>1, <1>4
  <2>3. RestTyped'
    BY <1>0, <1>2, <2>2, TypeOKIs DEF RestTyped
  <2> QED  BY <1>0, <1>2, <2>1, <2>3, TypeOKIs
<1>6. ForkPoints'
  <2>1. edit'[1] = m
    BY <1>1
  <2>2. \A i : IsQuestion(i)' <=> IsQuestion(i)
    BY <1>2 DEF IsQuestion, Rows
  <2> QED  BY <1>0, <1>1, <1>2, <1>4, <2>1, <2>2 DEF ForkPoints
<1>7. UnderWay'
  BY <1>0, <1>2, <1>3 DEF UnderWay
<1>8. /\ \A b : Remembered(b)' = Remembered(b) /\ (Ready(b)' <=> Ready(b)) /\ Pending(b)' = Pending(b)
      /\ DOMAIN memory' = DOMAIN memory
  BY <1>2 DEF Remembered, Ready, Pending
<1>9. MemoryFollowsPath'
  BY <1>0, <1>2, <1>3, <1>8 DEF MemoryFollowsPath
<1>10. MemoryFollowsTable'
  BY <1>0, <1>2, <1>3, <1>8 DEF MemoryFollowsTable
<1> QED  BY <1>3, <1>5, <1>6, <1>7, <1>9, <1>10 DEF HistoryInv

LEMMA CrashOK ==
    ASSUME HistoryInv, Crash
    PROVE  HistoryInv'
<1>0. TypeOK /\ ForkPoints
  BY DEF HistoryInv
<1>1. /\ UNCHANGED <<diskVars, clock, ghostVars>>
      /\ memory' = [b \in {Main} |-> << >>]
      /\ pc' = "idle" /\ branch' = Main /\ cp' = << >> /\ edit' = << >>
  BY DEF Crash, None
<1>2. UNCHANGED <<diskVars, turns, path, fromMain, analysed>> /\ messages' = messages
      /\ checkpoints' = checkpoints /\ path' = path /\ fromMain' = fromMain
      /\ clock' = clock /\ forks' = forks /\ turns' = turns /\ analysed' = analysed
  BY <1>1 DEF ghostVars, diskVars
<1>3. /\ NumbersAscend' /\ SoFar' /\ MainLineInOrder' /\ CheckpointsPlaced' /\ TableFollowsPath'
      /\ Known' = Known
  BY <1>2, Frame
<1>4. DOMAIN memory' = {Main} /\ memory'[Main] = << >>
  BY <1>1
<1>5. TypeOK'
  <2>1. PathTyped'
    BY <1>0, <1>2, TypeOKIs DEF PathTyped
  <2>2. MemoryTyped'
    BY <1>1, <1>4 DEF MemoryTyped
  <2>3. PlacesTyped'
    BY <1>0, <1>1, <1>2, <1>4, Typed DEF PlacesTyped
  <2>4. RestTyped'
    BY <1>0, <1>1, <1>2, TypeOKIs DEF RestTyped
  <2> QED  BY <1>0, <1>2, <2>1, <2>2, <2>3, <2>4, TypeOKIs
<1>6. ForkPoints'
  BY <1>1, <1>2, MoreOrSame
<1>7. UnderWay'
  BY <1>1 DEF UnderWay, None
<1>8. Remembered(Main)' = {} /\ ~ Ready(Main)'
  BY <1>1, <1>4, RememberedIs, EmptyChain DEF Ready
<1>9. MemoryFollowsPath'
  BY <1>4, <1>8 DEF MemoryFollowsPath
<1>10. MemoryFollowsTable'
  BY <1>8 DEF MemoryFollowsTable
<1> QED  BY <1>3, <1>5, <1>6, <1>7, <1>9, <1>10 DEF HistoryInv

LEMMA RestoreOK ==
    ASSUME HistoryInv, Restore
    PROVE  HistoryInv'
<1>0. TypeOK /\ UnderWay /\ TableFollowsPath /\ MemoryFollowsPath /\ MemoryFollowsTable
  BY DEF HistoryInv
<1> DEFINE kept == branch \in DOMAIN memory /\ memory[branch] # << >>
<1>1. /\ UNCHANGED <<diskVars, branch, cp, edit, clock, ghostVars>>
      /\ pc = "said" /\ pc' = "thinking"
      /\ memory' = IF kept THEN memory
                   ELSE [b \in DOMAIN memory \cup {branch} |->
                            IF b = branch THEN Listed(branch) ELSE memory[b]]
  BY DEF Restore
<1>2. UNCHANGED <<diskVars, turns, path, fromMain, analysed>> /\ messages' = messages
      /\ checkpoints' = checkpoints /\ path' = path /\ fromMain' = fromMain
      /\ clock' = clock /\ forks' = forks /\ turns' = turns /\ analysed' = analysed
      /\ branch' = branch /\ cp' = cp /\ edit' = edit
  BY <1>1 DEF ghostVars, diskVars
<1>3. /\ NumbersAscend' /\ SoFar' /\ MainLineInOrder' /\ CheckpointsPlaced' /\ TableFollowsPath'
      /\ \A b : OnPath(b)' = OnPath(b) /\ Listed(b)' = Listed(b)
      /\ Known' = Known
  BY <1>2, Frame
<1>4. /\ DOMAIN memory' = DOMAIN memory \cup {branch}
      /\ \A b \in DOMAIN memory : b # branch => memory'[b] = memory[b]
      /\ memory'[branch] = IF kept THEN memory[branch] ELSE Listed(branch)
      /\ memory' = [b \in DOMAIN memory' |-> memory'[b]]
  <2>1. memory = [b \in DOMAIN memory |-> memory[b]]
    BY <1>0, Typed
  <2> QED  BY <1>1, <2>1
<1>5. Listed(branch) \in Seq(Point)
  <2>1. Listed(branch) = ListedIn(checkpoints, branch)
    BY ListedIs
  <2> QED  BY <1>0, <2>1, Typed, ListedHas
<1> HIDE DEF kept
<1>6. TypeOK'
  <2>1. PathTyped'
    BY <1>0, <1>2, TypeOKIs DEF PathTyped
  <2>2. MemoryTyped'
    <3>1. ASSUME NEW b \in DOMAIN memory' PROVE memory'[b] \in Seq(Point)
      <4>1. CASE b = branch
        BY <1>0, <1>4, <1>5, <4>1, Typed DEF kept
      <4>2. CASE b # branch
        BY <1>0, <1>4, <4>2, Typed
      <4> QED  BY <4>1, <4>2
    <3> QED  BY <1>4, <3>1 DEF MemoryTyped
  <2>3. PlacesTyped'
    BY <1>0, <1>2, <1>4, TypeOKIs DEF PlacesTyped
  <2>4. RestTyped'
    BY <1>0, <1>1, <1>2, TypeOKIs DEF RestTyped
  <2> QED  BY <1>0, <1>2, <2>1, <2>2, <2>3, <2>4, TypeOKIs
<1>7. ForkPoints'
  BY <1>2, MoreOrSame
<1>8. UnderWay'
  BY <1>0, <1>1, <1>2, <1>3, <1>4 DEF UnderWay
<1>9. cp = << >> /\ \A b : Pending(b) = << >> /\ Pending(b)' = << >>
  BY <1>0, <1>1, <1>2 DEF UnderWay, Pending, None
<1>10. MemoryFollowsPath'
  <2> SUFFICES ASSUME NEW b \in Known, b \in DOMAIN memory'
               PROVE  /\ TurnsIn(memory'[b]) \subseteq OnPath(b)
                      /\ Ready(b)' => AnalysesIn(memory'[b])
                                        = (analysed \cap OnPath(b)) \cup AnalysesIn(<< >>)
    BY <1>2, <1>3, <1>9, RememberedIs DEF MemoryFollowsPath
  <2>1. CASE b = branch /\ ~ kept
    BY <1>0, <1>4, <2>1, ListedFollows, EmptyChain
  <2>2. CASE ~ (b = branch /\ ~ kept)
    <3>1. b \in DOMAIN memory /\ memory'[b] = memory[b]
      BY <1>4, <2>2 DEF kept
    <3>2. Ready(b)' => memory[b] # << >>
      BY <1>1, <1>2, <2>2, <3>1 DEF Ready, kept
    <3>3. Ready(b)' => Ready(b)
      BY <3>1, <3>2 DEF Ready
    <3> QED  BY <1>0, <1>9, <3>1, <3>3, RememberedIs DEF MemoryFollowsPath
  <2> QED  BY <2>1, <2>2
<1>11. MemoryFollowsTable'
  <2> SUFFICES ASSUME Ready(Main)' PROVE memory'[Main] = Listed(Main)
    BY <1>1, <1>3 DEF MemoryFollowsTable
  <2>1. CASE Main = branch /\ ~ kept
    BY <1>4, <2>1
  <2>2. CASE ~ (Main = branch /\ ~ kept)
    <3>1. Main \in DOMAIN memory /\ memory'[Main] = memory[Main]
      BY <1>0, <1>4, <2>2, Typed DEF kept
    <3>2. memory[Main] # << >>
      BY <1>1, <1>2, <2>2, <3>1 DEF Ready, kept
    <3> QED  BY <1>0, <1>1, <3>1, <3>2 DEF MemoryFollowsTable, Ready
  <2> QED  BY <2>1, <2>2
<1> QED  BY <1>3, <1>6, <1>7, <1>8, <1>10, <1>11 DEF HistoryInv

LEMMA ChainOK ==
    ASSUME HistoryInv, NEW isAnalysis \in BOOLEAN, Chain(isAnalysis)
    PROVE  HistoryInv'
<1>0. TypeOK /\ UnderWay /\ TableFollowsPath /\ MemoryFollowsPath /\ MemoryFollowsTable
  BY DEF HistoryInv
<1> DEFINE p == [turn |-> turns, analysis |-> isAnalysis]
           old == memory[branch]
           new == Compact(old \o <<p>>)
<1>1. /\ UNCHANGED <<diskVars, branch, edit, clock, ghostVars>>
      /\ pc = "thinking" /\ pc' = "chained" /\ cp' = <<p>>
      /\ memory' = [memory EXCEPT ![branch] = new]
  BY DEF Chain
<1>2. UNCHANGED <<diskVars, turns, path, fromMain, analysed>> /\ messages' = messages
      /\ checkpoints' = checkpoints /\ path' = path /\ fromMain' = fromMain
      /\ clock' = clock /\ forks' = forks /\ turns' = turns /\ analysed' = analysed
      /\ branch' = branch /\ edit' = edit
  BY <1>1 DEF ghostVars, diskVars
<1>3. /\ NumbersAscend' /\ SoFar' /\ MainLineInOrder' /\ CheckpointsPlaced' /\ TableFollowsPath'
      /\ \A b : OnPath(b)' = OnPath(b) /\ Listed(b)' = Listed(b)
      /\ Known' = Known
  BY <1>2, Frame
<1>4. branch \in DOMAIN memory /\ Ready(branch) /\ cp = << >> /\ turns \in OnPath(branch)
  BY <1>0, <1>1 DEF UnderWay, Ready, None
<1>5. p \in Point /\ p.turn = turns /\ <<p>> \in Seq(Point) /\ Len(<<p>>) = 1 /\ <<p>>[1] = p
  <2>1. turns \in Nat
    BY <1>0, Typed
  <2>2. p \in Point /\ p.turn = turns
    BY <2>1 DEF Point
  <2> HIDE DEF p
  <2> QED  BY <2>2
<1>6. old \in Seq(Point)
  BY <1>0, <1>4, Typed
<1> HIDE DEF p, old
<1>7. /\ new \in Seq(Point)
      /\ AnalysesIn(new) = AnalysesIn(old) \cup AnalysesIn(<<p>>)
      /\ TurnsIn(new) \subseteq TurnsIn(old) \cup {turns}
  <2> DEFINE w == old \o <<p>>
  <2>1. /\ w \in Seq(Point)
        /\ AnalysesIn(w) = AnalysesIn(old) \cup AnalysesIn(<<p>>)
        /\ TurnsIn(w) = TurnsIn(old) \cup {turns}
    BY <1>5, <1>6, OneMore
  <2> HIDE DEF w
  <2>2. /\ Compact(w) \in Seq(Point)
        /\ AnalysesIn(Compact(w)) = AnalysesIn(w) /\ TurnsIn(Compact(w)) \subseteq TurnsIn(w)
    BY <2>1, CompactTurns
  <2>3. new = Compact(w)
    BY DEF w
  <2> HIDE DEF new
  <2> QED  BY <2>1, <2>2, <2>3
<1> HIDE DEF new
<1>8. /\ DOMAIN memory' = DOMAIN memory
      /\ \A b \in DOMAIN memory : b # branch => memory'[b] = memory[b]
      /\ memory'[branch] = new
      /\ memory' = [b \in DOMAIN memory' |-> memory'[b]]
  BY <1>1, <1>4
<1>9. TypeOK'
  <2>1. PathTyped'
    BY <1>0, <1>2, TypeOKIs DEF PathTyped
  <2>2. MemoryTyped'
    <3>1. ASSUME NEW b \in DOMAIN memory' PROVE memory'[b] \in Seq(Point)
      <4>1. CASE b = branch
        BY <1>7, <1>8, <4>1
      <4>2. CASE b # branch
        BY <1>0, <1>8, <4>2, Typed
      <4> QED  BY <4>1, <4>2
    <3> QED  BY <1>8, <3>1 DEF MemoryTyped
  <2>3. PlacesTyped'
    BY <1>0, <1>2, <1>8, TypeOKIs DEF PlacesTyped
  <2>4. RestTyped'
    BY <1>0, <1>1, <1>2, <1>5, TypeOKIs DEF RestTyped
  <2> QED  BY <1>0, <1>2, <2>1, <2>2, <2>3, <2>4, TypeOKIs
<1>10. ForkPoints'
  BY <1>2, MoreOrSame
<1>11. UnderWay'
  BY <1>0, <1>1, <1>2, <1>3, <1>4, <1>5, <1>8 DEF UnderWay
<1>12. \A b : /\ Pending(b) = << >>
              /\ b # branch => Pending(b)' = << >>
              /\ b = branch => Pending(b)' = <<p>>
  BY <1>1, <1>2, <1>4 DEF Pending
<1>13. MemoryFollowsPath'
  <2> SUFFICES ASSUME NEW b \in Known, b \in DOMAIN memory
               PROVE  /\ TurnsIn(memory'[b]) \subseteq OnPath(b)
                      /\ Ready(b)' => AnalysesIn(memory'[b])
                                        = (analysed \cap OnPath(b)) \cup AnalysesIn(Pending(b)')
    BY <1>2, <1>3, <1>8, RememberedIs DEF MemoryFollowsPath
  <2>1. TurnsIn(memory[b]) \subseteq OnPath(b)
        /\ (Ready(b) => AnalysesIn(memory[b]) = analysed \cap OnPath(b))
    BY <1>0, <1>12, RememberedIs, EmptyChain DEF MemoryFollowsPath
  <2>2. CASE b = branch
    BY <1>4, <1>7, <1>8, <1>12, <2>1, <2>2 DEF old
  <2>3. CASE b # branch
    <3>1. memory'[b] = memory[b] /\ (Ready(b)' => Ready(b))
      BY <1>2, <1>8, <2>3 DEF Ready
    <3> QED  BY <1>12, <2>1, <2>3, <3>1, EmptyChain
  <2> QED  BY <2>2, <2>3
<1>14. MemoryFollowsTable'
  <2> SUFFICES ASSUME Ready(Main)'
               PROVE  memory'[Main] = IF branch = Main THEN Compact(Listed(Main) \o <<p>>) ELSE Listed(Main)
    BY <1>1, <1>2, <1>3 DEF MemoryFollowsTable
  <2>1. CASE branch = Main
    <3>1. old = Listed(Main)
      BY <1>0, <1>1, <1>4, <2>1 DEF MemoryFollowsTable, old
    <3> QED  BY <1>8, <2>1, <3>1 DEF new
  <2>2. CASE branch # Main
    <3>1. memory'[Main] = memory[Main] /\ Ready(Main)
      BY <1>0, <1>2, <1>8, <2>2, Typed DEF Ready
    <3> QED  BY <1>0, <1>1, <2>2, <3>1 DEF MemoryFollowsTable
  <2> QED  BY <2>1, <2>2
<1> QED  BY <1>3, <1>9, <1>10, <1>11, <1>13, <1>14 DEF HistoryInv

LEMMA SaveOK ==
    ASSUME HistoryInv, Save
    PROVE  HistoryInv'
<1>0. /\ TypeOK /\ NumbersAscend /\ SoFar /\ UnderWay /\ MainLineInOrder /\ CheckpointsPlaced
      /\ ForkPoints /\ TableFollowsPath /\ MemoryFollowsPath /\ MemoryFollowsTable
  BY DEF HistoryInv
<1>1. /\ UNCHANGED <<messages, memory, branch, edit, clock, turns, forks, path, fromMain>>
      /\ pc = "chained" /\ pc' = "saved" /\ cp' = << >>
      /\ checkpoints' = CompactRows(Append(checkpoints, NewRow), branch)
      /\ analysed' = IF cp[1].analysis THEN analysed \cup {turns} ELSE analysed
  BY DEF Save, None, NewRow
<1>2. /\ messages' = messages /\ memory' = memory /\ branch' = branch /\ edit' = edit /\ clock' = clock
      /\ turns' = turns /\ forks' = forks /\ path' = path /\ fromMain' = fromMain
  BY <1>1
<1>3. /\ NewRow \in Row /\ NewRow.branch = branch /\ NewRow.cp = cp[1] /\ NewRow.cp.turn = turns
      /\ cp = <<cp[1]>> /\ cp[1] \in Point
  BY <1>0, <1>1, NewRowIs
<1>4. SavedRows(NewRow)
  BY <1>0, <1>1, <1>3, Typed, SaveRows
<1>5. CheckpointsPlaced'
  BY <1>0, <1>1, <1>4, SavePlaced
<1>6. TableFollowsPath'
  BY <1>0, <1>1, <1>4, SaveTable
<1>7. NumbersAscend' /\ MainLineInOrder'
  BY <1>0, <1>2 DEF NumbersAscend, MainLineInOrder, Rows, IsQuestion
<1>8. /\ \A b : OnPath(b)' = OnPath(b) /\ Remembered(b)' = Remembered(b)
      /\ Known' = Known
  BY <1>2 DEF OnPath, Remembered, Known
<1>9. SoFar'
  <2>1. \A k \in 1 .. Len(checkpoints') : checkpoints'[k].cp.turn <= turns
    <3> SUFFICES ASSUME NEW k \in 1 .. Len(checkpoints') PROVE checkpoints'[k].cp.turn <= turns
      OBVIOUS
    <3>1. CASE checkpoints'[k] = NewRow
      BY <1>0, <1>3, <3>1, Typed
    <3>2. CASE \E j \in 1 .. Len(checkpoints) : checkpoints'[k] = checkpoints[j]
      BY <1>0, <3>2 DEF SoFar
    <3> QED  BY <1>4, <3>1, <3>2 DEF SavedRows
  <2>2. \A t \in analysed' : t <= turns
    <3>1. turns <= turns
      BY <1>0, Typed
    <3> QED  BY <1>0, <1>1, <3>1 DEF SoFar
  <2> QED  BY <1>0, <1>2, <1>8, <2>1, <2>2 DEF SoFar
<1>10. TypeOK'
  <2>1. PathTyped' /\ PlacesTyped' /\ MemoryTyped'
    BY <1>0, <1>2, TypeOKIs DEF PathTyped, PlacesTyped, MemoryTyped
  <2>2. analysed' \subseteq Nat
    BY <1>0, <1>1, Typed
  <2>3. RestTyped'
    BY <1>0, <1>1, <1>2, <2>2, TypeOKIs DEF RestTyped
  <2> QED  BY <1>0, <1>2, <1>4, <2>1, <2>3, TypeOKIs DEF SavedRows
<1>11. ForkPoints'
  BY <1>2, MoreOrSame
<1>12. UnderWay'
  BY <1>0, <1>1, <1>2, <1>8 DEF UnderWay, None
<1>13. turns \in OnPath(branch) /\ \A b \in DOMAIN path \ {branch} : turns \notin OnPath(b)
  BY <1>0, <1>1 DEF UnderWay
<1>14. AnalysesIn(cp) = IF cp[1].analysis THEN {turns} ELSE {}
  <2>1. AnalysesIn(<<cp[1]>>) = IF cp[1].analysis THEN {cp[1].turn} ELSE {}
    <3>1. << >> \in Seq(Point)
      OBVIOUS
    <3> QED  BY <1>3, <3>1, OneMore
  <2> QED  BY <1>3, <2>1
<1>15. MemoryFollowsPath'
  <2> SUFFICES ASSUME NEW b \in Known, b \in DOMAIN memory
               PROVE  /\ Remembered(b) \subseteq OnPath(b)
                      /\ Ready(b)' => AnalysesIn(memory[b])
                                        = (analysed' \cap OnPath(b)) \cup AnalysesIn(<< >>)
    BY <1>1, <1>2, <1>8 DEF MemoryFollowsPath, Pending
  <2>1. Ready(b)' => Ready(b)
    BY <1>1, <1>2 DEF Ready
  <2>2. /\ Remembered(b) \subseteq OnPath(b)
        /\ Ready(b) => AnalysesIn(memory[b]) = (analysed \cap OnPath(b)) \cup AnalysesIn(Pending(b))
    BY <1>0 DEF MemoryFollowsPath
  <2>3. b \in DOMAIN path
    BY <1>0, Typed
  <2>4. (analysed' \cap OnPath(b)) = (analysed \cap OnPath(b)) \cup AnalysesIn(Pending(b))
    <3>1. CASE b = branch
      BY <1>1, <1>13, <1>14, <3>1 DEF Pending
    <3>2. CASE b # branch
      BY <1>1, <1>13, <2>3, <3>2, EmptyChain DEF Pending
    <3> QED  BY <3>1, <3>2
  <2> QED  BY <2>1, <2>2, <2>4, EmptyChain
<1>16. MemoryFollowsTable'
  <2>1. Listed(Main)' = ListedIn(checkpoints', Main) /\ Listed(Main) = ListedIn(checkpoints, Main)
    BY DEF Listed, ListedIn, Cps, ChainOf
  <2> SUFFICES ASSUME Ready(Main)' PROVE memory[Main] = ListedIn(checkpoints', Main)
    BY <1>1, <1>2, <2>1 DEF MemoryFollowsTable
  <2>2. memory[Main] = IF branch = Main THEN Compact(Listed(Main) \o cp) ELSE Listed(Main)
    <3>1. Ready(Main)
      BY <1>1, <1>2 DEF Ready
    <3> QED  BY <1>0, <1>1, <3>1 DEF MemoryFollowsTable
  <2> DEFINE row == NewRow
  <2>3. row \in Row /\ row.branch = branch /\ <<row.cp>> = cp /\ checkpoints \in Seq(Row)
    BY <1>0, <1>3, Typed
  <2>4. checkpoints' = CompactRows(Append(checkpoints, row), branch)
    BY <1>1
  <2> HIDE DEF row
  <2>5. CASE branch = Main
    <3>1. ListedIn(CompactRows(Append(checkpoints, row), Main), Main)
             = Compact(ListedIn(checkpoints, Main) \o <<row.cp>>)
      BY <2>3, <2>5, MainSave
    <3> QED  BY <2>1, <2>2, <2>3, <2>4, <2>5, <3>1
  <2>6. CASE branch # Main
    <3>1. ListedIn(CompactRows(Append(checkpoints, row), row.branch), Main) = ListedIn(checkpoints, Main)
      BY <2>3, <2>6, OtherSave
    <3> QED  BY <2>1, <2>2, <2>3, <2>4, <2>6, <3>1
  <2> QED  BY <2>5, <2>6
<1> QED  BY <1>5, <1>6, <1>7, <1>9, <1>10, <1>11, <1>12, <1>15, <1>16 DEF HistoryInv

(* A message of b's is appended: what the conjuncts about messages,        *)
(* checkpoints and path need.                                              *)
LEMMA UtterKeeps ==
    ASSUME HistoryInv, NEW b \in DOMAIN path, NEW seq \in Nat \ {0}, NEW t \in Nat,
           NEW role \in {"user", "assistant"}, Append1(b, seq, t, role),
           \A i \in Rows(b) : messages[i].seq < seq,
           role = "user" => turns < t, turns' \in Nat, turns <= turns', t <= turns',
           t \notin analysed \/ t \in OnPath(b),
           UNCHANGED <<checkpoints, fromMain, analysed, edit>>
    PROVE  /\ messages' \in Seq(Message) /\ PathTyped' /\ DOMAIN path' = DOMAIN path
           /\ OnPath(b)' = OnPath(b) \cup {t} /\ \A c \in DOMAIN path \ {b} : OnPath(c)' = OnPath(c)
           /\ NumbersAscend' /\ SoFar' /\ MainLineInOrder' /\ CheckpointsPlaced' /\ ForkPoints'
           /\ TableFollowsPath'
<1>0. /\ TypeOK /\ NumbersAscend /\ SoFar /\ MainLineInOrder /\ CheckpointsPlaced
      /\ ForkPoints /\ TableFollowsPath
  BY DEF HistoryInv
<1> DEFINE z == Len(messages) + 1
<1>1. /\ messages' \in Seq(Message) /\ Len(messages') = z
      /\ messages'[z] = [branch |-> b, seq |-> seq, turn |-> t, role |-> role]
      /\ \A i \in 1 .. Len(messages) : messages'[i] = messages[i]
      /\ DOMAIN path' = DOMAIN path /\ PathTyped'
      /\ OnPath(b)' = OnPath(b) \cup {t}
      /\ \A c \in DOMAIN path \ {b} : OnPath(c)' = OnPath(c)
  <2>1. messages \in Seq(Message) /\ PathTyped /\ b \in Branches
    BY <1>0, Typed
  <2>2. Spoken(b, seq, t, role)
    BY <2>1, Appended
  <2> QED  BY <2>2 DEF Spoken
<1>2. Uttered(b, seq, t, role)
  BY <1>1 DEF Uttered
<1>3. NumbersAscend'
  BY <1>0, <1>2, UtterNumbers
<1>4. MainLineInOrder'
  BY <1>0, <1>2, UtterInOrder
<1>5. CheckpointsPlaced'
  BY <1>0, <1>1, <1>2, UtterPlaced
<1>6. ForkPoints'
  <2>1. Len(messages) \in Nat
    BY <1>0, Typed, MessagesTyped
  <2>2. Len(messages) <= Len(messages')
    BY <1>1, <2>1
  <2>3. Continues(messages, messages')
    BY <1>1, <2>2 DEF Continues
  <2> QED  BY <1>0, <1>1, <2>3, MorePoints
<1>7. TableFollowsPath'
  <2>1. Known \subseteq DOMAIN path
    BY <1>0, Typed DEF Known
  <2>2. ASSUME NEW c \in DOMAIN path
        PROVE  /\ OnPath(c) \subseteq OnPath(c)'
               /\ analysed \cap OnPath(c)' \subseteq OnPath(c)
    <3>1. CASE c = b
      BY <1>1, <3>1
    <3>2. CASE c # b
      BY <1>1, <3>2
    <3> QED  BY <3>1, <3>2
  <2> QED  BY <1>0, <1>1, <2>1, <2>2, KeepTable
<1>8. SoFar'
  <2>1. Len(messages) \in Nat /\ turns \in Nat /\ analysed \subseteq Nat
        /\ \A i \in 1 .. Len(messages) : messages[i].turn \in Nat
    BY <1>0, Typed, MessagesTyped
  <2>0. \A n \in Nat : n <= turns => n <= turns'
    BY <2>1
  <2>2. ASSUME NEW i \in 1 .. z PROVE messages'[i].turn <= turns' /\ messages'[i].branch \in DOMAIN path
    <3>1. CASE i \in 1 .. Len(messages)
      <4>1. messages'[i] = messages[i]
        BY <1>1, <3>1
      <4>2. messages[i].turn <= turns /\ messages[i].branch \in DOMAIN path
        BY <1>0, <3>1 DEF SoFar
      <4>3. messages[i].turn \in Nat
        BY <2>1, <3>1
      <4> QED  BY <2>0, <4>1, <4>2, <4>3
    <3>2. CASE i \notin 1 .. Len(messages)
      <4>1. i = z
        BY <2>1, <3>2
      <4> QED  BY <1>1, <4>1
    <3> QED  BY <3>1, <3>2
  <2>3. ASSUME NEW c \in DOMAIN path, NEW x \in OnPath(c)' PROVE x <= turns'
    <3>1. x \in OnPath(c) \/ x = t
      BY <1>1
    <3>2. ASSUME x \in OnPath(c) PROVE x <= turns'
      <4>1. x <= turns
        BY <1>0, <3>2 DEF SoFar
      <4>2. x \in Nat
        <5>1. path[c] \in Seq(Says)
          BY <1>0, Typed DEF PathTyped
        <5> DEFINE p == path[c]
        <5>2. \A i \in 1 .. Len(p) : p[i] \in Says
          BY <5>1
        <5> HIDE DEF p
        <5>3. \A i \in 1 .. Len(p) : p[i][1] \in Nat
          BY <5>2 DEF Says
        <5> QED  BY <3>2, <5>3, OnPathIs DEF TurnsOf, p
      <4> QED  BY <2>0, <4>1, <4>2
    <3> QED  BY <3>1, <3>2
  <2>4. \A k \in 1 .. Len(checkpoints) : checkpoints[k].cp.turn <= turns'
    <3>1. \A k \in 1 .. Len(checkpoints) : checkpoints[k].cp.turn \in Nat
      BY <1>0, Typed, CheckpointsTyped
    <3>2. \A k \in 1 .. Len(checkpoints) : checkpoints[k].cp.turn <= turns
      BY <1>0 DEF SoFar
    <3> QED  BY <2>0, <3>1, <3>2
  <2>5. \A x \in analysed : x <= turns'
    <3>1. \A x \in analysed : x \in Nat /\ x <= turns
      BY <1>0, <2>1 DEF SoFar
    <3> QED  BY <2>0, <3>1
  <2> HIDE DEF z
  <2> QED  BY <1>1, <2>2, <2>3, <2>4, <2>5 DEF SoFar
<1> QED  BY <1>1, <1>3, <1>4, <1>5, <1>6, <1>7, <1>8

LEMMA SayOK ==
    ASSUME HistoryInv, NEW b \in DOMAIN path, NEW seq \in Nat \ {0},
           \A i \in Rows(b) : messages[i].seq < seq, Say(b, seq)
    PROVE  HistoryInv'
<1>0. /\ TypeOK /\ SoFar /\ UnderWay /\ MemoryFollowsPath /\ MemoryFollowsTable
  BY DEF HistoryInv
<1>1. /\ pc = "idle" /\ pc' = "said" /\ branch' = b /\ turns' = turns + 1
      /\ Append1(b, seq, turns', "user")
      /\ checkpoints' = checkpoints /\ memory' = memory /\ cp' = cp /\ edit' = edit
      /\ clock' = clock /\ forks' = forks /\ fromMain' = fromMain /\ analysed' = analysed
  BY DEF Say
<1> DEFINE t == turns + 1
<1>2. turns \in Nat /\ t \in Nat /\ turns < t /\ turns <= t /\ t <= t /\ ~ (t <= turns)
  BY <1>0, Typed
<1>3. t \notin analysed /\ \A c \in DOMAIN path : t \notin OnPath(c)
  <2> HIDE DEF t
  <2> QED  BY <1>0, <1>2 DEF SoFar
<1>4. Append1(b, seq, t, "user") /\ turns' = t
  BY <1>1
<1> HIDE DEF t
<1>5. /\ messages' \in Seq(Message) /\ PathTyped' /\ DOMAIN path' = DOMAIN path
      /\ OnPath(b)' = OnPath(b) \cup {t} /\ \A c \in DOMAIN path \ {b} : OnPath(c)' = OnPath(c)
      /\ NumbersAscend' /\ SoFar' /\ MainLineInOrder' /\ CheckpointsPlaced' /\ ForkPoints'
      /\ TableFollowsPath'
  BY <1>1, <1>2, <1>3, <1>4, UtterKeeps
<1>6. TypeOK'
  <2>1. MemoryTyped'
    BY <1>0, <1>1, TypeOKIs DEF MemoryTyped
  <2>2. PlacesTyped'
    BY <1>0, <1>1, <1>5, TypeOKIs DEF PlacesTyped
  <2>3. RestTyped'
    BY <1>0, <1>1, <1>2, <1>4, TypeOKIs DEF RestTyped
  <2> QED  BY <1>0, <1>1, <1>5, <2>1, <2>2, <2>3, TypeOKIs
<1>7. UnderWay'
  BY <1>0, <1>1, <1>3, <1>4, <1>5 DEF UnderWay
<1>8. cp = << >> /\ \A c : Pending(c) = << >> /\ Pending(c)' = << >>
  BY <1>0, <1>1 DEF UnderWay, Pending, None
<1>9. Known' = Known /\ Known \subseteq DOMAIN path
      /\ \A c : (Ready(c)' <=> Ready(c)) /\ Remembered(c)' = Remembered(c)
  BY <1>0, <1>1, Typed DEF Known, Ready, Remembered
<1>10. \A c \in DOMAIN path : OnPath(c) \subseteq OnPath(c)' /\ analysed \cap OnPath(c)' = analysed \cap OnPath(c)
  <2> SUFFICES ASSUME NEW c \in DOMAIN path
               PROVE  OnPath(c) \subseteq OnPath(c)' /\ analysed \cap OnPath(c)' = analysed \cap OnPath(c)
    OBVIOUS
  <2>1. CASE c = b
    BY <1>3, <1>5, <2>1
  <2>2. CASE c # b
    BY <1>5, <2>2
  <2> QED  BY <2>1, <2>2
<1>11. MemoryFollowsPath'
  BY <1>0, <1>1, <1>8, <1>9, <1>10 DEF MemoryFollowsPath
<1>12. MemoryFollowsTable'
  <2>1. Listed(Main)' = Listed(Main)
    BY <1>1 DEF Listed
  <2> QED  BY <1>0, <1>1, <1>9, <2>1 DEF MemoryFollowsTable
<1> QED  BY <1>5, <1>6, <1>7, <1>11, <1>12 DEF HistoryInv

(* A turn ends, answered or not.                                           *)
LEMMA EndOK ==
    ASSUME HistoryInv, pc \in {"thinking", "saved"}, Answered(AnswerSeq),
           pc' = "idle", branch' = Main,
           UNCHANGED <<checkpoints, memory, cp, edit, clock, turns, forks, fromMain, analysed>>
    PROVE  HistoryInv'
<1>0. /\ TypeOK /\ SoFar /\ UnderWay /\ MemoryFollowsPath /\ MemoryFollowsTable
  BY DEF HistoryInv
<1> DEFINE seq == AnswerSeq
<1>a. PICK b : b = branch
  OBVIOUS
<1>1. Append1(b, seq, turns, "assistant")
  BY <1>a DEF Answered
<1>2. seq \in Nat \ {0} /\ \A i \in Rows(b) : messages[i].seq < seq
  <2>1. messages \in Seq(Message)
    BY <1>0, Typed
  <2>2. /\ NextSeq \in Nat \ {0} /\ NextSeqOn(b) \in Nat \ {0}
        /\ \A i \in 1 .. Len(messages) : messages[i].seq < NextSeq
        /\ \A i \in Rows(b) : messages[i].seq < NextSeqOn(b)
    BY <2>1, NextExceeds
  <2>3. \A i \in Rows(b) : i \in 1 .. Len(messages)
    BY DEF Rows
  <2> QED  BY <1>a, <2>2, <2>3 DEF AnswerSeq
<1>3. /\ turns \in OnPath(b) /\ turns \in Nat /\ turns <= turns /\ b \in DOMAIN path
      /\ Main \in DOMAIN path
  BY <1>0, <1>a, Typed DEF UnderWay
<1>4. /\ messages' \in Seq(Message) /\ PathTyped' /\ DOMAIN path' = DOMAIN path
      /\ OnPath(b)' = OnPath(b) \cup {turns}
      /\ \A c \in DOMAIN path \ {b} : OnPath(c)' = OnPath(c)
      /\ NumbersAscend' /\ SoFar' /\ MainLineInOrder' /\ CheckpointsPlaced' /\ ForkPoints'
      /\ TableFollowsPath'
  <2>1. "assistant" \in {"user", "assistant"} /\ "assistant" # "user"
        /\ turns' = turns /\ turns' \in Nat /\ turns <= turns'
        /\ checkpoints' = checkpoints /\ fromMain' = fromMain /\ analysed' = analysed /\ edit' = edit
    BY <1>3
  <2> HIDE DEF seq
  <2> QED  BY <1>1, <1>2, <1>3, <2>1, UtterKeeps
<1>5. \A c \in DOMAIN path : OnPath(c)' = OnPath(c)
  <2> SUFFICES ASSUME NEW c \in DOMAIN path PROVE OnPath(c)' = OnPath(c)
    OBVIOUS
  <2>1. CASE c = b
    BY <1>3, <1>4, <2>1
  <2>2. CASE c # b
    BY <1>4, <2>2
  <2> QED  BY <2>1, <2>2
<1>6. TypeOK'
  <2>1. MemoryTyped'
    BY <1>0, TypeOKIs DEF MemoryTyped
  <2>2. PlacesTyped'
    BY <1>0, <1>4, TypeOKIs DEF PlacesTyped
  <2>3. RestTyped'
    BY <1>0, TypeOKIs DEF RestTyped
  <2> QED  BY <1>0, <1>4, <2>1, <2>2, <2>3, TypeOKIs
<1>7. cp = << >> /\ \A c : Pending(c) = << >> /\ Pending(c)' = << >>
  BY <1>0 DEF UnderWay, Pending, None
<1>8. UnderWay'
  BY <1>7 DEF UnderWay, None
<1>9. Known' = Known /\ Known \subseteq DOMAIN path
      /\ \A c : (Ready(c)' => Ready(c)) /\ Remembered(c)' = Remembered(c)
  BY <1>0, Typed DEF Known, Ready, Remembered
<1>10. MemoryFollowsPath'
  BY <1>0, <1>5, <1>7, <1>9 DEF MemoryFollowsPath
<1>11. MemoryFollowsTable'
  <2>1. Listed(Main)' = Listed(Main)
    BY DEF Listed
  <2> QED  BY <1>0, <1>9, <2>1 DEF MemoryFollowsTable
<1> QED  BY <1>4, <1>6, <1>8, <1>10, <1>11 DEF HistoryInv

(* What is forked is a message of the history.                             *)
EditOf(m, now) ==
    /\ edit = <<m>> /\ m.role = "user" /\ \E i \in 1 .. Len(messages) : messages[i] = m
    /\ m.branch \in DOMAIN path /\ m.turn <= turns /\ m.turn \in Nat /\ now \in Nat

LEMMA EditIs ==
    ASSUME HistoryInv, edit # << >>, NEW now \in {clock, clock + 1}
    PROVE  \E m \in Message : EditOf(m, now)
<1>0. TypeOK /\ SoFar /\ ForkPoints
  BY DEF HistoryInv
<1> DEFINE z == Len(messages)
<1>1. PICK m : edit = <<m>> /\ m \in Message /\ m.role = "user" /\ \E i \in 1 .. z : messages[i] = m
  <2>1. edit \in Seq(Message) /\ Len(edit) <= 1
    BY <1>0 DEF TypeOK
  <2>2. Len(edit) \in Nat /\ Len(edit) # 0
    BY <2>1
  <2>3. Len(edit) = 1
    <3> DEFINE n == Len(edit)
    <3>1. n \in Nat /\ n <= 1 /\ n # 0
      BY <2>1, <2>2
    <3> HIDE DEF n
    <3>2. n = 1
      BY <3>1
    <3> QED  BY <3>2 DEF n
  <2>a. edit \in Seq(Message)
    BY <2>1
  <2>4. edit = <<edit[1]>> /\ edit[1] \in Message
    <3>1. 1 \in 1 .. Len(edit)
      BY <2>3
    <3>2. edit[1] \in Message
      BY <2>a, <3>1
    <3>3. edit = <<edit[1]>>
      BY <2>a, <2>3
    <3> QED  BY <3>2, <3>3
  <2>5. \E i \in 1 .. Len(messages) : edit[1] = messages[i] /\ messages[i].role = "user"
    BY <1>0 DEF ForkPoints, None
  <2> QED  BY <2>4, <2>5
<1>2. m.branch \in DOMAIN path /\ now \in Nat /\ m.turn <= turns /\ m.turn \in Nat
  <2>1. \A i \in 1 .. z : messages[i].branch \in DOMAIN path /\ messages[i].turn <= turns
    BY <1>0 DEF SoFar
  <2>2. clock \in Nat
    BY <1>0, Typed
  <2>3. now \in Nat
    BY <2>2
  <2> QED  BY <1>1, <2>1, <2>3, MessageParts
<1> QED  BY <1>1, <1>2 DEF EditOf

LEMMA ForkOK ==
    ASSUME HistoryInv, NEW now \in {clock, clock + 1}, Fork(now)
    PROVE  HistoryInv'
<1>0. /\ TypeOK /\ NumbersAscend /\ SoFar /\ UnderWay /\ MainLineInOrder /\ CheckpointsPlaced
      /\ ForkPoints /\ TableFollowsPath /\ MemoryFollowsPath /\ MemoryFollowsTable
  BY DEF HistoryInv
<1> DEFINE z == Len(messages)
<1>1. /\ edit # << >> /\ edit' = << >> /\ clock' = now /\ forks' = forks + 1
      /\ checkpoints' = checkpoints /\ memory' = memory /\ pc' = pc /\ branch' = branch /\ cp' = cp
      /\ turns' = turns /\ analysed' = analysed
  BY DEF Fork, None, runVars
<1>2. PICK m : m \in Message /\ EditOf(m, now)
  BY <1>1, EditIs
<1>3. /\ edit = <<m>> /\ m \in Message /\ m.role = "user" /\ \E i \in 1 .. z : messages[i] = m
      /\ m.branch \in DOMAIN path /\ now \in Nat /\ m.turn <= turns /\ m.turn \in Nat
  BY <1>2 DEF EditOf
<1>b. PICK b : b = <<m.seq, now>>
  OBVIOUS
<1>4. /\ b \in Branches /\ b # Main
      /\ messages' \in Seq(Message) /\ Len(messages') \in Nat /\ z \in Nat /\ z <= Len(messages')
      /\ \A i \in 1 .. z : messages'[i] = messages[i]
      /\ \A i \in 1 .. Len(messages') : i \notin 1 .. z =>
            /\ messages'[i].branch = b /\ messages'[i].seq = HighestSeq + (i - z)
            /\ \E j \in 1 .. z : messages'[i].turn = messages[j].turn
      /\ PathTyped' /\ DOMAIN path' = DOMAIN path \cup {b}
      /\ \A c \in DOMAIN path : path'[c] = path[c] /\ OnPath(c)' = OnPath(c)
      /\ b \notin DOMAIN path => OnPath(b)' = {t \in OnPath(m.branch) : t < m.turn}
      /\ fromMain' \subseteq fromMain \cup {b}
      /\ b \in fromMain' => b \in fromMain \/ (m.branch = Main /\ b \notin DOMAIN path)
  <2>1. messages \in Seq(Message) /\ PathTyped /\ DOMAIN path \subseteq Branches
    BY <1>0, Typed
  <2>2. ForkOf(m, <<m.seq, now>>)
    BY <1>3, <2>1, Forked
  <2> QED  BY <1>b, <2>2 DEF ForkOf
<1>5. b[1] = m.seq
  BY <1>b
<1>6. ForkGrew(b, m)
  BY <1>1, <1>3, <1>4, <1>5 DEF ForkGrew
<1>7. NumbersAscend'
  BY <1>0, <1>6, ForkNumbers
<1>8. MainLineInOrder'
  BY <1>0, <1>6, ForkInOrder
<1>9. CheckpointsPlaced'
  BY <1>0, <1>6, ForkPlaced
<1>10. ForkPoints'
  BY <1>0, <1>1, <1>6, ForkForkPoints
<1>11. TableFollowsPath'
  BY <1>0, <1>6, ForkTable
<1>12. TypeOK'
  <2>1. MemoryTyped'
    BY <1>0, <1>1, TypeOKIs DEF MemoryTyped
  <2>2. PlacesTyped'
    BY <1>0, <1>1, <1>4, TypeOKIs DEF PlacesTyped
  <2>3. RestTyped'
    <3>1. forks \in Nat /\ forks + 1 \in Nat
      BY <1>0, Typed
    <3>2. << >> \in Seq(Message) /\ Len(<< >>) <= 1
      OBVIOUS
    <3> QED  BY <1>0, <1>1, <1>3, <3>1, <3>2, TypeOKIs DEF RestTyped
  <2> QED  BY <1>0, <1>1, <1>4, <2>1, <2>2, <2>3, TypeOKIs
<1>13. b \notin DOMAIN path => \A t \in OnPath(b)' : t \in OnPath(m.branch) /\ t < m.turn
  BY <1>4
<1>14. SoFar'
  <2>1. ASSUME NEW i \in 1 .. Len(messages')
        PROVE  messages'[i].turn <= turns /\ messages'[i].branch \in DOMAIN path'
    <3>1. CASE i \in 1 .. z
      BY <1>0, <1>4, <3>1 DEF SoFar
    <3>2. CASE i \notin 1 .. z
      BY <1>0, <1>4, <3>2 DEF SoFar
    <3> QED  BY <3>1, <3>2
  <2>2. ASSUME NEW c \in DOMAIN path', NEW t \in OnPath(c)' PROVE t <= turns
    <3>1. CASE c \in DOMAIN path
      BY <1>0, <1>4, <3>1 DEF SoFar
    <3>2. CASE c \notin DOMAIN path
      <4>1. c = b /\ t \in OnPath(m.branch)
        BY <1>4, <1>13, <3>2
      <4> QED  BY <1>0, <1>3, <4>1 DEF SoFar
    <3> QED  BY <3>1, <3>2
  <2> QED  BY <1>0, <1>1, <2>1, <2>2 DEF SoFar
<1>15. UnderWay'
  <2>a. PICK a : a = branch
    OBVIOUS
  <2>1. ASSUME pc # "idle"
        PROVE  turns \in OnPath(a)' /\ \A c \in DOMAIN path' \ {a} : turns \notin OnPath(c)'
    <3>0. turns \in OnPath(a) /\ \A c \in DOMAIN path \ {a} : turns \notin OnPath(c)
      BY <1>0, <2>a, <2>1 DEF UnderWay
    <3>1. a \in DOMAIN path
      BY <1>0, <2>a, Typed
    <3>2. ASSUME NEW c \in DOMAIN path', c # a PROVE turns \notin OnPath(c)'
      <4>1. CASE c \in DOMAIN path
        BY <1>4, <3>0, <3>2, <4>1
      <4>2. CASE c \notin DOMAIN path
        <5>1. c = b
          BY <1>4, <4>2
        <5>2. ~ (turns < m.turn)
          <6>1. turns \in Nat
            BY <1>0, Typed
          <6> DEFINE n == m.turn
          <6>2. n \in Nat /\ n <= turns
            BY <1>3
          <6> HIDE DEF n
          <6>3. ~ (turns < n)
            BY <6>1, <6>2
          <6> QED  BY <6>3 DEF n
        <5> QED  BY <1>13, <4>2, <5>1, <5>2
      <4> QED  BY <4>1, <4>2
    <3> QED  BY <1>4, <3>0, <3>1, <3>2
  <2> QED  BY <1>0, <1>1, <2>a, <2>1 DEF UnderWay
<1>16. ASSUME NEW c \in Known', c \in DOMAIN memory PROVE c \in Known /\ OnPath(c)' = OnPath(c)
  <2>1. c \in DOMAIN path
    BY <1>0, <1>16, Typed
  <2>2. c \in Known
    BY <1>4, <1>16, <2>1 DEF Known
  <2> QED  BY <1>4, <2>1, <2>2
<1>17. \A c : /\ (Ready(c)' <=> Ready(c)) /\ Pending(c)' = Pending(c)
              /\ Remembered(c)' = Remembered(c)
  BY <1>1 DEF Ready, Pending, Remembered
<1>18. MemoryFollowsPath'
  BY <1>0, <1>1, <1>16, <1>17 DEF MemoryFollowsPath
<1>19. MemoryFollowsTable'
  <2>1. Listed(Main)' = Listed(Main)
    BY <1>1 DEF Listed
  <2> QED  BY <1>0, <1>1, <1>17, <2>1 DEF MemoryFollowsTable
<1> QED  BY <1>7, <1>8, <1>9, <1>10, <1>11, <1>12, <1>14, <1>15, <1>18, <1>19 DEF HistoryInv

(* No step breaks the invariant.                                           *)
LEMMA StepOK ==
    ASSUME HistoryInv, [Next]_vars
    PROVE  HistoryInv'
<1>0. /\ TypeOK /\ SoFar /\ UnderWay /\ MemoryFollowsPath /\ MemoryFollowsTable
      /\ messages \in Seq(Message) /\ Main \in DOMAIN path
  BY Typed DEF HistoryInv
<1>1. CASE Say(Main, NextSeq)
  <2>1. NextSeq \in Nat \ {0} /\ \A i \in 1 .. Len(messages) : messages[i].seq < NextSeq
    BY <1>0, NextExceeds
  <2>2. \A i \in Rows(Main) : i \in 1 .. Len(messages)
    BY DEF Rows
  <2> QED  BY <1>0, <1>1, <2>1, <2>2, SayOK
<1>2. ASSUME NEW b \in DOMAIN path, Say(b, NextSeqOn(b)) PROVE HistoryInv'
  <2>1. NextSeqOn(b) \in Nat \ {0} /\ \A i \in Rows(b) : messages[i].seq < NextSeqOn(b)
    BY <1>0, NextExceeds
  <2> QED  BY <1>2, <2>1, SayOK
<1>3. CASE Restore
  BY <1>3, RestoreOK
<1>4. CASE Fail
  BY <1>4, EndOK DEF Fail
<1>5. ASSUME NEW a \in BOOLEAN, Chain(a) PROVE HistoryInv'
  BY <1>5, ChainOK
<1>6. CASE Save
  BY <1>6, SaveOK
<1>7. CASE Answer
  BY <1>7, EndOK DEF Answer
<1>8. ASSUME NEW m \in ToSet(messages), EditCheck(m) PROVE HistoryInv'
  BY <1>8, EditCheckOK
<1>9. ASSUME NEW now \in {clock, clock + 1}, Fork(now) PROVE HistoryInv'
  BY <1>9, ForkOK
<1>10. CASE Crash
  BY <1>10, CrashOK
<1>11. CASE UNCHANGED vars
  <2>1. /\ UNCHANGED <<diskVars, turns, path, fromMain, analysed>>
        /\ messages' = messages /\ checkpoints' = checkpoints /\ path' = path /\ turns' = turns
        /\ fromMain' = fromMain /\ analysed' = analysed /\ memory' = memory
        /\ pc' = pc /\ branch' = branch /\ cp' = cp /\ edit' = edit /\ clock' = clock /\ forks' = forks
    BY <1>11 DEF vars, diskVars, ghostVars, runVars
  <2>2. /\ NumbersAscend' /\ SoFar' /\ MainLineInOrder' /\ CheckpointsPlaced' /\ TableFollowsPath'
        /\ \A b : OnPath(b)' = OnPath(b) /\ Listed(b)' = Listed(b)
        /\ Known' = Known
    BY <2>1, Frame
  <2>3. ForkPoints'
    BY <2>1, MoreOrSame
  <2>4. TypeOK'
    BY <1>0, <2>1 DEF TypeOK
  <2>5. UnderWay'
    BY <1>0, <2>1, <2>2 DEF UnderWay
  <2>6. \A b : /\ (Ready(b)' <=> Ready(b)) /\ Pending(b)' = Pending(b)
               /\ Remembered(b)' = Remembered(b)
    BY <2>1 DEF Ready, Pending, Remembered
  <2>7. MemoryFollowsPath'
    BY <1>0, <2>1, <2>2, <2>6 DEF MemoryFollowsPath
  <2>8. MemoryFollowsTable'
    BY <1>0, <2>1, <2>2, <2>6 DEF MemoryFollowsTable
  <2> QED  BY <2>2, <2>3, <2>4, <2>5, <2>7, <2>8 DEF HistoryInv
<1> QED  BY <1>1, <1>2, <1>3, <1>4, <1>5, <1>6, <1>7, <1>8, <1>9, <1>10, <1>11 DEF Next

(* The invariant holds in every reachable state: what the table, the       *)
(* memory and the conversations are to each other after any sequence of    *)
(* turns, edits, forks and restarts.                                       *)
THEOREM HistoryInvariant == Spec => []HistoryInv
<1>1. Init => HistoryInv
  BY InitOK
<1>2. HistoryInv /\ [Next]_vars => HistoryInv'
  BY StepOK
<1> QED  BY <1>1, <1>2, PTL DEF Spec

-----------------------------------------------------------------------------
(* What it is for. *)

(* The rows are well formed, and every branch in use, in memory or in the  *)
(* properties' record, is one of the history's.                            *)
THEOREM HistoryTypesCorrect == Spec => []TypeOK
<1>1. HistoryInv => TypeOK
  BY DEF HistoryInv
<1> QED  BY <1>1, HistoryInvariant, PTL

(* The main line's chain in use is what a restart would restore, whatever  *)
(* the limit and however often both sides were compacted: the two rules,   *)
(* of chain.go and of AppendCheckpoint, delete the same checkpoints.       *)
THEOREM MainLineIsOnDisk == Spec => []MainMemoryIsDisk
<1>1. ASSUME HistoryInv PROVE MainMemoryIsDisk
  <2>1. SUFFICES ASSUME pc # "chained", memory[Main] # <<>> PROVE memory[Main] = Listed(Main)
    BY DEF MainMemoryIsDisk
  <2>2. Main \in DOMAIN memory
    BY <1>1, Typed DEF HistoryInv
  <2>3. Ready(Main)
    BY <2>1, <2>2 DEF Ready
  <2> QED  BY <1>1, <2>1, <2>3 DEF HistoryInv, MemoryFollowsTable
<1> QED  BY <1>1, HistoryInvariant, PTL

(* On the main line and every branch off it the agent thinks with the last *)
(* analysis of the conversation the user sees, through edits, compaction   *)
(* and restarts (restoreIfNeeded, BuildContext).                           *)
THEOREM AnalysisIsFollowed == Spec => []AnalysisFollowsPath
<1>1. ASSUME HistoryInv PROVE AnalysisFollowsPath
  <2>1. SUFFICES ASSUME pc = "thinking", branch \in Known
                 PROVE  AnalysesIn(memory[branch]) = analysed \cap OnPath(branch)
    BY DEF AnalysisFollowsPath, Known
  <2>2. branch \in DOMAIN memory /\ cp = <<>>
    BY <1>1, <2>1 DEF HistoryInv, UnderWay, None
  <2>3. Ready(branch) /\ Pending(branch) = << >>
    BY <2>1, <2>2 DEF Ready, Pending
  <2>4. AnalysesIn(memory[branch]) = (analysed \cap OnPath(branch)) \cup AnalysesIn(Pending(branch))
    BY <1>1, <2>1, <2>2, <2>3 DEF HistoryInv, MemoryFollowsPath
  <2> QED  BY <2>3, <2>4, EmptyChain
<1> QED  BY <1>1, HistoryInvariant, PTL

(* ... and remembers no turn of the other conversations: an edited turn    *)
(* and what followed it never reach the model of the branch that replaces  *)
(* them (ListCheckpoints' last_seq < fork_seq).                            *)
THEOREM NoTurnIsForeign == Spec => []NoForeignTurns
<1>1. ASSUME HistoryInv PROVE NoForeignTurns
  <2>1. SUFFICES ASSUME pc = "thinking", branch \in Known PROVE Remembered(branch) \subseteq OnPath(branch)
    BY DEF NoForeignTurns, Known
  <2>2. branch \in DOMAIN memory
    BY <1>1, <2>1 DEF HistoryInv, UnderWay
  <2> QED  BY <1>1, <2>1, <2>2 DEF HistoryInv, MemoryFollowsPath
<1> QED  BY <1>1, HistoryInvariant, PTL

(* What a branch shows is a function of the messages.                      *)
LEMMA ShownIs == \A b : Shown(b) = ShownIn(messages, b) /\ Shown(b)' = ShownIn(messages', b)
BY DEF Shown, ShownIn, BySeq, Sorted, Place, PlaceIn, Rows, Of

(* A step only appends messages.                                           *)
LEMMA OnlyAppends ==
    ASSUME HistoryInv, [Next]_vars
    PROVE  Continues(messages, messages')
<1>0. messages \in Seq(Message) /\ Len(messages) \in Nat /\ PathTyped /\ branch \in DOMAIN path
      /\ Main \in DOMAIN path /\ DOMAIN path \subseteq Branches /\ turns \in Nat
  BY Typed, MessagesTyped DEF HistoryInv
<1>1. ASSUME messages' = messages PROVE Continues(messages, messages')
  BY <1>0, <1>1 DEF Continues
<1>2. ASSUME NEW m, messages' = Append(messages, m), m \in Message PROVE Continues(messages, messages')
  <2>1. Len(messages') = Len(messages) + 1 /\ \A i \in 1 .. Len(messages) : messages'[i] = messages[i]
    BY <1>0, <1>2
  <2> QED  BY <1>0, <2>1 DEF Continues
<1>3. ASSUME NEW b \in DOMAIN path, NEW seq \in Nat \ {0}, NEW t \in Nat,
             NEW role \in {"user", "assistant"}, Append1(b, seq, t, role)
      PROVE  Continues(messages, messages')
  <2> DEFINE m == [branch |-> b, seq |-> seq, turn |-> t, role |-> role]
  <2>1. m \in Message /\ messages' = Append(messages, m)
    BY <1>0, <1>3 DEF Message, Append1
  <2> HIDE DEF m
  <2> QED  BY <1>2, <2>1
<1>4. /\ NextSeq \in Nat \ {0}
      /\ \A b : NextSeqOn(b) \in Nat \ {0}
  BY <1>0, NextExceeds
<1>5. ASSUME NEW b \in DOMAIN path, NEW seq \in Nat \ {0}, Say(b, seq) PROVE Continues(messages, messages')
  <2> DEFINE t == turns + 1
  <2>1. Append1(b, seq, t, "user") /\ t \in Nat
    BY <1>0, <1>5 DEF Say
  <2> HIDE DEF t
  <2> QED  BY <1>3, <2>1
<1>6. ASSUME Answered(AnswerSeq) PROVE Continues(messages, messages')
  <2> DEFINE seq == AnswerSeq
  <2>1. seq \in Nat \ {0}
    BY <1>4 DEF AnswerSeq
  <2>2. Append1(branch, seq, turns, "assistant")
    BY <1>6 DEF Answered
  <2> HIDE DEF seq
  <2> QED  BY <1>0, <1>3, <2>1, <2>2
<1>7. ASSUME NEW now \in {clock, clock + 1}, Fork(now) PROVE Continues(messages, messages')
  <2>1. edit # << >>
    BY <1>7 DEF Fork, None
  <2>2. PICK m : m \in Message /\ EditOf(m, now)
    BY <1>7, <2>1, EditIs
  <2>3. edit = <<m>> /\ m.branch \in DOMAIN path /\ now \in Nat
    BY <2>2 DEF EditOf
  <2>4. ForkOf(m, <<m.seq, now>>)
    BY <1>0, <1>7, <2>2, <2>3, Forked
  <2> QED  BY <2>4 DEF ForkOf, Continues
<1> QED
  BY <1>0, <1>1, <1>4, <1>5, <1>6, <1>7
  DEF Next, Restore, Fail, Chain, Save, Answer, EditCheck, Crash, vars, diskVars

(* No branch's conversation is ever rewritten, although branches number    *)
(* their messages each for itself, edits copy messages, and two edits may  *)
(* get the same branch (GetSession, AppendMessageBranch, BranchAfter).     *)
THEOREM ConversationsGrow == Spec => ConversationsOnlyGrow
<1>1. ASSUME HistoryInv, HistoryInv', [Next]_vars, NEW b \in DOMAIN path
      PROVE  IsPrefix(Shown(b), Shown(b)')
  <2>1. messages \in Seq(Message) /\ messages' \in Seq(Message)
    BY <1>1, Typed, TypeOKIs DEF HistoryInv
  <2>2. Ascending(messages) /\ Ascending(messages')
    BY <1>1 DEF HistoryInv, NumbersAscend, Ascending
  <2>3. Continues(messages, messages')
    BY <1>1, OnlyAppends
  <2>4. IsPrefix(ShownIn(messages, b), ShownIn(messages', b))
    BY <2>1, <2>2, <2>3, ShownGrows
  <2> QED  BY <2>4, ShownIs
<1>2. HistoryInv /\ HistoryInv' /\ [Next]_vars => [\A b \in DOMAIN path : IsPrefix(Shown(b), Shown(b)')]_vars
  BY <1>1
<1> QED  BY <1>2, HistoryInvariant, PTL DEF Spec, ConversationsOnlyGrow
=============================================================================
