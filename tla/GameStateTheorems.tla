------------------------- MODULE GameStateTheorems --------------------------
(***************************************************************************)
(* Theorems about a game, for any number of teams, nodes and cursors, any  *)
(* map and any rules.                                                      *)
(***************************************************************************)
EXTENDS GameState, FiniteSetTheorems, WellFoundedInduction, TLAPS

----------------------------------------------------------------------------
(* Loops.  The code's loops are functions on the number of turns made;     *)
(* what they compute is found by induction on that number.                 *)

\* A set of naturals with 0 and every successor has them all.
LEMMA AllNaturals ==
  ASSUME NEW P, 0 \in P, \A n \in Nat : n \in P => n + 1 \in P
  PROVE  \A n \in Nat : n \in P
<1> DEFINE Bad == Nat \ P
<1>1. SUFFICES ASSUME Bad # {} PROVE FALSE
  BY Zenon
<1>2. IsWellFoundedOn(OpToRel(<, Nat), Nat)
  BY NatLessThanWellFounded
<1>3. PICK x \in Bad : \A y \in Bad : ~(<<y, x>> \in OpToRel(<, Nat))
  BY <1>1, <1>2, WFMin, Zenon
<1>4. x \in Nat /\ x # 0 /\ x - 1 \in Nat /\ x - 1 < x
  OBVIOUS
<1>5. x - 1 \notin Bad
  BY <1>3, <1>4, Zenon DEF OpToRel
<1>6. (x - 1) + 1 \in P
  BY <1>4, <1>5
<1>7. (x - 1) + 1 = x
  BY <1>4
<1> QED BY <1>6, <1>7

\* k is what n turns of g make of b.
Turns(S, b, g, n, k) ==
    /\ k \in [0 .. n -> S]
    /\ k[0] = b
    /\ \A i \in 0 .. n - 1 : k[i + 1] = g[<<i, k[i]>>]

\* A loop that stays in S can be turned any number of times.
LEMMA TurnsExist ==
  ASSUME NEW S, NEW b \in S, NEW g \in [Nat \X S -> S]
  PROVE  \A n \in Nat : \E k : Turns(S, b, g, n, k)
<1> DEFINE P == {n \in Nat : \E k : Turns(S, b, g, n, k)}
<1>1. 0 \in P
  <2>1. Turns(S, b, g, 0, [i \in 0 .. 0 |-> b])
    BY DEF Turns
  <2> QED BY <2>1
<1>2. ASSUME NEW n \in Nat, n \in P PROVE n + 1 \in P
  <2>1. PICK k : Turns(S, b, g, n, k)
    BY <1>2
  <2> DEFINE l == [i \in 0 .. n + 1 |-> IF i <= n THEN k[i] ELSE g[<<n, k[n]>>]]
  <2>2. k[n] \in S /\ <<n, k[n]>> \in Nat \X S
    BY <2>1 DEF Turns
  <2>3. \A i \in 0 .. n : l[i] = k[i] /\ k[i] \in S
    BY <2>1 DEF Turns
  <2>4. l[n + 1] = g[<<n, k[n]>>] /\ g[<<n, k[n]>>] \in S
    BY <2>2
  <2>5. l \in [0 .. n + 1 -> S]
    <3>1. ASSUME NEW i \in 0 .. n + 1 PROVE l[i] \in S
      <4>1. i \in 0 .. n \/ i = n + 1
        OBVIOUS
      <4> HIDE DEF l
      <4> QED BY <4>1, <2>3, <2>4
    <3> QED BY <3>1
  <2>6. l[0] = b
    BY <2>1, <2>3 DEF Turns
  <2>7. ASSUME NEW i \in 0 .. n PROVE l[i + 1] = g[<<i, l[i]>>]
    <3>1. CASE i = n
      BY <3>1, <2>3, <2>4
    <3>2. CASE i # n
      <4>1. i \in 0 .. n - 1 /\ i + 1 \in 0 .. n
        BY <3>2
      <4>2. k[i + 1] = g[<<i, k[i]>>]
        BY <2>1, <4>1 DEF Turns
      <4> QED BY <4>1, <4>2, <2>3
    <3> QED BY <3>1, <3>2
  <2>8. (n + 1) - 1 = n
    OBVIOUS
  <2>9. Turns(S, b, g, n + 1, l)
    BY <2>5, <2>6, <2>7, <2>8 DEF Turns
  <2> QED BY <2>9
<1>3. \A n \in Nat : n \in P
  <2> HIDE DEF P
  <2> QED BY <1>1, <1>2, AllNaturals
<1> QED BY <1>3

\* Two ways to turn it agree.
LEMMA TurnsAgree ==
  ASSUME NEW S, NEW b, NEW g,
         NEW n \in Nat, NEW k, Turns(S, b, g, n, k),
         NEW m \in Nat, NEW l, Turns(S, b, g, m, l)
  PROVE  \A i \in Nat : i <= n /\ i <= m => k[i] = l[i]
<1> DEFINE P == {i \in Nat : i <= n /\ i <= m => k[i] = l[i]}
<1>1. 0 \in P
  BY DEF Turns
<1>2. ASSUME NEW i \in Nat, i \in P PROVE i + 1 \in P
  <2>1. SUFFICES ASSUME i + 1 <= n, i + 1 <= m PROVE k[i + 1] = l[i + 1]
    OBVIOUS
  <2>2. i \in 0 .. n - 1 /\ i \in 0 .. m - 1 /\ k[i] = l[i]
    BY <2>1, <1>2
  <2> QED BY <2>2 DEF Turns
<1>3. \A i \in Nat : i \in P
  <2> HIDE DEF P
  <2> QED BY <1>1, <1>2, AllNaturals
<1> QED BY <1>3

\* h is what any number of turns make.
Loop(S, b, g, h) ==
    /\ h \in [Nat -> S]
    /\ h[0] = b
    /\ \A n \in Nat : h[n + 1] = g[<<n, h[n]>>]

\* The function a loop is written as exists.
LEMMA LoopExists ==
  ASSUME NEW S, NEW b \in S, NEW g \in [Nat \X S -> S]
  PROVE  \E h : Loop(S, b, g, h)
<1> DEFINE K(n) == CHOOSE k : Turns(S, b, g, n, k)
           h == [n \in Nat |-> K(n)[n]]
<1>1. ASSUME NEW n \in Nat PROVE Turns(S, b, g, n, K(n))
  BY TurnsExist
<1> HIDE DEF K
<1>2. ASSUME NEW n \in Nat PROVE K(n)[n] \in S
  BY <1>1 DEF Turns
<1>3. h \in [Nat -> S]
  BY <1>2
<1>4. h[0] = b
  <2>1. K(0)[0] = b
    BY <1>1 DEF Turns
  <2> QED BY <2>1
<1>5. ASSUME NEW n \in Nat PROVE h[n + 1] = g[<<n, h[n]>>]
  <2>1. Turns(S, b, g, n, K(n)) /\ Turns(S, b, g, n + 1, K(n + 1))
    BY <1>1
  <2>2. K(n)[n] = K(n + 1)[n]
    <3>1. \A i \in Nat : i <= n /\ i <= n + 1 => K(n)[i] = K(n + 1)[i]
      BY <2>1, TurnsAgree
    <3> QED BY <3>1
  <2>3. n \in 0 .. (n + 1) - 1
    OBVIOUS
  <2>4. K(n + 1)[n + 1] = g[<<n, K(n + 1)[n]>>]
    BY <2>1, <2>3 DEF Turns
  <2> QED BY <2>2, <2>4
<1>6. Loop(S, b, g, h)
  BY <1>3, <1>4, <1>5 DEF Loop
<1> QED BY <1>6

----------------------------------------------------------------------------
(* Sums over the teams.                                                    *)

\* The sum over the first teams, as Total counts it.
Upto(f) == CHOOSE u : u = [n \in 0 .. MAX_NB_TEAMS |->
                             IF n = 0 THEN 0 ELSE u[n - 1] + f[n - 1]]

\* There is such a sum, team after team, and Total is the last one.
LEMMA UptoIs ==
  ASSUME NEW f \in [Team -> Int]
  PROVE  /\ Upto(f) \in [0 .. MAX_NB_TEAMS -> Int]
         /\ Upto(f)[0] = 0
         /\ \A t \in Team : t \in 0 .. MAX_NB_TEAMS /\ t + 1 \in 0 .. MAX_NB_TEAMS
                              /\ Upto(f)[t + 1] = Upto(f)[t] + f[t]
         /\ MAX_NB_TEAMS \in 0 .. MAX_NB_TEAMS
         /\ Total(f) = Upto(f)[MAX_NB_TEAMS]
         /\ Total(f) \in Int
<1> USE MapStateAssumption
<1> DEFINE g == [x \in Nat \X Int |-> x[2] + (IF x[1] \in Team THEN f[x[1]] ELSE 0)]
<1>1. g \in [Nat \X Int -> Int]
  OBVIOUS
<1>2. MAX_NB_TEAMS \in Nat /\ MAX_NB_TEAMS > 1
  OBVIOUS
<1>3. PICK k : Turns(Int, 0, g, MAX_NB_TEAMS, k)
  <2> HIDE DEF g
  <2>1. 0 \in Int
    OBVIOUS
  <2>2. \A n \in Nat : \E k : Turns(Int, 0, g, n, k)
    BY <1>1, <2>1, TurnsExist
  <2> QED BY <1>2, <2>2
<1>4. ASSUME NEW n \in 0 .. MAX_NB_TEAMS
      PROVE  k[n] = IF n = 0 THEN 0 ELSE k[n - 1] + f[n - 1]
  <2>1. CASE n = 0
    BY <2>1, <1>3 DEF Turns
  <2>2. CASE n # 0
    <3>1. n - 1 \in 0 .. MAX_NB_TEAMS - 1 /\ (n - 1) + 1 = n
      BY <2>2, <1>2
    <3>2. k[(n - 1) + 1] = g[<<n - 1, k[n - 1]>>] /\ k[n - 1] \in Int
      <4> HIDE DEF g
      <4> QED BY <3>1, <1>3 DEF Turns
    <3>3. g[<<n - 1, k[n - 1]>>] = k[n - 1] + f[n - 1]
      BY <3>1, <3>2 DEF Team
    <3> QED BY <3>1, <3>2, <3>3, <2>2
  <2> QED BY <2>1, <2>2
<1>5. k = [n \in 0 .. MAX_NB_TEAMS |-> IF n = 0 THEN 0 ELSE k[n - 1] + f[n - 1]]
  <2>1. k \in [0 .. MAX_NB_TEAMS -> Int]
    BY <1>3 DEF Turns
  <2> QED BY <2>1, <1>4
<1>6. Upto(f) = [n \in 0 .. MAX_NB_TEAMS |->
                   IF n = 0 THEN 0 ELSE Upto(f)[n - 1] + f[n - 1]]
  BY <1>5, Zenon DEF Upto
<1> DEFINE u == Upto(f)
<1>7. \A n \in 0 .. MAX_NB_TEAMS : u[n] = IF n = 0 THEN 0 ELSE u[n - 1] + f[n - 1]
  BY <1>6, Zenon
<1>8. DOMAIN u = 0 .. MAX_NB_TEAMS
  BY <1>6, Zenon
<1>9. Total(f) = u[MAX_NB_TEAMS]
  BY Zenon DEF Total, Upto
<1> HIDE DEF u, g
<1>10. ASSUME NEW t \in Team
       PROVE  /\ t \in 0 .. MAX_NB_TEAMS /\ t + 1 \in 0 .. MAX_NB_TEAMS
              /\ u[t + 1] = u[t] + f[t]
  <2>1. t \in 0 .. MAX_NB_TEAMS /\ t + 1 \in 0 .. MAX_NB_TEAMS /\ t + 1 # 0 /\ (t + 1) - 1 = t
    BY <1>2 DEF Team
  <2> QED BY <2>1, <1>7
<1>11. u[0] = 0 /\ MAX_NB_TEAMS \in 0 .. MAX_NB_TEAMS
  BY <1>2, <1>7
<1>12. \A n \in Nat : n \in {m \in Nat : m <= MAX_NB_TEAMS => u[m] \in Int}
  <2> DEFINE P == {m \in Nat : m <= MAX_NB_TEAMS => u[m] \in Int}
  <2>1. 0 \in P
    BY <1>11
  <2>2. ASSUME NEW n \in Nat, n \in P PROVE n + 1 \in P
    <3>1. SUFFICES ASSUME n + 1 <= MAX_NB_TEAMS PROVE u[n + 1] \in Int
      OBVIOUS
    <3>2. n \in Team /\ u[n] \in Int
      BY <3>1, <2>2, <1>2 DEF Team
    <3> QED BY <3>2, <1>10
  <2> HIDE DEF P
  <2>3. \A n \in Nat : n \in P
    BY <2>1, <2>2, AllNaturals
  <2> QED BY <2>3 DEF P
<1>13. u = [n \in 0 .. MAX_NB_TEAMS |-> u[n]]
  BY <1>6, Zenon DEF u
<1>14. u \in [0 .. MAX_NB_TEAMS -> Int]
  BY <1>12, <1>13, <1>2
<1> QED BY <1>9, <1>10, <1>11, <1>14 DEF u

\* What holds before the first team, and from a team to the next, holds after
\* the last one.
LEMMA TeamAfterTeam ==
  ASSUME NEW P, 0 \in P, \A t \in Team : t \in P => t + 1 \in P
  PROVE  \A n \in 0 .. MAX_NB_TEAMS : n \in P
<1> USE MapStateAssumption
<1> DEFINE Q == {n \in Nat : n <= MAX_NB_TEAMS => n \in P}
<1>1. 0 \in Q
  OBVIOUS
<1>2. ASSUME NEW n \in Nat, n \in Q PROVE n + 1 \in Q
  <2>1. SUFFICES ASSUME n + 1 <= MAX_NB_TEAMS PROVE n + 1 \in P
    OBVIOUS
  <2>2. n \in Team /\ n \in P
    BY <1>2, <2>1 DEF Team
  <2> QED BY <2>2
<1> HIDE DEF Q
<1>3. \A n \in Nat : n \in Q
  BY <1>1, <1>2, AllNaturals
<1> QED BY <1>3 DEF Q

\* A team is one of the natural numbers.
LEMMA TeamIs == Team \subseteq Nat /\ 0 \in Team /\ \A t \in Team : t < MAX_NB_TEAMS
BY MapStateAssumption DEF Team

\* Term by term smaller, smaller in all.
LEMMA TotalMonotone ==
  ASSUME NEW f \in [Team -> Int], NEW g \in [Team -> Int],
         \A t \in Team : f[t] <= g[t]
  PROVE  Total(f) <= Total(g)
<1> DEFINE u == Upto(f)
           v == Upto(g)
           P == {n \in 0 .. MAX_NB_TEAMS : u[n] <= v[n]}
<1>1. /\ u \in [0 .. MAX_NB_TEAMS -> Int] /\ u[0] = 0 /\ Total(f) = u[MAX_NB_TEAMS]
      /\ \A t \in Team : u[t + 1] = u[t] + f[t]
  BY UptoIs
<1>2. /\ v \in [0 .. MAX_NB_TEAMS -> Int] /\ v[0] = 0 /\ Total(g) = v[MAX_NB_TEAMS]
      /\ \A t \in Team : v[t + 1] = v[t] + g[t]
  BY UptoIs
<1>3. \A t \in Team : t \in 0 .. MAX_NB_TEAMS /\ t + 1 \in 0 .. MAX_NB_TEAMS
  BY UptoIs
<1>4. 0 \in 0 .. MAX_NB_TEAMS /\ MAX_NB_TEAMS \in 0 .. MAX_NB_TEAMS
  BY MapStateAssumption
<1> HIDE DEF u, v
<1>5. 0 \in P
  BY <1>1, <1>2, <1>4
<1>6. ASSUME NEW t \in Team, t \in P PROVE t + 1 \in P
  <2>1. u[t] \in Int /\ v[t] \in Int /\ f[t] \in Int /\ g[t] \in Int /\ u[t] <= v[t] /\ f[t] <= g[t]
    BY <1>1, <1>2, <1>3, <1>6
  <2>2. u[t + 1] <= v[t + 1]
    BY <2>1, <1>1, <1>2
  <2> QED BY <2>2, <1>3
<1>7. \A n \in 0 .. MAX_NB_TEAMS : n \in P
  <2> HIDE DEF P
  <2> QED BY <1>5, <1>6, TeamAfterTeam
<1> QED BY <1>7, <1>1, <1>2, <1>4

\* The sum of sums.
LEMMA TotalAdds ==
  ASSUME NEW f \in [Team -> Int], NEW g \in [Team -> Int], NEW h \in [Team -> Int],
         \A t \in Team : h[t] = f[t] + g[t]
  PROVE  Total(h) = Total(f) + Total(g)
<1> DEFINE u == Upto(f)
           v == Upto(g)
           w == Upto(h)
           P == {n \in 0 .. MAX_NB_TEAMS : w[n] = u[n] + v[n]}
<1>1. /\ u \in [0 .. MAX_NB_TEAMS -> Int] /\ u[0] = 0 /\ Total(f) = u[MAX_NB_TEAMS]
      /\ \A t \in Team : u[t + 1] = u[t] + f[t]
  BY UptoIs
<1>2. /\ v \in [0 .. MAX_NB_TEAMS -> Int] /\ v[0] = 0 /\ Total(g) = v[MAX_NB_TEAMS]
      /\ \A t \in Team : v[t + 1] = v[t] + g[t]
  BY UptoIs
<1>3. /\ w \in [0 .. MAX_NB_TEAMS -> Int] /\ w[0] = 0 /\ Total(h) = w[MAX_NB_TEAMS]
      /\ \A t \in Team : w[t + 1] = w[t] + h[t]
  BY UptoIs
<1>4. \A t \in Team : t \in 0 .. MAX_NB_TEAMS /\ t + 1 \in 0 .. MAX_NB_TEAMS
  BY UptoIs
<1>5. 0 \in 0 .. MAX_NB_TEAMS /\ MAX_NB_TEAMS \in 0 .. MAX_NB_TEAMS
  BY MapStateAssumption
<1> HIDE DEF u, v, w
<1>6. 0 \in P
  BY <1>1, <1>2, <1>3, <1>5
<1>7. ASSUME NEW t \in Team, t \in P PROVE t + 1 \in P
  <2>1. /\ u[t] \in Int /\ v[t] \in Int /\ f[t] \in Int /\ g[t] \in Int
        /\ w[t] = u[t] + v[t] /\ h[t] = f[t] + g[t]
    BY <1>1, <1>2, <1>4, <1>7
  <2>2. w[t + 1] = u[t + 1] + v[t + 1]
    BY <2>1, <1>1, <1>2, <1>3
  <2> QED BY <2>2, <1>4
<1>8. \A n \in 0 .. MAX_NB_TEAMS : n \in P
  <2> HIDE DEF P
  <2> QED BY <1>6, <1>7, TeamAfterTeam
<1> QED BY <1>8, <1>1, <1>2, <1>3, <1>5

\* What one team has alone.
Only(t, v) == [i \in Team |-> IF i = t THEN v ELSE 0]

\* What one team has alone is the sum.
LEMMA TotalOnly ==
  ASSUME NEW t \in Team, NEW v \in Int
  PROVE  Only(t, v) \in [Team -> Int] /\ Total(Only(t, v)) = v
<1> DEFINE f == Only(t, v)
           u == Upto(f)
           P == {n \in 0 .. MAX_NB_TEAMS : u[n] = IF n <= t THEN 0 ELSE v}
<1>1. f \in [Team -> Int] /\ \A i \in Team : f[i] = IF i = t THEN v ELSE 0
  BY DEF Only
<1>2. /\ u \in [0 .. MAX_NB_TEAMS -> Int] /\ u[0] = 0 /\ Total(f) = u[MAX_NB_TEAMS]
      /\ \A i \in Team : u[i + 1] = u[i] + f[i]
  BY <1>1, UptoIs
<1>3. \A i \in Team : i \in 0 .. MAX_NB_TEAMS /\ i + 1 \in 0 .. MAX_NB_TEAMS
  BY TeamIs, MapStateAssumption
<1>4. 0 \in 0 .. MAX_NB_TEAMS /\ MAX_NB_TEAMS \in 0 .. MAX_NB_TEAMS
  BY MapStateAssumption
<1> HIDE DEF u, f
<1>5. 0 \in P
  BY <1>2, <1>4, TeamIs
<1>6. ASSUME NEW i \in Team, i \in P PROVE i + 1 \in P
  <2>1. u[i + 1] = u[i] + f[i] /\ u[i] = (IF i <= t THEN 0 ELSE v) /\ i \in Int /\ t \in Int
    BY <1>2, <1>6, TeamIs
  <2>2. f[i] = IF i = t THEN v ELSE 0
    BY <1>1
  <2>3. u[i + 1] = IF i + 1 <= t THEN 0 ELSE v
    BY <2>1, <2>2
  <2> QED BY <2>3, <1>3
<1>7. \A n \in 0 .. MAX_NB_TEAMS : n \in P
  <2> HIDE DEF P
  <2> QED BY <1>5, <1>6, TeamAfterTeam
<1>8. MAX_NB_TEAMS \in Nat /\ t \in Nat /\ ~(MAX_NB_TEAMS <= t)
  BY TeamIs, MapStateAssumption
<1> QED BY <1>7, <1>8, <1>1, <1>2, <1>4 DEF f

\* One term changes.
LEMMA TotalExcept ==
  ASSUME NEW f \in [Team -> Int], NEW t \in Team, NEW v \in Int
  PROVE  Total([f EXCEPT ![t] = v]) = Total(f) - f[t] + v
<1> DEFINE h == [f EXCEPT ![t] = v]
           d == Only(t, v - f[t])
<1>1. f[t] \in Int /\ v - f[t] \in Int /\ h \in [Team -> Int]
  OBVIOUS
<1>2. d \in [Team -> Int] /\ Total(d) = v - f[t]
  BY <1>1, TotalOnly
<1>3. \A i \in Team : h[i] = f[i] + d[i]
  BY <1>1 DEF Only
<1> HIDE DEF h, d
<1>4. Total(h) = Total(f) + Total(d) /\ Total(f) \in Int
  BY <1>1, <1>2, <1>3, TotalAdds, UptoIs
<1> QED BY <1>1, <1>2, <1>4 DEF h

\* Nobody has more than all.
LEMMA TotalNat ==
  ASSUME NEW f \in [Team -> Nat]
  PROVE  Total(f) \in Nat /\ \A t \in Team : f[t] <= Total(f)
<1>1. f \in [Team -> Int] /\ 0 \in Int
  OBVIOUS
<1>2. ASSUME NEW t \in Team PROVE f[t] <= Total(f)
  <2>1. Only(t, f[t]) \in [Team -> Int] /\ Total(Only(t, f[t])) = f[t]
    BY TotalOnly
  <2>2. \A i \in Team : Only(t, f[t])[i] <= f[i]
    BY DEF Only
  <2> QED BY <1>1, <2>1, <2>2, TotalMonotone
<1>3. 0 \in Team
  BY TeamIs
<1>4. f[0] <= Total(f) /\ f[0] \in Nat /\ Total(f) \in Int
  BY <1>1, <1>2, <1>3, UptoIs
<1> QED BY <1>2, <1>4

\* The division rounds down.
LEMMA Floor ==
  ASSUME NEW a \in Nat, NEW b \in Nat, b # 0
  PROVE  a \div b \in Nat /\ b * (a \div b) <= a /\ a < b * (a \div b) + b
OBVIOUS

\* Products, for the provers.
LEMMA Distributes ==
  ASSUME NEW a \in Int, NEW b \in Int, NEW c \in Int
  PROVE  a * (b + c) = a * b + a * c
OBVIOUS

\* A larger factor gives a larger product ...
LEMMA TimesMonotone ==
  ASSUME NEW a \in Nat, NEW b \in Int, NEW c \in Int, b <= c
  PROVE  a * b <= a * c
OBVIOUS

\* ... and a larger product comes from a larger factor.
LEMMA TimesCancel ==
  ASSUME NEW a \in Nat, a # 0, NEW b \in Int, NEW c \in Int, a * b <= a * c
  PROVE  b <= c
OBVIOUS

\* What each gives of k, in proportion of what it has and rounded down: not
\* more than k in all, nor more than it has.
LEMMA Proportion ==
  ASSUME NEW f \in [Team -> Nat], NEW k \in Nat, NEW h,
         Total(f) # 0, h = [t \in Team |-> (k * f[t]) \div Total(f)]
  PROVE  /\ h \in [Team -> Nat]
         /\ Total(h) <= k
         /\ k <= Total(f) => \A t \in Team : h[t] <= f[t]
<1> DEFINE A == Total(f)
<1>1. A \in Nat /\ A # 0
  BY TotalNat
<1> HIDE DEF A
<1>2. ASSUME NEW t \in Team PROVE f[t] \in Nat /\ k * f[t] \in Nat
  <2>1. f[t] \in Nat
    OBVIOUS
  <2> QED BY <2>1
<1>3. ASSUME NEW t \in Team
      PROVE  /\ h[t] \in Nat
             /\ A * h[t] <= k * f[t]
             /\ k <= A => h[t] <= f[t]
  <2> DEFINE a == k * f[t]
  <2>1. a \in Nat /\ f[t] \in Nat
    BY <1>2
  <2>2. h[t] = a \div A
    BY DEF A
  <2> HIDE DEF a
  <2>3. a \div A \in Nat /\ A * (a \div A) <= a
    BY <2>1, <1>1, Floor
  <2>4. ASSUME k <= A PROVE h[t] <= f[t]
    <3>1. f[t] * k <= f[t] * A
      BY <2>4, <2>1, <1>1, TimesMonotone
    <3>2. a <= A * f[t]
      BY <3>1, <2>1, <1>1 DEF a
    <3>3. A * (a \div A) <= A * f[t] /\ A * (a \div A) \in Int
      BY <3>2, <2>3, <2>1, <1>1
    <3> HIDE DEF A
    <3>4. a \div A <= f[t]
      BY <3>3, <2>1, <2>3, <1>1, TimesCancel
    <3> QED BY <3>4, <2>2
  <2> QED BY <2>2, <2>3, <2>4 DEF a
<1>4. h \in [Team -> Nat] /\ f \in [Team -> Int] /\ h \in [Team -> Int]
  BY <1>3
<1> DEFINE u == Upto(f)
           w == Upto(h)
           P == {n \in 0 .. MAX_NB_TEAMS : A * w[n] <= k * u[n]}
<1>5. /\ u \in [0 .. MAX_NB_TEAMS -> Int] /\ u[0] = 0 /\ Total(f) = u[MAX_NB_TEAMS]
      /\ \A t \in Team : u[t + 1] = u[t] + f[t]
  BY <1>4, UptoIs
<1>6. /\ w \in [0 .. MAX_NB_TEAMS -> Int] /\ w[0] = 0 /\ Total(h) = w[MAX_NB_TEAMS]
      /\ \A t \in Team : w[t + 1] = w[t] + h[t]
  BY <1>4, UptoIs
<1>7. \A t \in Team : t \in 0 .. MAX_NB_TEAMS /\ t + 1 \in 0 .. MAX_NB_TEAMS
  BY TeamIs, MapStateAssumption
<1>8. 0 \in 0 .. MAX_NB_TEAMS /\ MAX_NB_TEAMS \in 0 .. MAX_NB_TEAMS
  BY MapStateAssumption
<1> HIDE DEF u, w
<1>9. 0 \in P
  BY <1>5, <1>6, <1>8, <1>1
<1>10. ASSUME NEW t \in Team, t \in P PROVE t + 1 \in P
  <2>1. PICK U \in Int, W \in Int, F \in Nat, H \in Nat :
          U = u[t] /\ W = w[t] /\ F = f[t] /\ H = h[t]
    BY <1>5, <1>6, <1>7, <1>3, <1>2
  <2>2. u[t + 1] = U + F /\ w[t + 1] = W + H
    BY <2>1, <1>5, <1>6
  <2>3. A * W <= k * U /\ A * H <= k * F
    BY <2>1, <1>10, <1>3
  <2>4. A * (W + H) = A * W + A * H /\ k * (U + F) = k * U + k * F
    BY <1>1, Distributes
  <2>5. A * W \in Int /\ A * H \in Int /\ k * U \in Int /\ k * F \in Int
    BY <1>1
  <2>6. A * (W + H) <= k * (U + F)
    BY <2>3, <2>4, <2>5
  <2> QED BY <2>2, <2>6, <1>7
<1>11. \A n \in 0 .. MAX_NB_TEAMS : n \in P
  <2> HIDE DEF P
  <2> QED BY <1>9, <1>10, TeamAfterTeam
<1>12. A * Total(h) <= k * A
  BY <1>11, <1>8, <1>5, <1>6 DEF A
<1>13. A * Total(h) <= A * k /\ Total(h) \in Int
  <2>1. k * A = A * k /\ Total(h) \in Int
    BY <1>1, <1>4, UptoIs
  <2> QED BY <2>1, <1>12
<1>14. Total(h) <= k
  BY <1>13, <1>1, TimesCancel
<1> QED BY <1>3, <1>4, <1>14 DEF A

\* Counting down from a sum: when each has less than before, by d, all have
\* less by the sum.
LEMMA TotalMinus ==
  ASSUME NEW f \in [Team -> Int], NEW d \in [Team -> Int], NEW h \in [Team -> Int],
         \A t \in Team : h[t] = f[t] - d[t]
  PROVE  Total(h) = Total(f) - Total(d)
<1>1. \A t \in Team : f[t] = h[t] + d[t]
  <2> TAKE t \in Team
  <2>1. h[t] \in Int /\ f[t] \in Int /\ d[t] \in Int
    OBVIOUS
  <2> QED BY <2>1
<1>2. Total(f) = Total(h) + Total(d)
  BY <1>1, TotalAdds
<1>3. Total(f) \in Int /\ Total(h) \in Int /\ Total(d) \in Int
  BY UptoIs
<1> QED BY <1>2, <1>3

\* Quotient and remainder.
LEMMA DivMod ==
  ASSUME NEW a \in Nat, NEW b \in Nat, b # 0
  PROVE  a \div b \in Nat /\ a % b \in Nat /\ a % b < b /\ a = b * (a \div b) + (a % b)
OBVIOUS

\* Teams are finitely many.
LEMMA TeamsFinite ==
  ASSUME NEW S, S \subseteq Team
  PROVE  IsFiniteSet(S) /\ Cardinality(S) \in Nat /\ (S # {} => Cardinality(S) > 0)
<1>1. IsFiniteSet(Team)
  <2>1. MAX_NB_TEAMS - 1 \in Int
    BY MapStateAssumption
  <2> QED BY <2>1, FS_Interval DEF Team
<1>2. IsFiniteSet(S)
  BY <1>1, FS_Subset
<1>3. Cardinality(S) \in Nat /\ (Cardinality(S) = 0 <=> S = {})
  BY <1>2, FS_CardinalityType, FS_EmptySet
<1> QED BY <1>2, <1>3

\* What is left to share goes whole to the heirs.
LEMMA DealtWhole ==
  ASSUME NEW m, NEW t, NEW left \in Nat, NEW d,
         Playing(m) \ {t} # {},
         d = [i \in Team |-> Dealt(m, t, left, i)]
  PROVE  /\ d \in [Team -> Nat]
         /\ Total(d) = left
         /\ \A i \in Team : i \notin Playing(m) \ {t} => d[i] = 0
<1> DEFINE heirs == Playing(m) \ {t}
           r(n) == Cardinality({h \in heirs : h < n})
           H == Cardinality(heirs)
           q == left \div H
           rest == left % H
<1>1. heirs \subseteq Team /\ heirs # {}
  BY DEF Playing
<1>2. H \in Nat /\ H # 0
  BY <1>1, TeamsFinite
<1>3. \A n : r(n) \in Nat
  <2> TAKE n
  <2>1. {h \in heirs : h < n} \subseteq Team
    BY <1>1
  <2> QED BY <2>1, TeamsFinite
<1>4. q \in Nat /\ rest \in Nat /\ rest < H /\ left = H * q + rest
  <2> HIDE DEF H
  <2> QED BY <1>2, DivMod
<1>5. \A i \in Team : d[i] = IF i \notin heirs THEN 0
                             ELSE q + (IF r(i) < rest THEN 1 ELSE 0)
  BY DEF Dealt
<1>6. r(0) = 0
  <2>1. \A h \in heirs : ~(h < 0)
    <3> TAKE h \in heirs
    <3>1. h \in Nat
      BY <1>1, TeamIs
    <3> QED BY <3>1
  <2>2. {h \in heirs : h < 0} = {}
    BY <2>1
  <2> QED BY <2>2, FS_EmptySet
<1>7. \A i \in Team : r(i + 1) = r(i) + (IF i \in heirs THEN 1 ELSE 0)
  <2> TAKE i \in Team
  <2> DEFINE S == {h \in heirs : h < i}
             S1 == {h \in heirs : h < i + 1}
  <2>1. IsFiniteSet(S) /\ i \notin S
    <3>1. S \subseteq Team
      BY <1>1
    <3> QED BY <3>1, TeamsFinite, TeamIs
  <2>2. CASE i \in heirs
    <3>1. S1 = S \cup {i}
      <4>1. \A h \in heirs : h < i + 1 <=> h < i \/ h = i
        <5> TAKE h \in heirs
        <5>1. h \in Nat /\ i \in Nat
          BY <1>1, TeamIs
        <5> QED BY <5>1
      <4> QED BY <4>1, <2>2
    <3>2. Cardinality(S \cup {i}) = Cardinality(S) + 1
      BY <2>1, FS_AddElement
    <3> QED BY <3>1, <3>2, <2>2
  <2>3. CASE i \notin heirs
    <3>1. S1 = S
      <4>1. \A h \in heirs : h < i + 1 <=> h < i
        <5> TAKE h \in heirs
        <5>1. h \in Nat /\ i \in Nat /\ h # i
          BY <1>1, TeamIs, <2>3
        <5> QED BY <5>1
      <4> QED BY <4>1
    <3>2. Cardinality(S) \in Nat
      BY <1>3
    <3> QED BY <3>1, <3>2, <2>3
  <2> QED BY <2>2, <2>3
<1>8. r(MAX_NB_TEAMS) = H
  <2>1. {h \in heirs : h < MAX_NB_TEAMS} = heirs
    BY <1>1, TeamIs
  <2> QED BY <2>1
<1> HIDE DEF r, H, q, rest, heirs
<1>9. d \in [Team -> Nat]
  <2>1. ASSUME NEW i \in Team PROVE d[i] \in Nat
    BY <1>4, <1>5
  <2> QED BY <2>1
<1> DEFINE w == Upto(d)
           least(n) == IF n < rest THEN n ELSE rest
           P == {n \in 0 .. MAX_NB_TEAMS : w[n] = q * r(n) + least(r(n))}
<1>10. d \in [Team -> Int]
  BY <1>9
<1>11. /\ w \in [0 .. MAX_NB_TEAMS -> Int] /\ w[0] = 0 /\ Total(d) = w[MAX_NB_TEAMS]
       /\ \A i \in Team : w[i + 1] = w[i] + d[i]
  BY <1>10, UptoIs
<1>12. \A i \in Team : i \in 0 .. MAX_NB_TEAMS /\ i + 1 \in 0 .. MAX_NB_TEAMS
  BY TeamIs, MapStateAssumption
<1>13. 0 \in 0 .. MAX_NB_TEAMS /\ MAX_NB_TEAMS \in 0 .. MAX_NB_TEAMS
  BY MapStateAssumption
<1> HIDE DEF w
<1>14. 0 \in P
  <2>1. q * 0 = 0 /\ least(0) = 0
    BY <1>4
  <2> QED BY <2>1, <1>6, <1>11, <1>13
<1>15. ASSUME NEW i \in Team, i \in P PROVE i + 1 \in P
  <2>1. PICK R \in Nat : R = r(i)
    BY <1>3
  <2>2. w[i] = q * R + least(R) /\ w[i + 1] = w[i] + d[i]
    BY <1>11, <1>15, <2>1
  <2>3. CASE i \in heirs
    <3>1. r(i + 1) = R + 1 /\ d[i] = q + (IF R < rest THEN 1 ELSE 0)
      BY <2>1, <2>3, <1>5, <1>7
    <3>2. q * (R + 1) = q * R + q /\ q * R \in Int
      BY <1>4
    <3>3. least(R + 1) = least(R) + (IF R < rest THEN 1 ELSE 0)
      BY <1>4
    <3>4. w[i + 1] = q * (R + 1) + least(R + 1)
      BY <2>2, <3>1, <3>2, <3>3, <1>4
    <3> QED BY <3>1, <3>4, <1>12
  <2>4. CASE i \notin heirs
    <3>1. r(i + 1) = R /\ d[i] = 0
      BY <2>1, <2>4, <1>5, <1>7
    <3>2. q * R \in Int /\ least(R) \in Int
      BY <1>4
    <3>3. w[i + 1] = q * R + least(R)
      BY <2>2, <3>1, <3>2
    <3> QED BY <3>1, <3>3, <1>12
  <2> QED BY <2>3, <2>4
<1>16. \A n \in 0 .. MAX_NB_TEAMS : n \in P
  <2> HIDE DEF P
  <2> QED BY <1>14, <1>15, TeamAfterTeam
<1>17. Total(d) = q * H + rest
  BY <1>16, <1>13, <1>8, <1>11, <1>4, <1>2
<1>18. q * H = H * q
  BY <1>2, <1>4
<1> QED BY <1>4, <1>5, <1>9, <1>17, <1>18 DEF heirs

----------------------------------------------------------------------------
(* Laps: loops that go round the teams until what is missing is made up.   *)

\* What is left of a multiple and a remainder.
LEMMA ModIs ==
  ASSUME NEW N \in Nat, N # 0, NEW q \in Nat, NEW r \in Nat, r < N
  PROVE  (N * q + r) % N = r
<1> DEFINE a == N * q + r
<1>1. a \in Nat
  OBVIOUS
<1>2. PICK p \in Nat, s \in Nat : s = a % N /\ s < N /\ a = N * p + s
  <2> HIDE DEF a
  <2>1. a \div N \in Nat /\ a % N \in Nat /\ a % N < N /\ a = N * (a \div N) + (a % N)
    BY <1>1, DivMod
  <2> QED BY <2>1
<1>3. ASSUME q < p PROVE FALSE
  <2>1. N * (q + 1) <= N * p
    BY <1>3, TimesMonotone
  <2>2. N * (q + 1) = N * q + N * 1
    BY Distributes
  <2> QED BY <1>2, <2>1, <2>2
<1>4. ASSUME p < q PROVE FALSE
  <2>1. N * (p + 1) <= N * q
    BY <1>4, TimesMonotone
  <2>2. N * (p + 1) = N * p + N * 1
    BY Distributes
  <2> QED BY <1>2, <2>1, <2>2
<1>5. p = q
  BY <1>3, <1>4
<1>6. s = r
  BY <1>2, <1>5
<1> QED BY <1>2, <1>6

\* Going round the teams from anywhere, each lap comes to each team.
LEMMA LapHits ==
  ASSUME NEW a \in Nat, NEW t \in Team, NEW k \in Nat
  PROVE  \E i \in Nat : /\ MAX_NB_TEAMS * k <= i /\ i < MAX_NB_TEAMS * (k + 1)
                        /\ (a + i) % MAX_NB_TEAMS = t
<1> DEFINE N == MAX_NB_TEAMS
<1>1. N \in Nat /\ N # 0 /\ t \in Nat /\ t < N
  BY TeamIs, MapStateAssumption
<1> HIDE DEF N
<1>2. PICK q \in Nat, r \in Nat : r < N /\ a = N * q + r
  <2>1. a \div N \in Nat /\ a % N \in Nat /\ a % N < N /\ a = N * (a \div N) + (a % N)
    BY <1>1, DivMod
  <2> QED BY <2>1
<1>3. N * (k + 1) = N * k + N * 1 /\ N * k \in Nat
  BY <1>1, Distributes
<1>4. CASE r <= t
  <2> DEFINE i == N * k + (t - r)
  <2>1. i \in Nat /\ N * k <= i /\ i < N * (k + 1)
    BY <1>1, <1>2, <1>3, <1>4
  <2>2. N * (q + k) = N * q + N * k
    BY <1>1, Distributes
  <2>3. a + i = N * (q + k) + t
    BY <1>1, <1>2, <1>3, <1>4, <2>2
  <2>4. (N * (q + k) + t) % N = t
    BY <1>1, ModIs
  <2> HIDE DEF i
  <2> QED BY <2>1, <2>3, <2>4 DEF N
<1>5. CASE t < r
  <2> DEFINE i == N * k + (N + t - r)
  <2>1. i \in Nat /\ N * k <= i /\ i < N * (k + 1)
    BY <1>1, <1>2, <1>3, <1>5
  <2>2. N * (q + k) = N * q + N * k /\ N * ((q + k) + 1) = N * (q + k) + N * 1
    BY <1>1, Distributes
  <2>3. a + i = N * ((q + k) + 1) + t
    BY <1>1, <1>2, <1>3, <1>5, <2>2
  <2>4. (N * ((q + k) + 1) + t) % N = t
    BY <1>1, ModIs
  <2> HIDE DEF i
  <2> QED BY <2>1, <2>3, <2>4 DEF N
<1> QED BY <1>1, <1>2, <1>4, <1>5

\* What never grows, and shrinks in every lap as long as it is positive, is used
\* up in as many laps.
LEMMA LapsDo ==
  ASSUME NEW u \in [Nat -> Int], NEW a \in Nat,
         \A i \in Nat : u[i + 1] <= u[i],
         \A k \in Nat : u[MAX_NB_TEAMS * (k + 1)] > 0 =>
           \E t \in Team : \A i \in Nat :
             /\ MAX_NB_TEAMS * k <= i /\ i < MAX_NB_TEAMS * (k + 1)
             /\ (a + i) % MAX_NB_TEAMS = t
             => u[i + 1] < u[i]
  PROVE  \A g \in Nat : u[MAX_NB_TEAMS * g] > 0 => u[MAX_NB_TEAMS * g] <= u[0] - g
<1> DEFINE N == MAX_NB_TEAMS
<1>1. N \in Nat /\ N # 0
  BY MapStateAssumption
<1>2. ASSUME NEW i \in Nat, NEW j \in Nat, i <= j PROVE u[j] <= u[i]
  <2> DEFINE P == {d \in Nat : u[i + d] <= u[i]}
  <2>1. 0 \in P
    <3>1. u[i] \in Int /\ i + 0 = i
      OBVIOUS
    <3> QED BY <3>1
  <2>2. ASSUME NEW d \in Nat, d \in P PROVE d + 1 \in P
    <3>1. i + d \in Nat /\ i + (d + 1) = (i + d) + 1
      OBVIOUS
    <3>2. u[(i + d) + 1] <= u[i + d]
      BY <3>1
    <3>3. u[(i + d) + 1] \in Int /\ u[i + d] \in Int /\ u[i] \in Int
      BY <3>1
    <3> QED BY <3>1, <3>2, <3>3, <2>2
  <2>3. \A d \in Nat : d \in P
    <3> HIDE DEF P
    <3> QED BY <2>1, <2>2, AllNaturals
  <2>4. j - i \in Nat /\ i + (j - i) = j
    BY <1>2
  <2> QED BY <2>3, <2>4
<1> DEFINE P == {g \in Nat : u[N * g] > 0 => u[N * g] <= u[0] - g}
<1>3. 0 \in P
  <2>1. N * 0 = 0 /\ u[0] \in Int
    BY <1>1
  <2> QED BY <2>1
<1>4. ASSUME NEW g \in Nat, g \in P PROVE g + 1 \in P
  <2>1. SUFFICES ASSUME u[N * (g + 1)] > 0 PROVE u[N * (g + 1)] <= u[0] - (g + 1)
    OBVIOUS
  <2>2. PICK t \in Team : \A i \in Nat : N * g <= i /\ i < N * (g + 1) /\ (a + i) % N = t
                            => u[i + 1] < u[i]
    BY <2>1
  <2>3. PICK i \in Nat : N * g <= i /\ i < N * (g + 1) /\ (a + i) % N = t
    BY LapHits
  <2>4. u[i + 1] < u[i]
    BY <2>2, <2>3
  <2>5. PICK x \in Nat, y \in Nat : x = N * g /\ y = N * (g + 1)
    BY <1>1
  <2>6. x <= i /\ i + 1 <= y /\ x <= y
    BY <2>3, <2>5
  <2>7. u[i] <= u[x] /\ u[y] <= u[i + 1]
    BY <2>6, <1>2
  <2>8. u[i] \in Int /\ u[x] \in Int /\ u[y] \in Int /\ u[i + 1] \in Int /\ u[0] \in Int
    OBVIOUS
  <2>9. u[x] > 0 => u[x] <= u[0] - g
    BY <1>4, <2>5
  <2> QED BY <2>1, <2>4, <2>5, <2>7, <2>8, <2>9
<1>5. \A g \in Nat : g \in P
  <2> HIDE DEF P
  <2> QED BY <1>3, <1>4, AllNaturals
<1> QED BY <1>5 DEF N

\* What never grows from a turn to the next is not larger later.
LEMMA NeverGrows ==
  ASSUME NEW u \in [Nat -> Int], \A i \in Nat : u[i + 1] <= u[i],
         NEW i \in Nat, NEW j \in Nat, i <= j
  PROVE  u[j] <= u[i]
<1> DEFINE P == {d \in Nat : u[i + d] <= u[i]}
<1>1. 0 \in P
  <2>1. i + 0 = i /\ u[i] \in Int
    OBVIOUS
  <2> QED BY <2>1
<1>2. ASSUME NEW d \in Nat, d \in P PROVE d + 1 \in P
  <2>1. i + d \in Nat /\ i + (d + 1) = (i + d) + 1 /\ (i + d) + 1 \in Nat
    OBVIOUS
  <2>2. u[(i + d) + 1] <= u[i + d] /\ u[i] \in Int /\ u[i + d] \in Int /\ u[(i + d) + 1] \in Int
    BY <2>1
  <2> QED BY <2>1, <2>2, <1>2
<1>3. \A d \in Nat : d \in P
  <2> HIDE DEF P
  <2> QED BY <1>1, <1>2, AllNaturals
<1>4. j - i \in Nat /\ i + (j - i) = j
  OBVIOUS
<1> QED BY <1>3, <1>4

\* Of less than all, less than one's own.
LEMMA LessShare ==
  ASSUME NEW A \in Nat, NEW k \in Nat, k < A, NEW x \in Nat, x # 0
  PROVE  (k * x) \div A < x
<1> DEFINE y == k * x
<1>1. y \in Nat
  OBVIOUS
<1> HIDE DEF y
<1>2. y \div A \in Nat /\ A * (y \div A) <= y
  BY <1>1, Floor
<1>3. ASSUME x <= y \div A PROVE FALSE
  <2>1. A * x <= A * (y \div A)
    BY <1>2, <1>3, TimesMonotone
  <2>2. x * (k + 1) <= x * A
    BY TimesMonotone
  <2>3. x * (k + 1) = x * k + x * 1
    BY Distributes
  <2>4. x * A = A * x /\ x * k = k * x /\ x * k \in Int /\ A * x \in Int
    OBVIOUS
  <2>5. A * (y \div A) \in Int
    BY <1>2
  <2> QED BY <1>1, <1>2, <2>1, <2>2, <2>3, <2>4, <2>5 DEF y
<1> QED BY <1>2, <1>3 DEF y

----------------------------------------------------------------------------
(* Removing fighters.                                                      *)

\* Where nobody has fighters the sum is zero.
LEMMA TotalZero == NoFighters \in [Team -> Nat] /\ Total(NoFighters) = 0
<1>1. NoFighters \in [Team -> Nat] /\ NoFighters = Only(0, 0)
  BY DEF NoFighters, Only
<1> QED BY <1>1, TotalOnly, TeamIs

\* The shares a team after team is asked for that it can give.
Bearable(f, nb) ==
    {s \in [Team -> Nat] :
        /\ Total(s) <= nb
        /\ nb <= Total(f) => \A t \in Team : s[t] <= f[t]}

\* What the code starts from is bearable ...
LEMMA SharesBearable ==
  ASSUME NEW m, m.fighters_per_team \in [Team -> Nat], NEW nb \in Nat
  PROVE  Shares(m, nb) \in Bearable(m.fighters_per_team, nb)
<1> DEFINE f == m.fighters_per_team
           s == Shares(m, nb)
<1>1. CASE Total(f) = 0
  <2>1. s = NoFighters
    BY <1>1 DEF Shares, active_fighters, NoFighters
  <2>2. \A t \in Team : f[t] \in Nat /\ 0 <= f[t]
    OBVIOUS
  <2>3. \A t \in Team : s[t] = 0
    BY <2>1 DEF NoFighters
  <2> QED BY <2>1, <2>2, <2>3, TotalZero DEF Bearable
<1>2. CASE Total(f) # 0
  <2>1. s = [t \in Team |-> (nb * f[t]) \div Total(f)]
    BY <1>2 DEF Shares, active_fighters
  <2> HIDE DEF s, f
  <2>2. f \in [Team -> Nat]
    BY DEF f
  <2>3. /\ s \in [Team -> Nat]
        /\ Total(s) <= nb
        /\ nb <= Total(f) => \A t \in Team : s[t] <= f[t]
    BY <1>2, <2>1, <2>2, Proportion
  <2> QED BY <2>3 DEF Bearable, s, f
<1> QED BY <1>1, <1>2

\* One turn of the loop keeps them bearable.
LEMMA MoreBearable ==
  ASSUME NEW m, m.fighters_per_team \in [Team -> Nat], NEW nb \in Nat,
         NEW s \in Bearable(m.fighters_per_team, nb), NEW t \in Team,
         Total(s) < nb, Wealthy(m, s, t)
  PROVE  [s EXCEPT ![t] = @ + 1] \in Bearable(m.fighters_per_team, nb)
<1> DEFINE f == m.fighters_per_team
           h == [s EXCEPT ![t] = @ + 1]
<1>1. s \in [Team -> Nat] /\ s \in [Team -> Int]
  BY DEF Bearable
<1>2. h \in [Team -> Nat] /\ h = [s EXCEPT ![t] = s[t] + 1] /\ s[t] \in Nat
  BY <1>1
<1>3. Total(h) = Total(s) - s[t] + (s[t] + 1)
  <2> HIDE DEF h
  <2>1. PICK v \in Int : v = s[t] + 1
    BY <1>2
  <2>2. Total([s EXCEPT ![t] = v]) = Total(s) - s[t] + v
    BY <1>1, TotalExcept
  <2> QED BY <1>2, <2>1, <2>2
<1>4. Total(s) \in Int
  BY <1>1, UptoIs
<1>5. Total(h) <= nb
  BY <1>2, <1>3, <1>4
<1>6. ASSUME nb <= Total(f), NEW i \in Team PROVE h[i] <= f[i]
  <2>1. s[i] <= f[i] /\ s[i] \in Nat /\ f[i] \in Nat
    BY <1>6 DEF Bearable
  <2>2. i = t => f[i] > s[i] + 1
    BY DEF Wealthy
  <2> QED BY <2>1, <2>2, <1>1
<1> QED BY <1>2, <1>5, <1>6 DEF Bearable

\* The turns of the loop that makes up what the rounding left.
Topping(m, nb, u) ==
    /\ u \in [Nat -> Bearable(m.fighters_per_team, nb)]
    /\ u[0] = Shares(m, nb)
    /\ \A i \in Nat :
         LET t == (nb + i) % MAX_NB_TEAMS
         IN  u[i + 1] = IF Total(u[i]) < nb /\ Wealthy(m, u[i], t)
                        THEN [u[i] EXCEPT ![t] = @ + 1]
                        ELSE u[i]
    /\ ToppedUp(m, nb) = u[MAX_NB_TEAMS * (nb - Total(Shares(m, nb)) + 1)]

\* The loop can be turned, and what each team is asked for stays bearable.
LEMMA ToppedUpTurns ==
  ASSUME NEW m, m.fighters_per_team \in [Team -> Nat], NEW nb \in Nat
  PROVE  \E u : Topping(m, nb, u)
<1> DEFINE S == Bearable(m.fighters_per_team, nb)
           start == Shares(m, nb)
           laps == MAX_NB_TEAMS * (nb - Total(start) + 1)
           more(share, t) ==
             IF Total(share) < nb /\ Wealthy(m, share, t)
             THEN [share EXCEPT ![t] = @ + 1]
             ELSE share
           at(i) == (nb + i - 1) % MAX_NB_TEAMS
           after == CHOOSE u : u = [i \in Nat |->
                      IF i = 0 THEN start
                      ELSE more(u[i - 1], (nb + i - 1) % MAX_NB_TEAMS)]
           g == [x \in Nat \X S |-> more(x[2], at(x[1] + 1))]
<1>1. start \in S
  BY SharesBearable
<1>2. \A i \in Nat : at(i + 1) = (nb + i) % MAX_NB_TEAMS /\ at(i + 1) \in Team
  <2> TAKE i \in Nat
  <2> DEFINE a == nb + i
  <2>1. /\ MAX_NB_TEAMS \in Nat /\ MAX_NB_TEAMS # 0 /\ nb + (i + 1) - 1 = nb + i
        /\ a \in Nat
    BY MapStateAssumption
  <2> HIDE DEF a
  <2>2. a % MAX_NB_TEAMS \in Nat /\ a % MAX_NB_TEAMS < MAX_NB_TEAMS
    BY <2>1, DivMod
  <2>3. a % MAX_NB_TEAMS \in Team
    BY <2>1, <2>2 DEF Team
  <2> QED BY <2>1, <2>3 DEF a
<1> HIDE DEF at
<1>3. g \in [Nat \X S -> S]
  <2>1. ASSUME NEW i \in Nat, NEW s \in S PROVE more(s, at(i + 1)) \in S
    <3>1. CASE Total(s) < nb /\ Wealthy(m, s, at(i + 1))
      BY <3>1, <1>2, MoreBearable
    <3>2. CASE ~(Total(s) < nb /\ Wealthy(m, s, at(i + 1)))
      BY <3>2
    <3> QED BY <3>1, <3>2
  <2> HIDE DEF more, S
  <2> QED BY <2>1
<1>4. PICK h : Loop(S, start, g, h)
  <2> HIDE DEF g, S, start
  <2> QED BY <1>1, <1>3, LoopExists
<1>5. ASSUME NEW i \in Nat PROVE h[i + 1] = more(h[i], at(i + 1))
  <2>1. h[i + 1] = g[<<i, h[i]>>] /\ h[i] \in S
    <3> HIDE DEF g
    <3> QED BY <1>4 DEF Loop
  <2>2. g[<<i, h[i]>>] = more(h[i], at(i + 1))
    <3> HIDE DEF more, S
    <3> QED BY <2>1
  <2> QED BY <2>1, <2>2
<1>6. ASSUME NEW i \in Nat PROVE h[i] = IF i = 0 THEN start ELSE more(h[i - 1], at(i))
  <2>1. CASE i = 0
    BY <2>1, <1>4 DEF Loop
  <2>2. CASE i # 0
    <3>1. i - 1 \in Nat /\ (i - 1) + 1 = i
      BY <2>2
    <3> HIDE DEF more
    <3> QED BY <3>1, <1>5, <2>2
  <2> QED BY <2>1, <2>2
<1> HIDE DEF S, start
<1>7. h = [i \in Nat |-> IF i = 0 THEN start ELSE more(h[i - 1], (nb + i - 1) % MAX_NB_TEAMS)]
  <2> HIDE DEF more
  <2> QED BY <1>4, <1>6 DEF at, Loop
<1>8. after = [i \in Nat |-> IF i = 0 THEN start
                             ELSE more(after[i - 1], (nb + i - 1) % MAX_NB_TEAMS)]
  <2> HIDE DEF more
  <2> QED BY <1>7, Zenon
<1>9. ToppedUp(m, nb) = after[laps]
  BY Zenon DEF ToppedUp, start
<1> HIDE DEF after
<1>10. \A i \in Nat : after[i] = IF i = 0 THEN start ELSE more(after[i - 1], at(i))
  <2> HIDE DEF more
  <2> QED BY <1>8, Zenon DEF at
<1>11. after[0] = start
  <2>1. 0 \in Nat
    OBVIOUS
  <2> HIDE DEF more
  <2> QED BY <1>10, <2>1, Zenon
<1>12. ASSUME NEW i \in Nat PROVE after[i + 1] = more(after[i], at(i + 1))
  <2>1. i + 1 \in Nat /\ i + 1 # 0 /\ (i + 1) - 1 = i
    OBVIOUS
  <2> HIDE DEF more
  <2> QED BY <2>1, <1>10
<1> DEFINE P == {n \in Nat : after[n] \in S}
<1>13. 0 \in P
  BY <1>1, <1>11
<1>14. ASSUME NEW n \in Nat, n \in P PROVE n + 1 \in P
  <2>1. g[<<n, after[n]>>] = more(after[n], at(n + 1))
    <3> HIDE DEF more
    <3> QED BY <1>14
  <2>2. g[<<n, after[n]>>] \in S
    <3> HIDE DEF g
    <3> QED BY <1>3, <1>14
  <2> HIDE DEF more
  <2> QED BY <1>12, <2>1, <2>2
<1>15. \A n \in Nat : n \in P
  <2> HIDE DEF P
  <2> QED BY <1>13, <1>14, AllNaturals
<1>16. after \in [Nat -> S]
  <2>1. after = [i \in Nat |-> after[i]]
    <3> HIDE DEF more
    <3> QED BY <1>8, Zenon
  <2> QED BY <2>1, <1>15
<1>17. ASSUME NEW i \in Nat
       PROVE  LET t == (nb + i) % MAX_NB_TEAMS
              IN  after[i + 1] = IF Total(after[i]) < nb /\ Wealthy(m, after[i], t)
                                 THEN [after[i] EXCEPT ![t] = @ + 1]
                                 ELSE after[i]
  BY <1>2, <1>12, Zenon
<1> HIDE DEF more
<1>18. Topping(m, nb, after)
  BY <1>9, <1>11, <1>16, <1>17, Zenon DEF Topping, S, start
<1> QED BY <1>18

\* ... and so is what it ends with.
LEMMA ToppedUpBearable ==
  ASSUME NEW m, m.fighters_per_team \in [Team -> Nat], NEW nb \in Nat
  PROVE  ToppedUp(m, nb) \in Bearable(m.fighters_per_team, nb)
<1> DEFINE S == Bearable(m.fighters_per_team, nb)
           start == Shares(m, nb)
           laps == MAX_NB_TEAMS * (nb - Total(start) + 1)
<1>1. PICK u : Topping(m, nb, u)
  BY ToppedUpTurns
<1>2. start \in S
  BY SharesBearable
<1>3. laps \in Nat
  <2>1. start \in [Team -> Nat] /\ start \in [Team -> Int] /\ Total(start) <= nb
    BY <1>2 DEF Bearable
  <2>2. Total(start) \in Int
    BY <2>1, UptoIs
  <2>3. nb - Total(start) + 1 \in Nat /\ MAX_NB_TEAMS \in Nat
    BY <2>1, <2>2, MapStateAssumption
  <2> QED BY <2>3
<1> HIDE DEF laps
<1>4. u[laps] \in S
  BY <1>1, <1>3 DEF Topping
<1> QED BY <1>1, <1>4 DEF Topping, laps

\* From m to k only the numbers of fighters change, if not for a fault.
OnlyFighters(m, k) ==
    /\ k \in MapStates
    /\ k.frags = m.frags /\ k.active = m.active /\ k.offline = m.offline
    /\ k.respawn_round = m.respawn_round /\ k.cursors = m.cursors
    /\ k.fault = "none" => m.fault = "none"

\* A fault changes nothing else.
LEMMA FaultyIs ==
  ASSUME NEW m \in MapStates, NEW what \in {"division by zero", "endless loop"}
  PROVE  /\ OnlyFighters(m, Faulty(m, what))
         /\ Faulty(m, what).fighters_per_team = m.fighters_per_team
         /\ Faulty(m, what).fault # "none"
<1>1. CASE m.fault = "none"
  <2> DEFINE k == [m EXCEPT !.fault = what]
  <2>1. k \in MapStates /\ k.fault = what /\ what # "none"
    BY DEF MapStates
  <2>2. /\ k.frags = m.frags /\ k.active = m.active /\ k.offline = m.offline
        /\ k.respawn_round = m.respawn_round /\ k.cursors = m.cursors
        /\ k.fighters_per_team = m.fighters_per_team
    BY DEF MapStates
  <2>3. Faulty(m, what) = k
    BY <1>1 DEF Faulty
  <2> HIDE DEF k
  <2> QED BY <2>1, <2>2, <2>3 DEF OnlyFighters
<1>2. CASE m.fault # "none"
  <2>1. Faulty(m, what) = m
    BY <1>2 DEF Faulty
  <2> QED BY <1>2, <2>1 DEF OnlyFighters
<1> QED BY <1>1, <1>2

\* A map state whose armies are f.
LEMMA ArmiesAre ==
  ASSUME NEW m \in MapStates, NEW f \in [Team -> Nat]
  PROVE  /\ OnlyFighters(m, [m EXCEPT !.fighters_per_team = f])
         /\ [m EXCEPT !.fighters_per_team = f].fighters_per_team = f
BY DEF OnlyFighters, MapStates

\* The armies of a map state.
LEMMA FightersAre ==
  ASSUME NEW m \in MapStates
  PROVE  /\ m.fighters_per_team \in [Team -> Nat]
         /\ m.fighters_per_team \in [Team -> Int]
         /\ active_fighters(m) = Total(m.fighters_per_team)
         /\ active_fighters(m) \in Nat
         /\ \A t \in Team : m.fighters_per_team[t] <= active_fighters(m)
<1>1. m.fighters_per_team \in [Team -> Nat]
  BY DEF MapStates
<1>2. m.fighters_per_team \in [Team -> Int]
  BY <1>1
<1> QED BY <1>1, <1>2, TotalNat DEF active_fighters

\* Removing fighters takes from every team what it has at most, and when the
\* loop ends exactly what was asked for in all.
LEMMA RemoveFightersIs ==
  ASSUME NEW m \in MapStates, NEW nb \in Nat, NEW k, k = remove_fighters(m, nb)
  PROVE  /\ OnlyFighters(m, k)
         /\ \A t \in Team : k.fighters_per_team[t] <= m.fighters_per_team[t]
         /\ active_fighters(k) <= active_fighters(m)
         /\ k.fault = "none" /\ nb <= active_fighters(m)
              => active_fighters(k) = active_fighters(m) - nb
<1> DEFINE f == m.fighters_per_team
           share == ToppedUp(m, nb)
           h == [t \in Team |-> f[t] - share[t]]
<1>1. /\ f \in [Team -> Nat] /\ f \in [Team -> Int] /\ active_fighters(m) = Total(f)
      /\ Total(f) \in Nat
  BY FightersAre
<1>2. share \in Bearable(f, nb)
  BY <1>1, ToppedUpBearable
<1>3. share \in [Team -> Nat] /\ share \in [Team -> Int] /\ Total(share) <= nb
  BY <1>2 DEF Bearable
<1>4. Total(share) \in Int
  BY <1>3, UptoIs
<1>5. CASE Total(share) < nb
  <2>1. k = Faulty(m, "endless loop")
    BY <1>5 DEF remove_fighters
  <2>2. /\ OnlyFighters(m, Faulty(m, "endless loop"))
        /\ Faulty(m, "endless loop").fighters_per_team = m.fighters_per_team
        /\ Faulty(m, "endless loop").fault # "none"
    BY FaultyIs
  <2>3. OnlyFighters(m, k) /\ k.fighters_per_team = f /\ k.fault # "none"
    BY <2>1, <2>2
  <2>4. active_fighters(k) = active_fighters(m)
    BY <2>3 DEF active_fighters
  <2>5. \A t \in Team : f[t] <= f[t]
    BY <1>1
  <2> HIDE DEF f
  <2> QED BY <2>3, <2>4, <2>5, <1>1 DEF f
<1>6. CASE ~(Total(share) < nb) /\ nb > active_fighters(m)
  <2>1. k = m
    BY <1>6 DEF remove_fighters
  <2> QED BY <2>1, <1>6, <1>1 DEF OnlyFighters
<1>7. CASE ~(Total(share) < nb) /\ ~(nb > active_fighters(m))
  <2>1. k = [m EXCEPT !.fighters_per_team = h]
    <3>1. k = [m EXCEPT !.fighters_per_team = [t \in Team |-> @[t] - share[t]]]
      BY <1>7 DEF remove_fighters
    <3> QED BY <3>1
  <2>2. nb <= Total(f) /\ Total(share) = nb
    BY <1>1, <1>3, <1>4, <1>7
  <2>3. \A t \in Team : share[t] <= f[t]
    BY <1>2, <2>2 DEF Bearable
  <2>4. ASSUME NEW t \in Team PROVE h[t] \in Nat /\ h[t] <= f[t] /\ h[t] = f[t] - share[t]
    <3>1. share[t] \in Nat /\ f[t] \in Nat /\ share[t] <= f[t]
      BY <1>1, <1>3, <2>3
    <3>2. h[t] = f[t] - share[t]
      OBVIOUS
    <3> HIDE DEF h
    <3> QED BY <3>1, <3>2
  <2>5. h \in [Team -> Nat] /\ h \in [Team -> Int]
    BY <2>4
  <2> HIDE DEF h
  <2>6. OnlyFighters(m, k) /\ k.fighters_per_team = h
    BY <2>1, <2>5, ArmiesAre
  <2>7. Total(h) = Total(f) - Total(share)
    BY <1>1, <1>3, <2>4, <2>5, TotalMinus
  <2>8. active_fighters(k) = active_fighters(m) - nb
    BY <2>2, <2>6, <2>7, <1>1 DEF active_fighters
  <2> QED BY <2>4, <2>6, <2>8, <1>1
<1> QED BY <1>5, <1>6, <1>7

\* Removing fighters of one team leaves the others alone.
LEMMA RemoveTeamFightersIs ==
  ASSUME NEW m \in MapStates, NEW t \in Team, NEW nb \in Nat
  PROVE  LET k == remove_team_fighters(m, t, nb)
         IN  /\ OnlyFighters(m, k)
             /\ \A i \in Team : /\ k.fighters_per_team[i] <= m.fighters_per_team[i]
                                /\ i # t => k.fighters_per_team[i] = m.fighters_per_team[i]
             /\ active_fighters(k) <= active_fighters(m)
<1> DEFINE f == m.fighters_per_team
           v == f[t] - IMin(nb, f[t])
           g == [f EXCEPT ![t] = v]
           k == remove_team_fighters(m, t, nb)
<1>1. /\ f \in [Team -> Nat] /\ f \in [Team -> Int] /\ active_fighters(m) = Total(f)
      /\ Total(f) \in Nat
  BY FightersAre
<1>2. f[t] \in Nat /\ v \in Nat /\ v <= f[t]
  <2>1. f[t] \in Nat
    BY <1>1
  <2> QED BY <2>1 DEF IMin
<1>3. k = [m EXCEPT !.fighters_per_team = g]
  BY DEF remove_team_fighters, MapStates
<1> HIDE DEF v, k
<1>4. g \in [Team -> Nat] /\ g \in [Team -> Int]
  BY <1>1, <1>2
<1>5. \A i \in Team : g[i] <= f[i] /\ (i # t => g[i] = f[i])
  BY <1>1, <1>2
<1> HIDE DEF g
<1>6. OnlyFighters(m, k) /\ k.fighters_per_team = g
  BY <1>3, <1>4, ArmiesAre
<1>7. Total(g) <= Total(f)
  BY <1>1, <1>4, <1>5, TotalMonotone
<1> QED BY <1>1, <1>5, <1>6, <1>7 DEF active_fighters, k

\* The heirs of a team get all it had.
LEMMA RedistributedIs ==
  ASSUME NEW m \in MapStates, NEW t \in Team,
         active_fighters(m) # 0, Playing(m) \ {t} # {}
  PROVE  LET k == Redistributed(m, t)
         IN  /\ OnlyFighters(m, k)
             /\ active_fighters(k) = active_fighters(m)
             /\ k.fighters_per_team[t] = 0
             /\ \A i \in Team : i # t =>
                  /\ m.fighters_per_team[i] <= k.fighters_per_team[i]
                  /\ i \notin Playing(m) /\ m.fighters_per_team[i] = 0
                       => k.fighters_per_team[i] = 0
<1> DEFINE f == m.fighters_per_team
           A == active_fighters(m)
           inherited == [i \in Team |-> IF i = t THEN 0 ELSE Inherited(m, t, i)]
           left == f[t] - Total(inherited)
           dealt == [i \in Team |-> Dealt(m, t, left, i)]
           part == [i \in Team |-> (f[t] * f[i]) \div Total(f)]
           g == [i \in Team |-> IF i = t THEN 0 ELSE f[i] + inherited[i] + dealt[i]]
           k == Redistributed(m, t)
<1>1. /\ f \in [Team -> Nat] /\ f \in [Team -> Int] /\ A = Total(f)
      /\ A \in Nat /\ A # 0
  BY FightersAre
<1> HIDE DEF f, A
<1>2. f[t] \in Nat
  BY <1>1
<1>3. part \in [Team -> Nat] /\ Total(part) <= f[t]
  BY <1>1, <1>2, Proportion
<1>4. \A i \in Team : inherited[i] = IF i = t THEN 0 ELSE part[i]
  <2> TAKE i \in Team
  <2>1. f[i] \in Nat /\ f[i] * f[t] = f[t] * f[i]
    BY <1>1, <1>2
  <2> QED BY <2>1, <1>1 DEF Inherited, f, A
<1> HIDE DEF part
<1>5. /\ inherited \in [Team -> Nat] /\ inherited \in [Team -> Int]
      /\ \A i \in Team : inherited[i] <= part[i]
  <2>1. \A i \in Team : inherited[i] \in Nat /\ inherited[i] <= part[i]
    BY <1>3, <1>4
  <2> QED BY <2>1
<1> HIDE DEF inherited
<1>6. Total(inherited) <= Total(part) /\ Total(inherited) \in Int /\ Total(part) \in Int
  <2>1. part \in [Team -> Int]
    BY <1>3
  <2> QED BY <2>1, <1>5, TotalMonotone, UptoIs
<1>7. left \in Nat /\ Total(inherited) + left = f[t]
  BY <1>2, <1>3, <1>6
<1> HIDE DEF left
<1>8. /\ dealt \in [Team -> Nat] /\ Total(dealt) = left
      /\ \A i \in Team : i \notin Playing(m) \ {t} => dealt[i] = 0
  BY <1>7, DealtWhole
<1> HIDE DEF dealt
<1>9. /\ g \in [Team -> Nat] /\ g \in [Team -> Int]
      /\ \A i \in Team : g[i] = IF i = t THEN 0 ELSE f[i] + inherited[i] + dealt[i]
  <2>1. \A i \in Team : f[i] \in Nat /\ inherited[i] \in Nat /\ dealt[i] \in Nat
    BY <1>1, <1>5, <1>8
  <2>2. \A i \in Team : g[i] \in Nat
    BY <2>1
  <2> QED BY <2>2
<1>10. k = [m EXCEPT !.fighters_per_team = g]
  <2>1. k = [m EXCEPT !.fighters_per_team =
                [i \in Team |-> IF i = t THEN 0
                                ELSE @[i] + inherited[i] + Dealt(m, t, left, i)]]
    BY DEF Redistributed, inherited, left, f
  <2>2. \A i \in Team : dealt[i] = Dealt(m, t, left, i)
    BY DEF dealt
  <2> QED BY <2>1, <2>2 DEF f
<1> HIDE DEF g, k
<1>11. OnlyFighters(m, k) /\ k.fighters_per_team = g
  BY <1>9, <1>10, ArmiesAre
<1>12. Total(g) = Total(f)
  <2> DEFINE own == Only(t, f[t])
             h == [i \in Team |-> f[i] - own[i]]
             h1 == [i \in Team |-> h[i] + inherited[i]]
  <2>1. own \in [Team -> Int] /\ Total(own) = f[t]
    BY <1>2, TotalOnly
  <2>2. \A i \in Team : own[i] = IF i = t THEN f[t] ELSE 0
    BY DEF Only
  <2> HIDE DEF own
  <2>3. h \in [Team -> Int] /\ \A i \in Team : h[i] = f[i] - own[i]
    BY <1>1, <2>1
  <2> HIDE DEF h
  <2>4. Total(h) = Total(f) - f[t]
    BY <1>1, <2>1, <2>3, TotalMinus
  <2>5. h1 \in [Team -> Int] /\ \A i \in Team : h1[i] = h[i] + inherited[i]
    BY <1>5, <2>3
  <2> HIDE DEF h1
  <2>6. Total(h1) = Total(h) + Total(inherited)
    BY <1>5, <2>3, <2>5, TotalAdds
  <2>7. \A i \in Team : g[i] = h1[i] + dealt[i]
    <3> TAKE i \in Team
    <3>1. f[i] \in Int /\ inherited[i] \in Int /\ dealt[i] \in Int
      BY <1>1, <1>5, <1>8
    <3>2. i = t => dealt[i] = 0 /\ inherited[i] = 0
      BY <1>4, <1>8
    <3> QED BY <3>1, <3>2, <1>9, <2>2, <2>3, <2>5
  <2>8. dealt \in [Team -> Int]
    BY <1>8
  <2>9. Total(g) = Total(h1) + Total(dealt)
    BY <1>9, <2>5, <2>7, <2>8, TotalAdds
  <2>10. Total(f) \in Int
    BY <1>1
  <2> QED BY <2>4, <2>6, <2>9, <2>10, <1>2, <1>6, <1>7, <1>8
<1>13. ASSUME NEW i \in Team, i # t
       PROVE  /\ f[i] <= g[i]
              /\ i \notin Playing(m) /\ f[i] = 0 => g[i] = 0
  <2>1. f[i] \in Nat /\ inherited[i] \in Nat /\ dealt[i] \in Nat
    BY <1>1, <1>5, <1>8
  <2>2. f[i] <= g[i]
    BY <2>1, <1>9, <1>13
  <2>3. ASSUME i \notin Playing(m), f[i] = 0 PROVE g[i] = 0
    <3>1. dealt[i] = 0
      BY <2>3, <1>8
    <3>2. inherited[i] = (f[t] * f[i]) \div Total(f)
      BY <1>4, <1>13 DEF part
    <3>3. f[t] * f[i] = 0
      BY <2>3, <1>2
    <3>4. 0 \div A = 0
      <4>1. 0 \div A \in Nat /\ A * (0 \div A) <= 0
        BY <1>1, Floor
      <4>2. A * (0 \div A) <= A * 0
        BY <4>1, <1>1
      <4>3. 0 \div A <= 0
        BY <4>1, <4>2, <1>1, TimesCancel
      <4> QED BY <4>1, <4>3
    <3>5. inherited[i] = 0
      BY <3>2, <3>3, <3>4, <1>1
    <3> QED BY <2>3, <3>1, <3>5, <1>9, <1>13
  <2> QED BY <2>2, <2>3
<1>14. g[t] = 0
  BY <1>9
<1>15. active_fighters(k) = active_fighters(m)
  BY <1>11, <1>12, <1>1 DEF active_fighters, A
<1> QED BY <1>11, <1>13, <1>14, <1>15 DEF f, k

\* What no operation on a battle may break: only teams that play have
\* fighters, and they fit in the map.
Sound(m, r) ==
    /\ m \in MapStates
    /\ \A t \in Team : Alive(m, t) => m.active[t]
    /\ active_fighters(m) <= max_fighters(r)

\* From m to k the score and the cursors stay, and a fault is not forgotten.
SameScore(m, k) ==
    /\ k.frags = m.frags /\ k.cursors = m.cursors
    /\ k.fault = "none" => m.fault = "none"

\* The sizes that the rules give are numbers.
LEMMA SizesAre ==
  ASSUME NEW r, IsRules(r)
  PROVE  max_fighters(r) \in Nat /\ single_army(r) \in Nat
<1>1. r.total_armies_size \in Nat /\ r.single_army_size \in Nat /\ room_for_armies \in Nat
  BY MapStateAssumption DEF IsRules
<1>2. \A p \in Nat : per100_2(room_for_armies, p) \in Nat
  <2> TAKE p \in Nat
  <2>1. room_for_armies * p \in Nat
    BY <1>1
  <2>2. room_for_armies * p * p \in Nat
    BY <2>1
  <2> DEFINE a == room_for_armies * p * p
  <2> HIDE DEF a
  <2>3. a \div 10000 \in Nat
    BY <2>2 DEF a
  <2> QED BY <2>3 DEF per100_2, a
<1> QED BY <1>1, <1>2 DEF max_fighters, single_army

\* A team that is cancelled keeps its score and its place among the others.
LEMMA CancelTeamIs ==
  ASSUME NEW m \in MapStates, NEW t \in Team
  PROVE  LET k == cancel_team(m, t)
         IN  /\ k \in MapStates
             /\ k.active = [m.active EXCEPT ![t] = FALSE]
             /\ k.respawn_round = [m.respawn_round EXCEPT ![t] = 0]
             /\ k.fighters_per_team = m.fighters_per_team
             /\ SameScore(m, k)
<1> DEFINE a == [m.active EXCEPT ![t] = FALSE]
           o == [m.offline EXCEPT ![t] = FALSE]
           d == [m.respawn_round EXCEPT ![t] = 0]
<1>1. cancel_team(m, t) = [m EXCEPT !.active = a, !.offline = o, !.respawn_round = d]
  BY DEF cancel_team, MapStates
<1>2. a \in [Team -> BOOLEAN] /\ o \in [Team -> BOOLEAN] /\ d \in [Team -> Nat]
  BY DEF MapStates
<1> HIDE DEF a, o, d
<1>3. LET k == [m EXCEPT !.active = a, !.offline = o, !.respawn_round = d]
      IN  /\ k \in MapStates
          /\ k.active = a
          /\ k.respawn_round = d
          /\ k.fighters_per_team = m.fighters_per_team
          /\ SameScore(m, k)
  BY <1>2 DEF MapStates, SameScore
<1> QED BY <1>1, <1>3 DEF a, d

\* The teams that play.
LEMMA PlayingIs ==
  ASSUME NEW m \in MapStates
  PROVE  /\ \A t \in Team : t \in Playing(m) <=> m.active[t]
         /\ \A t \in Team : m.active[t] \in BOOLEAN
         /\ Playing(m) \subseteq Team
         /\ IsFiniteSet(Playing(m)) /\ nb_teams(m) \in Nat
<1>1. Playing(m) \subseteq Team
  BY DEF Playing
<1> QED BY <1>1, TeamsFinite DEF Playing, nb_teams, MapStates

\* A team that plays is alone when and only when it is the only one.
LEMMA AloneIs ==
  ASSUME NEW m \in MapStates, NEW t \in Team, m.active[t]
  PROVE  /\ nb_teams(m) - 1 <= 0 <=> Playing(m) = {t}
         /\ nb_teams(m) \in Nat
         /\ Playing(m) # {t} => Playing(m) \ {t} # {}
<1> DEFINE S == Playing(m)
<1>1. IsFiniteSet(S) /\ t \in S /\ nb_teams(m) \in Nat
  BY PlayingIs
<1>2. Cardinality(S \ {t}) = Cardinality(S) - 1 /\ IsFiniteSet(S \ {t})
  BY <1>1, FS_RemoveElement
<1>3. Cardinality(S \ {t}) = 0 <=> S \ {t} = {}
  BY <1>2, FS_EmptySet
<1>4. S \ {t} = {} <=> S = {t}
  BY <1>1
<1>5. Cardinality(S) \in Nat /\ Cardinality(S) = nb_teams(m) /\ Cardinality(S \ {t}) \in Nat
  BY <1>1, <1>2, FS_CardinalityType DEF nb_teams
<1> QED BY <1>2, <1>3, <1>4, <1>5

\* Changing nothing but the numbers of fighters, and making none larger, is
\* sound.
LEMMA FewerSound ==
  ASSUME NEW m, NEW r, Sound(m, r), IsRules(r), NEW k, OnlyFighters(m, k),
         \A t \in Team : k.fighters_per_team[t] <= m.fighters_per_team[t],
         active_fighters(k) <= active_fighters(m)
  PROVE  /\ Sound(k, r)
         /\ SameScore(m, k)
         /\ k.active = m.active /\ k.respawn_round = m.respawn_round
         /\ Playing(k) = Playing(m)
<1>1. m \in MapStates /\ k \in MapStates
  BY DEF Sound, OnlyFighters
<1>2. active_fighters(m) \in Nat /\ active_fighters(k) \in Nat /\ max_fighters(r) \in Nat
  BY <1>1, FightersAre, SizesAre
<1>3. active_fighters(k) <= max_fighters(r)
  BY <1>2 DEF Sound
<1>4. ASSUME NEW t \in Team, Alive(k, t) PROVE k.active[t]
  <2>1. m.fighters_per_team \in [Team -> Nat] /\ k.fighters_per_team \in [Team -> Nat]
    BY <1>1, FightersAre
  <2>2. PICK x \in Nat, y \in Nat : x = m.fighters_per_team[t] /\ y = k.fighters_per_team[t]
    BY <2>1
  <2>3. x > 0
    BY <2>2, <1>4 DEF Alive
  <2> QED BY <2>2, <2>3 DEF Sound, Alive, OnlyFighters
<1> QED BY <1>1, <1>3, <1>4 DEF Sound, SameScore, OnlyFighters, Playing

\* Removing a team: the others inherit, and it plays no more; but the last one
\* stays, without fighters.
LEMMA RemoveTeamIs ==
  ASSUME NEW m, NEW r, Sound(m, r), IsRules(r), NEW t \in Team,
         NEW k, k = remove_team_internal(m, r, t)
  PROVE  /\ Sound(k, r)
         /\ SameScore(m, k)
         /\ Playing(k) \subseteq Playing(m)
         /\ ~m.active[t] => k = m
         /\ m.active[t] /\ Playing(m) = {t} => Playing(k) = Playing(m)
         /\ m.active[t] /\ Playing(m) # {t} /\ k.fault = "none" =>
              /\ Playing(k) = Playing(m) \ {t}
              /\ \A i \in Team : i # t =>
                   m.fighters_per_team[i] <= k.fighters_per_team[i]
<1> DEFINE others == nb_teams(m) - 1
           all == active_fighters(m)
           trimmed == IF all \div others > single_army(r)
                      THEN remove_team_fighters(m, t, all - single_army(r) * others)
                      ELSE m
<1>1. m \in MapStates /\ m.active[t] \in BOOLEAN
  BY PlayingIs DEF Sound
<1>2. CASE ~m.active[t]
  <2>1. k = m
    BY <1>2 DEF remove_team_internal
  <2> QED BY <1>2, <2>1 DEF SameScore
<1>3. CASE m.active[t] /\ Playing(m) = {t}
  <2>1. others <= 0 /\ all \in Nat
    BY <1>1, <1>3, AloneIs, FightersAre
  <2>2. k = remove_fighters(m, all)
    BY <1>3, <2>1 DEF remove_team_internal
  <2> HIDE DEF others, all
  <2>3. /\ OnlyFighters(m, k)
        /\ \A i \in Team : k.fighters_per_team[i] <= m.fighters_per_team[i]
        /\ active_fighters(k) <= active_fighters(m)
    BY <1>1, <2>1, <2>2, RemoveFightersIs
  <2>4. Sound(k, r) /\ SameScore(m, k) /\ Playing(k) = Playing(m)
    BY <2>3, FewerSound
  <2> QED BY <1>3, <2>4
<1>4. CASE m.active[t] /\ Playing(m) # {t}
  <2>1. others \in Nat /\ others # 0 /\ ~(others <= 0) /\ Playing(m) \ {t} # {}
    BY <1>1, <1>4, AloneIs
  <2>2. all \in Nat /\ single_army(r) \in Nat
    BY <1>1, FightersAre, SizesAre
  <2>3. /\ OnlyFighters(m, trimmed)
        /\ \A i \in Team : /\ trimmed.fighters_per_team[i] <= m.fighters_per_team[i]
                           /\ i # t => trimmed.fighters_per_team[i] = m.fighters_per_team[i]
        /\ active_fighters(trimmed) <= active_fighters(m)
    <3>1. CASE all \div others > single_army(r)
      <4>1. all - single_army(r) * others \in Nat
        <5> HIDE DEF all, others
        <5>1. all \div others \in Nat /\ others * (all \div others) <= all
          BY <2>1, <2>2, Floor
        <5>2. others * single_army(r) <= others * (all \div others)
          BY <2>1, <2>2, <5>1, <3>1, TimesMonotone
        <5>3. others * single_army(r) = single_army(r) * others
              /\ others * single_army(r) \in Int /\ others * (all \div others) \in Int
          BY <2>1, <2>2, <5>1
        <5> QED BY <5>1, <5>2, <5>3, <2>2
      <4> DEFINE nb == all - single_army(r) * others
      <4>2. trimmed = remove_team_fighters(m, t, nb)
        BY <3>1
      <4> HIDE DEF trimmed, nb, all, others
      <4>3. nb \in Nat
        BY <4>1 DEF nb
      <4> QED BY <1>1, <4>2, <4>3, RemoveTeamFightersIs
    <3>2. CASE ~(all \div others > single_army(r))
      <4>1. trimmed = m
        BY <3>2
      <4> HIDE DEF trimmed
      <4>2. m.fighters_per_team \in [Team -> Nat]
        BY <1>1, FightersAre
      <4>3. \A i \in Team : m.fighters_per_team[i] \in Nat
        BY <4>2
      <4>4. \A i \in Team : m.fighters_per_team[i] <= m.fighters_per_team[i]
        BY <4>3
      <4>5. active_fighters(m) <= active_fighters(m)
        BY <2>2
      <4>6. OnlyFighters(m, m)
        BY <1>1 DEF OnlyFighters
      <4> QED BY <4>1, <4>4, <4>5, <4>6
    <3> QED BY <3>1, <3>2
  <2>4. /\ Sound(trimmed, r) /\ SameScore(m, trimmed) /\ trimmed \in MapStates
        /\ trimmed.active = m.active /\ Playing(trimmed) = Playing(m)
    <3> HIDE DEF trimmed
    <3>1. /\ Sound(trimmed, r)
          /\ SameScore(m, trimmed)
          /\ trimmed.active = m.active /\ trimmed.respawn_round = m.respawn_round
          /\ Playing(trimmed) = Playing(m)
      BY <2>3, FewerSound
    <3> QED BY <3>1 DEF Sound
  <2>5. CASE active_fighters(trimmed) = 0
    <3>1. k = Faulty(m, "division by zero")
      BY <1>4, <2>1, <2>5 DEF remove_team_internal
    <3> HIDE DEF trimmed
    <3>2. /\ OnlyFighters(m, Faulty(m, "division by zero"))
          /\ Faulty(m, "division by zero").fighters_per_team = m.fighters_per_team
          /\ Faulty(m, "division by zero").fault # "none"
      BY <1>1, FaultyIs
    <3>3. OnlyFighters(m, k) /\ k.fighters_per_team = m.fighters_per_team /\ k.fault # "none"
      BY <3>1, <3>2
    <3>4. m.fighters_per_team \in [Team -> Nat]
      BY <1>1, FightersAre
    <3>5. \A i \in Team : k.fighters_per_team[i] <= m.fighters_per_team[i]
      BY <3>3, <3>4
    <3>6. active_fighters(k) <= active_fighters(m)
      BY <3>3, <2>2 DEF active_fighters
    <3>7. Sound(k, r) /\ SameScore(m, k) /\ Playing(k) = Playing(m)
      BY <3>3, <3>5, <3>6, FewerSound
    <3> QED BY <1>4, <3>3, <3>7
  <2>6. CASE active_fighters(trimmed) # 0
    <3> DEFINE heirs == Redistributed(trimmed, t)
    <3>1. k = cancel_team(heirs, t)
      BY <1>4, <2>1, <2>6 DEF remove_team_internal
    <3> HIDE DEF trimmed
    <3>2. /\ OnlyFighters(trimmed, heirs)
          /\ active_fighters(heirs) = active_fighters(trimmed)
          /\ heirs.fighters_per_team[t] = 0
          /\ \A i \in Team : i # t =>
               /\ trimmed.fighters_per_team[i] <= heirs.fighters_per_team[i]
               /\ i \notin Playing(trimmed) /\ trimmed.fighters_per_team[i] = 0
                    => heirs.fighters_per_team[i] = 0
      BY <2>1, <2>4, <2>6, RedistributedIs
    <3> HIDE DEF heirs
    <3>3. heirs \in MapStates
      BY <3>2 DEF OnlyFighters
    <3>4. /\ k \in MapStates
          /\ k.active = [heirs.active EXCEPT ![t] = FALSE]
          /\ k.respawn_round = [heirs.respawn_round EXCEPT ![t] = 0]
          /\ k.fighters_per_team = heirs.fighters_per_team
          /\ SameScore(heirs, k)
      BY <3>1, <3>3, CancelTeamIs
    <3>5. heirs.active = m.active /\ m.active \in [Team -> BOOLEAN]
      BY <3>2, <2>4, <1>1 DEF OnlyFighters, MapStates
    <3>6. Playing(k) = Playing(m) \ {t}
      BY <3>4, <3>5 DEF Playing
    <3>7. SameScore(m, k)
      BY <3>2, <3>4, <2>4 DEF SameScore, OnlyFighters
    <3>8. active_fighters(k) <= max_fighters(r)
      BY <3>4, <3>2, <2>4 DEF Sound, active_fighters
    <3>9. ASSUME NEW i \in Team, Alive(k, i) PROVE k.active[i]
      <4>1. k.fighters_per_team[i] = heirs.fighters_per_team[i] /\ heirs.fighters_per_team[i] > 0
        BY <3>4, <3>9 DEF Alive
      <4>2. i # t
        <5>1. ~(0 > 0)
          OBVIOUS
        <5> QED BY <4>1, <3>2, <5>1
      <4>3. heirs.fighters_per_team[i] # 0
        BY <4>1
      <4>4. i \in Playing(trimmed) \/ trimmed.fighters_per_team[i] # 0
        BY <3>2, <4>2, <4>3
      <4>5. trimmed.fighters_per_team \in [Team -> Nat]
        BY <2>4, FightersAre
      <4>6. m.active[i]
        <5>1. CASE i \in Playing(trimmed)
          BY <5>1, <2>4 DEF Playing
        <5>2. CASE trimmed.fighters_per_team[i] # 0
          <6>1. trimmed.fighters_per_team[i] > 0
            BY <5>2, <4>5
          <6> QED BY <6>1, <2>4 DEF Sound, Alive
        <5> QED BY <4>4, <5>1, <5>2
      <4> QED BY <4>2, <4>6, <3>4, <3>5
    <3>10. \A i \in Team : i # t => m.fighters_per_team[i] <= k.fighters_per_team[i]
      BY <2>3, <3>2, <3>4
    <3> QED BY <1>4, <3>4, <3>6, <3>7, <3>8, <3>9, <3>10 DEF Sound
  <2> QED BY <2>5, <2>6
<1> QED BY <1>1, <1>2, <1>3, <1>4

----------------------------------------------------------------------------
(* Adding a team.                                                          *)

\* A team that gets its fighters plays, and they fit.
LEMMA PopulateTeamIs ==
  ASSUME NEW m, NEW r, Sound(m, r), IsRules(r), NEW t \in Team, NEW nb \in Nat,
         NEW k, k = populate_team(m, r, t, nb)
  PROVE  /\ Sound(k, r)
         /\ SameScore(m, k)
         /\ Playing(k) = Playing(m) \cup {t}
<1> DEFINE f == m.fighters_per_team
           n == IMin(nb, max_fighters(r) - active_fighters(m))
           g == [f EXCEPT ![t] = f[t] + n]
           a == [m.active EXCEPT ![t] = TRUE]
           o == [m.offline EXCEPT ![t] = FALSE]
           d == [m.respawn_round EXCEPT ![t] = 0]
<1>1. /\ m \in MapStates /\ f \in [Team -> Nat] /\ f \in [Team -> Int]
      /\ active_fighters(m) = Total(f) /\ active_fighters(m) \in Nat
  BY FightersAre DEF Sound
<1>2. max_fighters(r) \in Nat /\ active_fighters(m) <= max_fighters(r)
  BY SizesAre DEF Sound
<1>3. n \in Nat /\ n + active_fighters(m) <= max_fighters(r)
  BY <1>1, <1>2 DEF IMin
<1>4. k = [m EXCEPT !.fighters_per_team = g, !.active = a, !.offline = o,
                    !.respawn_round = d]
  BY <1>1 DEF populate_team, MapStates
<1> HIDE DEF n
<1>5. /\ f[t] \in Nat /\ f[t] + n \in Nat /\ g \in [Team -> Nat] /\ g \in [Team -> Int]
      /\ a \in [Team -> BOOLEAN] /\ o \in [Team -> BOOLEAN] /\ d \in [Team -> Nat]
  <2>1. f[t] \in Nat
    BY <1>1
  <2>2. f[t] + n \in Nat
    BY <2>1, <1>3
  <2> DEFINE v == f[t] + n
  <2>3. g = [f EXCEPT ![t] = v]
    OBVIOUS
  <2>4. /\ m.active \in [Team -> BOOLEAN] /\ m.offline \in [Team -> BOOLEAN]
        /\ m.respawn_round \in [Team -> Nat]
    BY <1>1 DEF MapStates
  <2>5. a \in [Team -> BOOLEAN] /\ o \in [Team -> BOOLEAN] /\ d \in [Team -> Nat]
    BY <2>4
  <2> HIDE DEF v, g, f
  <2>6. g \in [Team -> Nat] /\ g \in [Team -> Int]
    BY <2>2, <2>3, <1>1 DEF v
  <2> QED BY <2>1, <2>2, <2>5, <2>6
<1>6. Total(g) = Total(f) + n
  <2>1. PICK v \in Int : v = f[t] + n
    BY <1>5
  <2>2. Total([f EXCEPT ![t] = v]) = Total(f) - f[t] + v
    BY <1>1, TotalExcept
  <2> QED BY <2>1, <2>2, <1>1, <1>3, <1>5
<1>7. \A i \in Team : i # t => g[i] = f[i] /\ a[i] = m.active[i]
  BY <1>1 DEF MapStates
<1>8. a[t] = TRUE /\ \A i \in Team : i # t => a[i] = m.active[i]
  BY <1>1 DEF MapStates
<1> HIDE DEF g, a, o, d
<1>9. /\ k \in MapStates /\ k.fighters_per_team = g /\ k.active = a
      /\ SameScore(m, k)
  BY <1>1, <1>4, <1>5 DEF MapStates, SameScore
<1>10. Playing(k) = Playing(m) \cup {t}
  BY <1>8, <1>9 DEF Playing
<1>11. active_fighters(k) <= max_fighters(r)
  BY <1>1, <1>3, <1>6, <1>9 DEF active_fighters
<1>12. ASSUME NEW i \in Team, Alive(k, i) PROVE k.active[i]
  <2>1. CASE i = t
    BY <2>1, <1>8, <1>9
  <2>2. CASE i # t
    <3>1. k.fighters_per_team[i] = f[i] /\ k.active[i] = m.active[i]
      BY <2>2, <1>7, <1>9
    <3> QED BY <3>1, <1>12 DEF Sound, Alive
  <2> QED BY <2>1, <2>2
<1> QED BY <1>9, <1>10, <1>11, <1>12 DEF Sound

\* What the teams are left with before the last are taken one by one: no more
\* than they had and, when not all is asked for, something.
LEMMA DecimatedStarts ==
  ASSUME NEW m, NEW r, Sound(m, r), IsRules(r), NEW nb \in Nat,
         Excess(m, r, nb) > 0, active_fighters(m) # 0
  PROVE  \E g \in [Team -> Nat] :
           /\ \A i \in Team : g[i] <= m.fighters_per_team[i]
           /\ Total(g) \in Nat /\ Total(g) <= active_fighters(m)
           /\ nb + Total(g) - max_fighters(r) \in Nat
           /\ Decimated(m, r, nb) =
                remove_fighters([m EXCEPT !.fighters_per_team = g],
                                nb + Total(g) - max_fighters(r))
           /\ Excess(m, r, nb) < active_fighters(m) =>
                \A i \in Team : m.fighters_per_team[i] # 0 => g[i] # 0
<1> DEFINE f == m.fighters_per_team
           A == active_fighters(m)
           M == max_fighters(r)
           excess == Excess(m, r, nb)
           part == [i \in Team |-> (excess * f[i]) \div Total(f)]
           taken == [i \in Team |-> IMin(part[i], f[i])]
           g == [i \in Team |-> f[i] - taken[i]]
           less == [m EXCEPT !.fighters_per_team = g]
<1>1. /\ m \in MapStates /\ f \in [Team -> Nat] /\ f \in [Team -> Int]
      /\ A = Total(f) /\ A \in Nat /\ A # 0
  BY FightersAre DEF Sound
<1>2. M \in Nat /\ excess \in Nat /\ excess = nb + A - M
  BY <1>1, SizesAre DEF Excess
<1> HIDE DEF f, A, M, excess
<1>3. part \in [Team -> Nat] /\ Total(part) <= excess
  BY <1>1, <1>2, Proportion
<1>4. ASSUME excess < A, NEW i \in Team, f[i] # 0 PROVE part[i] < f[i]
  <2>1. f[i] \in Nat
    BY <1>1
  <2>2. (excess * f[i]) \div Total(f) < f[i]
    BY <2>1, <1>1, <1>2, <1>4, LessShare
  <2> QED BY <2>2
<1> HIDE DEF part
<1>5. \A i \in Team : /\ f[i] \in Nat /\ part[i] \in Nat /\ taken[i] \in Nat
                      /\ taken[i] <= f[i] /\ taken[i] <= part[i]
  <2> TAKE i \in Team
  <2>1. f[i] \in Nat /\ part[i] \in Nat
    BY <1>1, <1>3
  <2>2. IMin(part[i], f[i]) \in Nat /\ IMin(part[i], f[i]) <= f[i] /\ IMin(part[i], f[i]) <= part[i]
    BY <2>1 DEF IMin
  <2> QED BY <2>1, <2>2
<1>6. taken \in [Team -> Int] /\ part \in [Team -> Int]
  <2>1. taken = [i \in Team |-> taken[i]] /\ \A i \in Team : taken[i] \in Int
    BY <1>5
  <2> HIDE DEF taken
  <2> QED BY <2>1, <1>3
<1>7. Decimated(m, r, nb) = remove_fighters(less, Excess(less, r, nb))
  <2>1. Decimated(m, r, nb) =
          LET l == [m EXCEPT !.fighters_per_team =
                      [i \in Team |-> @[i] - IMin((excess * @[i]) \div A, @[i])]]
          IN  remove_fighters(l, Excess(l, r, nb))
    BY DEF Decimated, excess, A
  <2>2. ASSUME NEW i \in Team
        PROVE  f[i] - IMin((excess * f[i]) \div A, f[i]) = g[i]
    BY <1>1 DEF part
  <2>3. [i \in Team |-> f[i] - IMin((excess * f[i]) \div A, f[i])] = g
    BY <2>2
  <2> QED BY <2>1, <2>3 DEF f
<1> HIDE DEF taken
<1>8. /\ g \in [Team -> Nat] /\ g \in [Team -> Int]
      /\ \A i \in Team : g[i] <= f[i] /\ g[i] = f[i] - taken[i]
  <2>1. \A i \in Team : f[i] - taken[i] \in Nat /\ f[i] - taken[i] <= f[i]
    BY <1>5
  <2> QED BY <2>1
<1> HIDE DEF g
<1>9. less.fighters_per_team = g
  BY <1>1, <1>8, ArmiesAre
<1>10. Excess(less, r, nb) = nb + Total(g) - M
  BY <1>9 DEF Excess, active_fighters, M
<1>11. Total(g) = Total(f) - Total(taken)
  BY <1>1, <1>6, <1>8, TotalMinus
<1>12. Total(taken) <= Total(part) /\ Total(taken) \in Int /\ Total(part) \in Int
  BY <1>5, <1>6, TotalMonotone, UptoIs
<1>13. Total(g) <= Total(f) /\ Total(g) \in Nat
  BY <1>1, <1>8, TotalMonotone, TotalNat
<1>14. nb + Total(g) - M \in Nat
  BY <1>1, <1>2, <1>3, <1>11, <1>12, <1>13
<1>15. ASSUME excess < A, NEW i \in Team, f[i] # 0 PROVE g[i] # 0
  BY <1>4, <1>5, <1>8, <1>15
<1>16. Decimated(m, r, nb) = remove_fighters(less, nb + Total(g) - M)
  BY <1>7, <1>10
<1> QED BY <1>1, <1>8, <1>13, <1>14, <1>15, <1>16 DEF f, A, M, excess

\* The other teams make room, and get no larger by it.
LEMMA DecimatedIs ==
  ASSUME NEW m, NEW r, Sound(m, r), IsRules(r), NEW nb \in Nat,
         Excess(m, r, nb) > 0, active_fighters(m) # 0,
         NEW k, k = Decimated(m, r, nb)
  PROVE  Sound(k, r) /\ SameScore(m, k) /\ Playing(k) = Playing(m)
<1>1. PICK g \in [Team -> Nat] :
        /\ \A i \in Team : g[i] <= m.fighters_per_team[i]
        /\ Total(g) \in Nat /\ Total(g) <= active_fighters(m)
        /\ nb + Total(g) - max_fighters(r) \in Nat
        /\ Decimated(m, r, nb) =
             remove_fighters([m EXCEPT !.fighters_per_team = g],
                             nb + Total(g) - max_fighters(r))
        /\ Excess(m, r, nb) < active_fighters(m) =>
             \A i \in Team : m.fighters_per_team[i] # 0 => g[i] # 0
  BY DecimatedStarts
<1> DEFINE less == [m EXCEPT !.fighters_per_team = g]
           rest == nb + Total(g) - max_fighters(r)
<1>2. m \in MapStates
  BY DEF Sound
<1>3. OnlyFighters(m, less) /\ less.fighters_per_team = g
  BY <1>2, ArmiesAre
<1>4. k = remove_fighters(less, rest) /\ rest \in Nat
  BY <1>1
<1> HIDE DEF less, rest
<1>5. /\ Sound(less, r)
      /\ SameScore(m, less)
      /\ less.active = m.active /\ less.respawn_round = m.respawn_round
      /\ Playing(less) = Playing(m)
  <2>1. active_fighters(less) <= active_fighters(m)
    BY <1>1, <1>3 DEF active_fighters
  <2> QED BY <1>1, <1>3, <2>1, FewerSound
<1>6. /\ OnlyFighters(less, k)
      /\ \A i \in Team : k.fighters_per_team[i] <= less.fighters_per_team[i]
      /\ active_fighters(k) <= active_fighters(less)
  <2>1. less \in MapStates
    BY <1>3 DEF OnlyFighters
  <2> QED BY <1>4, <2>1, RemoveFightersIs
<1>7. Sound(k, r) /\ SameScore(less, k) /\ Playing(k) = Playing(less)
  BY <1>5, <1>6, FewerSound
<1> QED BY <1>5, <1>7 DEF SameScore

\* A team that is added plays.
LEMMA AddTeamIs ==
  ASSUME NEW m, NEW r, Sound(m, r), IsRules(r), NEW t \in Team,
         NEW k, k = add_team_internal(m, r, t)
  PROVE  /\ Sound(k, r)
         /\ SameScore(m, k)
         /\ Playing(m) \subseteq Playing(k) /\ Playing(k) \subseteq Playing(m) \cup {t}
         /\ m.active[t] => k = m
         /\ k.fault = "none" => t \in Playing(k)
<1> DEFINE nb == Recruits(m, r, t)
<1>1. m \in MapStates
  BY DEF Sound
<1>2. nb \in Nat
  <2>1. r.handicap[t] \in Nat
    <3>1. r.handicap \in [Team -> 10 .. 1000]
      BY DEF IsRules
    <3>2. r.handicap[t] \in 10 .. 1000
      BY <3>1
    <3>3. \A n \in 10 .. 1000 : n \in Nat
      OBVIOUS
    <3> QED BY <3>2, <3>3, Zenon
  <2>2. max_fighters(r) \in Nat /\ single_army(r) \in Nat /\ nb_teams(m) + 1 \in Nat \ {0}
    BY <1>1, SizesAre, PlayingIs
  <2> DEFINE wanted == IF single_army(r) + active_fighters(m) > max_fighters(r)
                       THEN max_fighters(r) \div (nb_teams(m) + 1)
                       ELSE single_army(r)
  <2>3. wanted \in Nat
    <3>1. max_fighters(r) \div (nb_teams(m) + 1) \in Nat
      BY <2>2, Floor
    <3> QED BY <2>2, <3>1
  <2>4. nb = (wanted * r.handicap[t]) \div 100
    BY DEF Recruits
  <2> HIDE DEF wanted
  <2> DEFINE a == wanted * r.handicap[t]
  <2>5. a \in Nat
    BY <2>1, <2>3
  <2> HIDE DEF a
  <2>6. a \div 100 \in Nat
    BY <2>5, Floor
  <2> QED BY <2>4, <2>6 DEF a
<1> HIDE DEF nb
<1>3. CASE m.active[t]
  <2>1. k = m
    BY <1>3 DEF add_team_internal
  <2> QED BY <1>3, <2>1, <1>1, PlayingIs DEF SameScore
<1>4. CASE ~m.active[t] /\ Excess(m, r, nb) <= 0
  <2>1. k = populate_team(m, r, t, nb)
    BY <1>4 DEF add_team_internal, nb
  <2>2. Sound(k, r) /\ SameScore(m, k) /\ Playing(k) = Playing(m) \cup {t}
    BY <1>2, <2>1, PopulateTeamIs
  <2> QED BY <1>4, <2>2
<1>5. CASE ~m.active[t] /\ ~(Excess(m, r, nb) <= 0) /\ active_fighters(m) = 0
  <2>1. k = Faulty(m, "division by zero")
    BY <1>5 DEF add_team_internal, nb
  <2>2. /\ OnlyFighters(m, Faulty(m, "division by zero"))
        /\ Faulty(m, "division by zero").fighters_per_team = m.fighters_per_team
        /\ Faulty(m, "division by zero").fault # "none"
    BY <1>1, FaultyIs
  <2>3. m.fighters_per_team \in [Team -> Nat] /\ active_fighters(m) \in Nat
    BY <1>1, FightersAre
  <2>4. k.fault # "none" /\ OnlyFighters(m, k) /\ k.fighters_per_team = m.fighters_per_team
    BY <2>1, <2>2
  <2>5. \A i \in Team : k.fighters_per_team[i] <= m.fighters_per_team[i]
    BY <2>3, <2>4
  <2>6. active_fighters(k) <= active_fighters(m)
    BY <2>3, <2>4 DEF active_fighters
  <2>7. Sound(k, r) /\ SameScore(m, k) /\ Playing(k) = Playing(m)
    BY <2>4, <2>5, <2>6, FewerSound
  <2> QED BY <1>5, <2>4, <2>7
<1>6. CASE ~m.active[t] /\ ~(Excess(m, r, nb) <= 0) /\ active_fighters(m) # 0
  <2> DEFINE l == Decimated(m, r, nb)
  <2>1. k = populate_team(l, r, t, nb)
    BY <1>6 DEF add_team_internal, nb
  <2>2. Excess(m, r, nb) > 0
    <3>1. Excess(m, r, nb) \in Int
      BY <1>1, <1>2, FightersAre, SizesAre DEF Excess
    <3> QED BY <3>1, <1>6
  <2>3. Sound(l, r) /\ SameScore(m, l) /\ Playing(l) = Playing(m)
    BY <1>2, <1>6, <2>2, DecimatedIs
  <2> HIDE DEF l
  <2>4. Sound(k, r) /\ SameScore(l, k) /\ Playing(k) = Playing(l) \cup {t}
    BY <1>2, <2>1, <2>3, PopulateTeamIs
  <2> QED BY <1>6, <2>3, <2>4 DEF SameScore
<1> QED BY <1>3, <1>4, <1>5, <1>6

----------------------------------------------------------------------------
(* The score.                                                              *)

\* A remainder by the number of teams is a team.
LEMMA RemainderIsTeam ==
  ASSUME NEW a \in Nat
  PROVE  a % MAX_NB_TEAMS \in Team
<1>1. MAX_NB_TEAMS \in Nat /\ MAX_NB_TEAMS # 0
  BY MapStateAssumption
<1>2. a % MAX_NB_TEAMS \in Nat /\ a % MAX_NB_TEAMS < MAX_NB_TEAMS
  BY <1>1, DivMod
<1> QED BY <1>1, <1>2 DEF Team

\* The turns of the loop that balances the points.
Balancing(delta, m, dead, off, u) ==
    /\ u \in [Nat -> [Team -> Int]]
    /\ u[0] = delta
    /\ \A i \in Nat :
         LET t == (dead + i) % MAX_NB_TEAMS
         IN  u[i + 1] = IF /\ Total(u[i]) # 0 /\ m.active[t]
                           /\ IF off < 0 THEN u[i][t] >= 0 ELSE u[i][t] <= 0
                        THEN [u[i] EXCEPT ![t] = IF off < 0 THEN @ + 1 ELSE @ - 1]
                        ELSE u[i]
    /\ Balance(delta, m, dead, off) = u[MAX_NB_TEAMS * (IF off < 0 THEN -off ELSE off)]

\* The loop can be turned, and points stay points.
LEMMA BalanceTurns ==
  ASSUME NEW delta \in [Team -> Int], NEW m, NEW dead \in Team, NEW off \in Int
  PROVE  \E u : Balancing(delta, m, dead, off, u)
<1> DEFINE S == [Team -> Int]
           gap == IF off < 0 THEN -off ELSE off
           side(d, t) == m.active[t] /\ (IF off < 0 THEN d[t] >= 0 ELSE d[t] <= 0)
           step(d, t) ==
             IF Total(d) # 0 /\ side(d, t)
             THEN [d EXCEPT ![t] = IF off < 0 THEN @ + 1 ELSE @ - 1]
             ELSE d
           at(i) == (dead + i - 1) % MAX_NB_TEAMS
           after == CHOOSE u : u = [i \in Nat |->
                      IF i = 0 THEN delta
                      ELSE step(u[i - 1], (dead + i - 1) % MAX_NB_TEAMS)]
           g == [x \in Nat \X S |-> step(x[2], at(x[1] + 1))]
<1>1. \A i \in Nat : at(i + 1) \in Team /\ at(i + 1) = (dead + i) % MAX_NB_TEAMS
  <2> TAKE i \in Nat
  <2> DEFINE a == dead + (i + 1) - 1
  <2>1. a \in Nat /\ a = dead + i
    BY TeamIs
  <2> HIDE DEF a
  <2>2. a % MAX_NB_TEAMS \in Team
    BY <2>1, RemainderIsTeam
  <2>3. at(i + 1) = a % MAX_NB_TEAMS
    BY DEF a
  <2> QED BY <2>1, <2>2, <2>3
<1> HIDE DEF at
<1>2. ASSUME NEW i \in Nat, NEW d \in S PROVE step(d, at(i + 1)) \in S
  <2>1. PICK t \in Team : t = at(i + 1)
    BY <1>1
  <2>2. d[t] \in Int
    OBVIOUS
  <2>3. (IF off < 0 THEN d[t] + 1 ELSE d[t] - 1) \in Int
    BY <2>2
  <2>4. [d EXCEPT ![t] = IF off < 0 THEN d[t] + 1 ELSE d[t] - 1] \in S
    BY <2>3
  <2>5. step(d, t) \in S
    BY <2>4
  <2> QED BY <2>1, <2>5
<1>3. g \in [Nat \X S -> S]
  <2> HIDE DEF step, S
  <2> QED BY <1>2
<1>4. PICK h : Loop(S, delta, g, h)
  <2>1. delta \in S
    OBVIOUS
  <2> HIDE DEF g, S
  <2> QED BY <1>3, <2>1, LoopExists
<1>5. ASSUME NEW i \in Nat PROVE h[i + 1] = step(h[i], at(i + 1))
  <2>1. h[i + 1] = g[<<i, h[i]>>] /\ h[i] \in S
    <3> HIDE DEF g
    <3> QED BY <1>4 DEF Loop
  <2>2. g[<<i, h[i]>>] = step(h[i], at(i + 1))
    <3> HIDE DEF step, S
    <3> QED BY <2>1
  <2> QED BY <2>1, <2>2
<1>6. ASSUME NEW i \in Nat PROVE h[i] = IF i = 0 THEN delta ELSE step(h[i - 1], at(i))
  <2>1. CASE i = 0
    BY <2>1, <1>4 DEF Loop
  <2>2. CASE i # 0
    <3>1. i - 1 \in Nat /\ (i - 1) + 1 = i
      BY <2>2
    <3> HIDE DEF step
    <3> QED BY <3>1, <1>5, <2>2
  <2> QED BY <2>1, <2>2
<1>7. h = [i \in Nat |-> IF i = 0 THEN delta
                         ELSE step(h[i - 1], (dead + i - 1) % MAX_NB_TEAMS)]
  <2> HIDE DEF step, S
  <2> QED BY <1>4, <1>6 DEF at, Loop
<1>8. after = [i \in Nat |-> IF i = 0 THEN delta
                             ELSE step(after[i - 1], (dead + i - 1) % MAX_NB_TEAMS)]
  <2> HIDE DEF step
  <2> QED BY <1>7, Zenon
<1>9. Balance(delta, m, dead, off) = after[MAX_NB_TEAMS * gap]
  BY Zenon DEF Balance
<1> HIDE DEF after
<1>10. \A i \in Nat : after[i] = IF i = 0 THEN delta ELSE step(after[i - 1], at(i))
  <2> HIDE DEF step
  <2> QED BY <1>8, Zenon DEF at
<1>11. after[0] = delta
  <2>1. 0 \in Nat
    OBVIOUS
  <2> HIDE DEF step
  <2> QED BY <1>10, <2>1, Zenon
<1>12. ASSUME NEW i \in Nat PROVE after[i + 1] = step(after[i], at(i + 1))
  <2>1. i + 1 \in Nat /\ i + 1 # 0 /\ (i + 1) - 1 = i
    OBVIOUS
  <2> HIDE DEF step
  <2> QED BY <2>1, <1>10
<1> DEFINE P == {n \in Nat : after[n] \in S}
<1>13. 0 \in P
  BY <1>11
<1>14. ASSUME NEW n \in Nat, n \in P PROVE n + 1 \in P
  <2>1. step(after[n], at(n + 1)) \in S
    <3> HIDE DEF step, S
    <3> QED BY <1>2, <1>14
  <2> HIDE DEF step
  <2> QED BY <1>12, <2>1
<1>15. \A n \in Nat : n \in P
  <2> HIDE DEF P
  <2> QED BY <1>13, <1>14, AllNaturals
<1>16. after \in [Nat -> S]
  <2>1. after = [i \in Nat |-> after[i]]
    <3> HIDE DEF step
    <3> QED BY <1>8, Zenon
  <2> HIDE DEF S
  <2> QED BY <2>1, <1>15
<1>17. ASSUME NEW i \in Nat
       PROVE  LET t == (dead + i) % MAX_NB_TEAMS
              IN  after[i + 1] =
                    IF /\ Total(after[i]) # 0 /\ m.active[t]
                       /\ IF off < 0 THEN after[i][t] >= 0 ELSE after[i][t] <= 0
                    THEN [after[i] EXCEPT ![t] = IF off < 0 THEN @ + 1 ELSE @ - 1]
                    ELSE after[i]
  BY <1>1, <1>12, Zenon
<1> HIDE DEF step
<1>18. Balancing(delta, m, dead, off, after)
  BY <1>9, <1>11, <1>16, <1>17, Zenon DEF Balancing, S
<1> QED BY <1>18

\* Points that are balanced stay points.
LEMMA BalanceIs ==
  ASSUME NEW delta \in [Team -> Int], NEW m, NEW dead \in Team, NEW off \in Int
  PROVE  Balance(delta, m, dead, off) \in [Team -> Int]
<1> DEFINE n == MAX_NB_TEAMS * (IF off < 0 THEN -off ELSE off)
<1>1. PICK u : Balancing(delta, m, dead, off, u)
  BY BalanceTurns
<1>2. n \in Nat
  <2>1. (IF off < 0 THEN -off ELSE off) \in Nat /\ MAX_NB_TEAMS \in Nat
    BY MapStateAssumption
  <2> QED BY <2>1
<1>3. u \in [Nat -> [Team -> Int]] /\ Balance(delta, m, dead, off) = u[n]
  BY <1>1 DEF Balancing
<1> HIDE DEF n
<1> QED BY <1>2, <1>3

\* Points are numbers.
LEMMA PointsAre ==
  ASSUME NEW m \in MapStates, NEW r, IsRules(r), NEW dead \in Team, NEW t \in Team
  PROVE  Points(m, r, dead, t) \in Int
<1>1. \A a \in Int, b \in Int : IMax(a, b) \in Int
  BY DEF IMax
<1>2. Cardinality(Winners(m)) \in Nat
  <2>1. Winners(m) \subseteq Team
    BY DEF Winners, Contenders, Playing
  <2> QED BY <2>1, TeamsFinite
<1>3. PointsOfMode1(m, t) \in Int
  <2>1. IMax(1, Cardinality(Winners(m))) \in Int
    BY <1>1, <1>2
  <2> QED BY <2>1 DEF PointsOfMode1
<1>4. r.frags_to_distribute \in Nat
  BY DEF IsRules
<1>5. ASSUME Losers(m) # {} PROVE PointsOfMode2(m, r, t) \in Int
  <2>1. CASE Alive(m, t)
    <3> DEFINE a == r.frags_to_distribute * m.fighters_per_team[t]
               A == active_fighters(m)
    <3>1. /\ m.fighters_per_team[t] \in Nat /\ A \in Nat
          /\ m.fighters_per_team[t] <= A
      BY FightersAre
    <3>2. A # 0 /\ a \in Nat
      BY <2>1, <3>1, <1>4 DEF Alive
    <3> HIDE DEF a, A
    <3>3. a \div A \in Int
      BY <3>1, <3>2, Floor
    <3>4. IMax(1, a \div A) \in Int
      BY <3>3, <1>1
    <3> QED BY <2>1, <3>4 DEF PointsOfMode2, a, A
  <2>2. CASE ~Alive(m, t)
    <3> DEFINE L == Cardinality(Losers(m))
               a == r.frags_to_distribute
    <3>1. L \in Nat /\ L # 0
      <4>1. Losers(m) \subseteq Team
        BY DEF Losers, Contenders, Playing
      <4> QED BY <4>1, <1>5, TeamsFinite
    <3>2. a \in Nat
      BY <1>4
    <3> HIDE DEF L, a
    <3>3. a \div L \in Int
      BY <3>1, <3>2, Floor
    <3>4. IMax(1, a \div L) \in Int /\ -IMax(1, a \div L) \in Int
      <4>1. IMax(1, a \div L) \in Int
        BY <3>3, <1>1
      <4> QED BY <4>1
    <3> QED BY <2>2, <3>4 DEF PointsOfMode2, a, L
  <2> QED BY <2>1, <2>2
<1>6. r.frags_mode \in Int
  <2>1. r.frags_mode \in 0 .. 3
    BY DEF IsRules
  <2> QED BY <2>1
<1>7. CASE r.frags_mode = 0
  <2>1. Points(m, r, dead, t) = IF t = dead THEN -1 ELSE 0
    BY <1>7 DEF Points, ONE_NEGATIVE_POINT, ONE_FOR_WINNERS_ALL_FOR_LOSER
  <2> QED BY <2>1
<1>8. CASE r.frags_mode = 1
  <2>1. Points(m, r, dead, t) = IF m.active[t] THEN PointsOfMode1(m, t) ELSE 0
    BY <1>8 DEF Points, ONE_NEGATIVE_POINT, ONE_FOR_WINNERS_ALL_FOR_LOSER
  <2> QED BY <2>1, <1>3
<1>9. CASE r.frags_mode # 0 /\ r.frags_mode # 1
  <2>1. Points(m, r, dead, t) =
          IF m.active[t] /\ Winners(m) # {} /\ Losers(m) # {}
          THEN PointsOfMode2(m, r, t) ELSE 0
    BY <1>9 DEF Points, ONE_NEGATIVE_POINT, ONE_FOR_WINNERS_ALL_FOR_LOSER
  <2> QED BY <2>1, <1>5
<1> QED BY <1>7, <1>8, <1>9

\* A percentage is a number, and all of it is itself.
LEMMA PercentIs ==
  ASSUME NEW n \in Int, NEW p \in Nat
  PROVE  percent(n, p) \in Int /\ percent(n, 100) = n
<1>1. \A a \in Nat : a \div 100 \in Nat /\ (a * 100) \div 100 = a
  OBVIOUS
<1>2. CASE n >= 0
  <2>1. n \in Nat /\ n * p \in Nat
    BY <1>2
  <2> DEFINE a == n * p
  <2> HIDE DEF a
  <2>2. a \div 100 \in Nat /\ (n * 100) \div 100 = n
    BY <2>1, <1>1 DEF a
  <2> QED BY <1>2, <2>2 DEF percent, a
<1>3. CASE ~(n >= 0)
  <2>1. -n \in Nat /\ (-n) * p \in Nat
    BY <1>3
  <2> DEFINE a == (-n) * p
             b == -n
  <2>2. percent(n, p) = -(a \div 100) /\ percent(n, 100) = -((b * 100) \div 100)
    BY <1>3 DEF percent
  <2>3. a \in Nat /\ b \in Nat
    BY <2>1
  <2>4. a \div 100 \in Nat /\ (b * 100) \div 100 = b
    <3> HIDE DEF a, b
    <3> QED BY <2>3, <1>1
  <2>5. -b = n
    OBVIOUS
  <2> HIDE DEF a, b
  <2> QED BY <2>2, <2>4, <2>5
<1> QED BY <1>2, <1>3

\* Those who die are scored.  Armies, teams and cursors are not touched; and in
\* the balanced modes, without fading, as many points are given as are taken.
LEMMA FragIs ==
  ASSUME NEW m \in MapStates, NEW r, IsRules(r), NEW dead \in Team,
         NEW k, k = frag(m, r, dead)
  PROVE  /\ k \in MapStates
         /\ k.fighters_per_team = m.fighters_per_team /\ k.active = m.active
         /\ k.respawn_round = m.respawn_round /\ k.cursors = m.cursors
         /\ k.fault = "none" => m.fault = "none"
         /\ r.frags_fade_out = 100
            /\ r.frags_mode \in {ONE_FOR_WINNERS_ALL_FOR_LOSER, BALANCED}
              => Total(k.frags) = Total(m.frags)
<1> DEFINE even == r.frags_mode \in {ONE_FOR_WINNERS_ALL_FOR_LOSER, BALANCED}
           delta == [t \in Team |-> Points(m, r, dead, t)]
           fair == IF even THEN Balance(delta, m, dead, Total(delta)) ELSE delta
           s == Scored(m, r, fair)
           o == [t \in Team |-> m.offline[t] \/ t \in Losers(m)]
           scored == [m EXCEPT !.frags = s, !.offline = o]
<1>1. delta \in [Team -> Int] /\ Total(delta) \in Int
  <2>1. delta \in [Team -> Int]
    BY PointsAre
  <2> HIDE DEF delta
  <2> QED BY <2>1, UptoIs
<1> HIDE DEF delta
<1>2. fair \in [Team -> Int]
  BY <1>1, BalanceIs
<1>3. k = IF even /\ Total(fair) # 0 THEN Faulty(m, "endless loop") ELSE scored
  BY Zenon DEF frag, delta
<1> HIDE DEF fair, even
<1>4. r.frags_fade_out \in Nat
  <2>1. r.frags_fade_out \in 10 .. 100
    BY DEF IsRules
  <2>2. \A n \in 10 .. 100 : n \in Nat
    OBVIOUS
  <2> QED BY <2>1, <2>2, Zenon
<1>5. /\ m.frags \in [Team -> Int] /\ m.offline \in [Team -> BOOLEAN]
      /\ \A t \in Team : m.frags[t] \in Int /\ m.offline[t] \in BOOLEAN
  BY DEF MapStates
<1>6. /\ \A t \in Team : Faded(m, r)[t] \in Int
      /\ r.frags_fade_out = 100 => \A t \in Team : Faded(m, r)[t] = m.frags[t]
  <2> DEFINE p == r.frags_fade_out
  <2>1. \A t \in Team : percent(m.frags[t], p) \in Int
    BY <1>4, <1>5, PercentIs
  <2>2. \A t \in Team : percent(m.frags[t], 100) = m.frags[t]
    BY <1>4, <1>5, PercentIs
  <2> QED BY <2>1, <2>2, <1>5 DEF Faded
<1>7. /\ s \in [Team -> Int]
      /\ \A t \in Team : s[t] = Faded(m, r)[t] + fair[t]
  BY <1>2, <1>6 DEF Scored
<1>8. o \in [Team -> BOOLEAN]
  BY <1>5
<1> HIDE DEF s, o
<1>9. /\ scored \in MapStates /\ scored.frags = s
      /\ scored.fighters_per_team = m.fighters_per_team /\ scored.active = m.active
      /\ scored.respawn_round = m.respawn_round /\ scored.cursors = m.cursors
      /\ scored.fault = m.fault
  BY <1>7, <1>8 DEF MapStates
<1> HIDE DEF scored
<1>10. CASE even /\ Total(fair) # 0
  <2>1. /\ OnlyFighters(m, Faulty(m, "endless loop"))
        /\ Faulty(m, "endless loop").fighters_per_team = m.fighters_per_team
        /\ Faulty(m, "endless loop").fault # "none"
    BY FaultyIs
  <2>2. k = Faulty(m, "endless loop")
    BY <1>3, <1>10
  <2> QED BY <2>1, <2>2 DEF OnlyFighters
<1>11. CASE ~(even /\ Total(fair) # 0)
  <2>1. k = scored
    BY <1>3, <1>11
  <2>2. ASSUME r.frags_fade_out = 100, even PROVE Total(k.frags) = Total(m.frags)
    <3>1. \A t \in Team : s[t] = m.frags[t] + fair[t]
      BY <1>6, <1>7, <2>2
    <3>2. Total(s) = Total(m.frags) + Total(fair)
      BY <1>2, <1>5, <1>7, <3>1, TotalAdds
    <3>3. Total(m.frags) \in Int /\ Total(fair) = 0
      BY <1>5, <1>11, <2>2, UptoIs
    <3> QED BY <3>2, <3>3, <2>1, <1>9
  <2> QED BY <2>1, <2>2, <1>9 DEF even
<1> QED BY <1>10, <1>11

----------------------------------------------------------------------------
(* The end of a round, team by team.                                       *)

\* Under rules that neither fade nor create points, the sum of the scores.
FragsKept(m, k) ==
    rules.frags_fade_out = 100
    /\ rules.frags_mode \in {ONE_FOR_WINNERS_ALL_FOR_LOSER, BALANCED}
      => Total(k.frags) = Total(m.frags)

\* The date of a return is no part of the battle.
LEMMA DatedIs ==
  ASSUME NEW m, Sound(m, rules), NEW t \in Team, NEW n \in Nat,
         NEW k, k = [m EXCEPT !.respawn_round[t] = n]
  PROVE  /\ Sound(k, rules) /\ SameScore(m, k)
         /\ k.active = m.active /\ Playing(k) = Playing(m)
         /\ k.fighters_per_team = m.fighters_per_team
<1> DEFINE d == [m.respawn_round EXCEPT ![t] = n]
<1>1. m \in MapStates
  BY DEF Sound
<1>2. d \in [Team -> Nat]
  BY <1>1 DEF MapStates
<1>3. k = [m EXCEPT !.respawn_round = d]
  BY <1>1 DEF MapStates
<1> HIDE DEF d
<1>4. /\ k \in MapStates /\ k.active = m.active
      /\ k.fighters_per_team = m.fighters_per_team
      /\ k.frags = m.frags /\ k.cursors = m.cursors /\ k.fault = m.fault
  BY <1>1, <1>2, <1>3 DEF MapStates
<1>5. /\ \A i \in Team : Alive(k, i) <=> Alive(m, i)
      /\ active_fighters(k) = active_fighters(m)
      /\ Playing(k) = Playing(m)
  BY <1>4 DEF Alive, active_fighters, Playing
<1> QED BY <1>4, <1>5 DEF Sound, SameScore

\* Those who die keep their place, for the time being.
LEMMA DiedIs ==
  ASSUME NEW m, Sound(m, rules), IsRules(rules), rounds \in Nat, NEW t \in Team,
         NEW k, k = Died(m, t)
  PROVE  /\ Sound(k, rules) /\ FragsKept(m, k)
         /\ k.active = m.active /\ Playing(k) = Playing(m)
         /\ k.cursors = m.cursors
         /\ k.fault = "none" => m.fault = "none"
<1>1. m \in MapStates
  BY DEF Sound
<1>2. CASE m.respawn_round[t] = 0
  <2> DEFINE l == frag(m, rules, t)
             n == rounds + rules.respawn_delay
  <2>1. /\ l \in MapStates
        /\ l.fighters_per_team = m.fighters_per_team /\ l.active = m.active
        /\ l.respawn_round = m.respawn_round /\ l.cursors = m.cursors
        /\ l.fault = "none" => m.fault = "none"
        /\ rules.frags_fade_out = 100
           /\ rules.frags_mode \in {ONE_FOR_WINNERS_ALL_FOR_LOSER, BALANCED}
             => Total(l.frags) = Total(m.frags)
    BY <1>1, FragIs
  <2>2. n \in Nat
    <3>1. rules.respawn_delay \in Nat
      BY DEF IsRules
    <3> QED BY <3>1
  <2>3. k = [l EXCEPT !.respawn_round[t] = n]
    BY <1>2 DEF Died
  <2> HIDE DEF l, n
  <2>4. Sound(l, rules) /\ Playing(l) = Playing(m)
    <3>1. /\ \A i \in Team : Alive(l, i) <=> Alive(m, i)
          /\ active_fighters(l) = active_fighters(m)
          /\ Playing(l) = Playing(m)
      BY <2>1 DEF Alive, active_fighters, Playing
    <3> QED BY <2>1, <3>1 DEF Sound
  <2>5. /\ Sound(k, rules) /\ SameScore(l, k)
        /\ k.active = l.active /\ Playing(k) = Playing(l)
        /\ k.fighters_per_team = l.fighters_per_team
    BY <2>2, <2>3, <2>4, DatedIs
  <2> QED BY <2>1, <2>4, <2>5 DEF SameScore, FragsKept
<1>3. CASE m.respawn_round[t] # 0
  <2>1. k = m
    BY <1>3 DEF Died
  <2> QED BY <2>1 DEF FragsKept
<1> QED BY <1>2, <1>3

\* Whoever comes back plays as before.
LEMMA RespawnedIs ==
  ASSUME NEW m, Sound(m, rules), IsRules(rules), NEW t \in Team, m.active[t],
         NEW k, k = Respawned(m, t)
  PROVE  /\ Sound(k, rules) /\ SameScore(m, k)
         /\ Playing(k) \subseteq Playing(m)
         /\ k.fault = "none" => Playing(k) = Playing(m)
<1> DEFINE removed == remove_team_internal(m, rules, t)
           gone == [removed EXCEPT !.respawn_round[t] = 0]
           nb == IMin(single_army(rules), active_fighters(gone) \div 2)
           room == remove_fighters(gone, nb)
<1>1. k = add_team_internal(room, rules, t)
  BY DEF Respawned
<1>2. /\ Sound(removed, rules)
      /\ SameScore(m, removed)
      /\ Playing(removed) \subseteq Playing(m)
      /\ ~m.active[t] => removed = m
      /\ m.active[t] /\ Playing(m) = {t} => Playing(removed) = Playing(m)
      /\ m.active[t] /\ Playing(m) # {t} /\ removed.fault = "none" =>
           /\ Playing(removed) = Playing(m) \ {t}
           /\ \A i \in Team : i # t =>
                m.fighters_per_team[i] <= removed.fighters_per_team[i]
  BY RemoveTeamIs
<1> HIDE DEF removed
<1>3. /\ Sound(gone, rules) /\ SameScore(removed, gone)
      /\ gone.active = removed.active /\ Playing(gone) = Playing(removed)
      /\ gone.fighters_per_team = removed.fighters_per_team
  BY <1>2, DatedIs
<1> HIDE DEF gone
<1>4. gone \in MapStates
  BY <1>3 DEF Sound
<1>5. nb \in Nat
  <2> DEFINE A == active_fighters(gone)
  <2>1. A \in Nat /\ single_army(rules) \in Nat
    BY <1>4, FightersAre, SizesAre
  <2> HIDE DEF A
  <2>2. A \div 2 \in Nat
    BY <2>1, Floor
  <2> QED BY <2>1, <2>2 DEF IMin, A
<1> HIDE DEF nb
<1>6. /\ OnlyFighters(gone, room)
      /\ \A i \in Team : room.fighters_per_team[i] <= gone.fighters_per_team[i]
      /\ active_fighters(room) <= active_fighters(gone)
  BY <1>4, <1>5, RemoveFightersIs
<1> HIDE DEF room
<1>7. /\ Sound(room, rules)
      /\ SameScore(gone, room)
      /\ Playing(room) = Playing(gone)
  BY <1>3, <1>6, FewerSound
<1>8. /\ Sound(k, rules)
      /\ SameScore(room, k)
      /\ Playing(room) \subseteq Playing(k) /\ Playing(k) \subseteq Playing(room) \cup {t}
      /\ room.active[t] => k = room
      /\ k.fault = "none" => t \in Playing(k)
  BY <1>1, <1>7, AddTeamIs
<1>9. SameScore(m, k)
  BY <1>2, <1>3, <1>7, <1>8 DEF SameScore
<1>10. t \in Playing(m)
  BY DEF Playing
<1>11. ASSUME k.fault = "none" PROVE Playing(k) = Playing(m)
  <2>1. removed.fault = "none"
    BY <1>11, <1>3, <1>7, <1>8 DEF SameScore
  <2>2. Playing(m) \ {t} \subseteq Playing(removed)
    BY <1>2, <2>1
  <2> QED BY <2>2, <1>2, <1>3, <1>7, <1>8, <1>10, <1>11
<1> QED BY <1>2, <1>3, <1>7, <1>8, <1>9, <1>10, <1>11

\* The cursors are those of registered nodes, and lead teams that play.
Manned(m, ns) ==
    m.fault = "none" =>
      \A c \in Enabled(m) : /\ m.cursors[c].node_id \in ns
                            /\ m.active[m.cursors[c].team_color]

\* What becomes of cursors when those of one team are disabled.
LEMMA CursorsDisableIs ==
  ASSUME NEW m, Sound(m, rules), NEW t \in Team, NEW k, k = cursors_disable(m, t)
  PROVE  /\ Sound(k, rules) /\ k.active = m.active /\ Playing(k) = Playing(m)
         /\ k.frags = m.frags /\ k.fault = m.fault
         /\ \A c \in Cursor : k.cursors[c] = IF c \in CursorsOf(m, t) THEN Free
                                             ELSE m.cursors[c]
<1> DEFINE cs == [c \in Cursor |-> IF c \in CursorsOf(m, t) THEN Free ELSE m.cursors[c]]
<1>1. m \in MapStates
  BY DEF Sound
<1>2. cs \in [Cursor -> {Free} \cup [node_id : Node, team_color : Team]]
  BY <1>1 DEF MapStates
<1>3. k = [m EXCEPT !.cursors = cs]
  BY DEF cursors_disable
<1>4. \A c \in Cursor : cs[c] = IF c \in CursorsOf(m, t) THEN Free ELSE m.cursors[c]
  OBVIOUS
<1> HIDE DEF cs
<1>5. /\ k \in MapStates /\ k.active = m.active
      /\ k.fighters_per_team = m.fighters_per_team
      /\ k.frags = m.frags /\ k.cursors = cs /\ k.fault = m.fault
  BY <1>1, <1>2, <1>3 DEF MapStates
<1>6. /\ \A i \in Team : Alive(k, i) <=> Alive(m, i)
      /\ active_fighters(k) = active_fighters(m)
      /\ Playing(k) = Playing(m)
  BY <1>5 DEF Alive, active_fighters, Playing
<1> QED BY <1>4, <1>5, <1>6 DEF Sound

\* A cursor that is enabled leads one of the teams, and belongs to a node; one
\* that is free leads none.
LEMMA CursorIs ==
  ASSUME NEW m \in MapStates, NEW c \in Cursor
  PROVE  /\ c \in Enabled(m) <=> m.cursors[c] # Free
         /\ c \in Enabled(m) => /\ m.cursors[c].team_color \in Team
                                /\ m.cursors[c].node_id \in Node
         /\ m.cursors[c] = Free => m.cursors[c].team_color \notin Team
         /\ \A t : c \in CursorsOf(m, t) <=> m.cursors[c].team_color = t
<1>1. m.cursors[c] \in {Free} \cup [node_id : Node, team_color : Team]
  BY DEF MapStates
<1>2. Free.team_color = -1 /\ -1 \notin Team
  <2>1. ~(-1 \in Nat)
    OBVIOUS
  <2> QED BY <2>1, TeamIs DEF Free, NO_TEAM
<1> QED BY <1>1, <1>2 DEF Enabled, CursorsOf

\* Led teams and manned cursors, when the cursors stay where they are.
LEMMA SameCursors ==
  ASSUME NEW m, NEW k, k.cursors = m.cursors
  PROVE  /\ Enabled(k) = Enabled(m)
         /\ \A i : CursorsOf(k, i) = CursorsOf(m, i) /\ (Led(k, i) <=> Led(m, i))
BY DEF Enabled, CursorsOf, Led

\* What the end of a round does for one team.
Settled(m, k, t) ==
    /\ Sound(k, rules) /\ FragsKept(m, k)
    /\ k.fault = "none" => m.fault = "none"
    /\ \A ns : Manned(m, ns) => Manned(k, ns)
    /\ Playing(k) \subseteq Playing(m)
    /\ k.fault = "none" =>
         /\ t \in Playing(k) => Led(k, t) \/ Playing(k) = {t}
         /\ \A i \in Team : i # t /\ Led(m, i) => Led(k, i)
         /\ \A x : Playing(m) = {x} => Playing(k) = {x}

\* However a team ends its round it is settled.
LEMMA FinishTeamIs ==
  ASSUME NEW m, Sound(m, rules), IsRules(rules), rounds \in Nat, NEW t \in Team,
         NEW k, k = FinishTeam(m, t)
  PROVE  Settled(m, k, t)
<1> DEFINE removed == remove_team_internal(m, rules, t)
           buried == Died(m, t)
<1>1. m \in MapStates /\ (t \in Playing(m) <=> m.active[t])
  BY PlayingIs DEF Sound
<1>2. /\ Sound(removed, rules)
      /\ SameScore(m, removed)
      /\ Playing(removed) \subseteq Playing(m)
      /\ ~m.active[t] => removed = m
      /\ m.active[t] /\ Playing(m) = {t} => Playing(removed) = Playing(m)
      /\ m.active[t] /\ Playing(m) # {t} /\ removed.fault = "none" =>
           /\ Playing(removed) = Playing(m) \ {t}
           /\ \A i \in Team : i # t =>
                m.fighters_per_team[i] <= removed.fighters_per_team[i]
  BY RemoveTeamIs
<1>3. /\ Sound(buried, rules) /\ FragsKept(m, buried)
      /\ buried.active = m.active /\ Playing(buried) = Playing(m)
      /\ buried.cursors = m.cursors
      /\ buried.fault = "none" => m.fault = "none"
  BY DiedIs
<1>4. CASE m.active[t] /\ CursorsOf(m, t) = {}
  <2>1. k = removed
    BY <1>4 DEF FinishTeam
  <2> HIDE DEF removed
  <2>2. k.cursors = m.cursors /\ k.frags = m.frags
    BY <2>1, <1>2 DEF SameScore
  <2>3. /\ Enabled(k) = Enabled(m)
        /\ \A i : CursorsOf(k, i) = CursorsOf(m, i) /\ (Led(k, i) <=> Led(m, i))
    BY <2>2, SameCursors
  <2>4. ASSUME NEW ns, Manned(m, ns) PROVE Manned(k, ns)
    <3>1. SUFFICES ASSUME k.fault = "none", NEW c \in Enabled(k)
                   PROVE  k.cursors[c].node_id \in ns /\ k.active[k.cursors[c].team_color]
      BY DEF Manned
    <3>2. m.fault = "none" /\ c \in Enabled(m) /\ c \in Cursor
      BY <3>1, <2>1, <2>3, <1>2 DEF SameScore, Enabled
    <3>3. m.cursors[c].node_id \in ns /\ m.active[m.cursors[c].team_color]
      BY <2>4, <3>2 DEF Manned
    <3> DEFINE i == m.cursors[c].team_color
    <3>4. i \in Team /\ i # t
      BY <1>1, <1>4, <3>2, CursorIs
    <3>5. i \in Playing(m)
      BY <3>3, <3>4 DEF Playing
    <3>6. i \in Playing(k)
      BY <3>1, <3>4, <3>5, <2>1, <1>2, <1>4
    <3>7. k.active[i]
      BY <3>6 DEF Playing
    <3> QED BY <3>3, <3>7, <2>2
  <2>5. ASSUME k.fault = "none"
        PROVE  /\ t \in Playing(k) => Led(k, t) \/ Playing(k) = {t}
               /\ \A i \in Team : i # t /\ Led(m, i) => Led(k, i)
               /\ \A x : Playing(m) = {x} => Playing(k) = {x}
    BY <2>1, <2>3, <2>5, <1>1, <1>2, <1>4
  <2>6. FragsKept(m, k)
    BY <2>2 DEF FragsKept
  <2>7. k.fault = "none" => m.fault = "none"
    BY <2>1, <1>2 DEF SameScore
  <2> QED BY <2>1, <2>4, <2>5, <2>6, <2>7, <1>2 DEF Settled
<1>5. CASE ~(m.active[t] /\ CursorsOf(m, t) # {} /\ ~Alive(m, t))
           /\ ~(m.active[t] /\ CursorsOf(m, t) = {})
  <2>1. k = m
    BY <1>5 DEF FinishTeam
  <2>2. t \in Playing(k) => Led(k, t)
    BY <2>1, <1>1, <1>5 DEF Led
  <2> QED BY <2>1, <2>2 DEF Settled, FragsKept
<1>6. CASE m.active[t] /\ CursorsOf(m, t) # {} /\ ~Alive(m, t) /\ ~rules.respawn_team
  <2>1. k = cursors_disable(removed, t)
    BY <1>6 DEF FinishTeam
  <2> HIDE DEF removed
  <2>2. /\ Sound(k, rules) /\ k.active = removed.active /\ Playing(k) = Playing(removed)
        /\ k.frags = removed.frags /\ k.fault = removed.fault
        /\ \A c \in Cursor : k.cursors[c] = IF c \in CursorsOf(removed, t) THEN Free
                                            ELSE removed.cursors[c]
    BY <2>1, <1>2, CursorsDisableIs
  <2>3. removed.cursors = m.cursors /\ \A i : CursorsOf(removed, i) = CursorsOf(m, i)
    BY <1>2, SameCursors DEF SameScore
  <2>4. k \in MapStates
    BY <2>2 DEF Sound
  <2>5. ASSUME NEW c \in Enabled(k)
        PROVE  /\ c \in Cursor /\ c \in Enabled(m) /\ k.cursors[c] = m.cursors[c]
               /\ m.cursors[c].team_color \in Team /\ m.cursors[c].team_color # t
    <3>1. c \in Cursor /\ k.cursors[c] # Free
      BY DEF Enabled
    <3>2. k.cursors[c] = m.cursors[c] /\ c \notin CursorsOf(m, t)
      BY <3>1, <2>2, <2>3
    <3>3. c \in Enabled(m)
      BY <3>1, <3>2 DEF Enabled
    <3> QED BY <3>1, <3>2, <3>3, <1>1, CursorIs
  <2>6. ASSUME NEW ns, Manned(m, ns) PROVE Manned(k, ns)
    <3>1. SUFFICES ASSUME k.fault = "none", NEW c \in Enabled(k)
                   PROVE  k.cursors[c].node_id \in ns /\ k.active[k.cursors[c].team_color]
      BY DEF Manned
    <3>2. m.fault = "none"
      BY <3>1, <2>2, <1>2 DEF SameScore
    <3>3. /\ c \in Enabled(m) /\ k.cursors[c] = m.cursors[c]
          /\ m.cursors[c].team_color \in Team /\ m.cursors[c].team_color # t
      BY <2>5
    <3>4. m.cursors[c].node_id \in ns /\ m.active[m.cursors[c].team_color]
      BY <2>6, <3>2, <3>3 DEF Manned
    <3> DEFINE i == m.cursors[c].team_color
    <3>5. i \in Playing(m)
      BY <3>3, <3>4 DEF Playing
    <3>6. i \in Playing(k)
      BY <3>1, <3>3, <3>5, <2>2, <1>2, <1>6
    <3>7. k.active[i]
      BY <3>6 DEF Playing
    <3> QED BY <3>3, <3>4, <3>7
  <2>7. ASSUME NEW i \in Team, i # t, Led(m, i) PROVE Led(k, i)
    <3>1. PICK c \in Cursor : m.cursors[c].team_color = i
      BY <2>7 DEF Led, CursorsOf
    <3>2. c \notin CursorsOf(m, t)
      BY <3>1, <2>7 DEF CursorsOf
    <3>3. k.cursors[c] = m.cursors[c]
      BY <3>2, <2>2, <2>3
    <3>4. c \in CursorsOf(k, i)
      BY <3>1, <3>3 DEF CursorsOf
    <3> QED BY <3>4 DEF Led
  <2>8. ASSUME k.fault = "none"
        PROVE  /\ t \in Playing(k) => Led(k, t) \/ Playing(k) = {t}
               /\ \A x : Playing(m) = {x} => Playing(k) = {x}
    BY <2>2, <2>8, <1>1, <1>2, <1>6
  <2>9. FragsKept(m, k)
    BY <2>2, <1>2 DEF FragsKept, SameScore
  <2>10. k.fault = "none" => m.fault = "none"
    BY <2>2, <1>2 DEF SameScore
  <2>11. Playing(k) \subseteq Playing(m)
    BY <2>2, <1>2
  <2> QED BY <2>2, <2>6, <2>7, <2>8, <2>9, <2>10, <2>11 DEF Settled
<1>7. CASE /\ m.active[t] /\ CursorsOf(m, t) # {} /\ ~Alive(m, t) /\ rules.respawn_team
  <2>1. /\ Sound(k, rules) /\ FragsKept(m, k) /\ k.cursors = m.cursors
        /\ k.fault = "none" => m.fault = "none"
        /\ Playing(k) \subseteq Playing(m)
        /\ k.fault = "none" => Playing(k) = Playing(m)
    <3>1. CASE buried.respawn_round[t] <= rounds
      <4>1. k = Respawned(buried, t)
        BY <1>7, <3>1 DEF FinishTeam
      <4> HIDE DEF buried
      <4>2. buried.active[t]
        BY <1>3, <1>7
      <4>3. /\ Sound(k, rules) /\ SameScore(buried, k)
            /\ Playing(k) \subseteq Playing(buried)
            /\ k.fault = "none" => Playing(k) = Playing(buried)
        BY <4>1, <4>2, <1>3, RespawnedIs
      <4> QED BY <4>3, <1>3 DEF SameScore, FragsKept
    <3>2. CASE ~(buried.respawn_round[t] <= rounds)
      <4>1. k = buried
        BY <1>7, <3>2 DEF FinishTeam
      <4> HIDE DEF buried
      <4> QED BY <4>1, <1>3
    <3> QED BY <3>1, <3>2
  <2>2. /\ Enabled(k) = Enabled(m)
        /\ \A i : CursorsOf(k, i) = CursorsOf(m, i) /\ (Led(k, i) <=> Led(m, i))
    BY <2>1, SameCursors
  <2>3. ASSUME NEW ns, Manned(m, ns) PROVE Manned(k, ns)
    <3>1. SUFFICES ASSUME k.fault = "none", NEW c \in Enabled(k)
                   PROVE  k.cursors[c].node_id \in ns /\ k.active[k.cursors[c].team_color]
      BY DEF Manned
    <3>2. m.fault = "none" /\ c \in Enabled(m) /\ c \in Cursor
      BY <3>1, <2>1, <2>2 DEF Enabled
    <3>3. m.cursors[c].node_id \in ns /\ m.active[m.cursors[c].team_color]
      BY <2>3, <3>2 DEF Manned
    <3> DEFINE i == m.cursors[c].team_color
    <3>4. i \in Team
      BY <1>1, <3>2, CursorIs
    <3>5. i \in Playing(k)
      BY <3>1, <3>3, <3>4, <2>1 DEF Playing
    <3>6. k.active[i]
      BY <3>5 DEF Playing
    <3> QED BY <3>3, <3>6, <2>1
  <2>4. Led(k, t)
    BY <2>2, <1>7 DEF Led
  <2> QED BY <2>1, <2>2, <2>3, <2>4 DEF Settled
<1> QED BY <1>4, <1>5, <1>6, <1>7

\* The teams are settled one after the other.
LEMMA FinishedSteps ==
  ASSUME NEW m, Sound(m, rules), IsRules(rules), rounds \in Nat
  PROVE  \E u : /\ u[0] = m
                /\ \A t \in Team : u[t + 1] = FinishTeam(u[t], t)
                /\ Finished(m) = u[MAX_NB_TEAMS]
<1> DEFINE S == {x \in MapStates : Sound(x, rules)}
           g == [x \in Nat \X S |-> IF x[1] \in Team THEN FinishTeam(x[2], x[1])
                                    ELSE x[2]]
           u == CHOOSE u : u = [n \in 0 .. MAX_NB_TEAMS |->
                                  IF n = 0 THEN m ELSE FinishTeam(u[n - 1], n - 1)]
<1>1. m \in S
  BY DEF Sound
<1>2. ASSUME NEW x \in S, NEW t \in Team PROVE FinishTeam(x, t) \in S
  <2>1. Settled(x, FinishTeam(x, t), t)
    BY FinishTeamIs
  <2> QED BY <2>1 DEF Settled, Sound
<1> HIDE DEF S
<1>3. g \in [Nat \X S -> S]
  BY <1>2
<1>4. MAX_NB_TEAMS \in Nat /\ MAX_NB_TEAMS > 1
  BY MapStateAssumption
<1>5. PICK k : Turns(S, m, g, MAX_NB_TEAMS, k)
  <2> HIDE DEF g
  <2>1. \A n \in Nat : \E k : Turns(S, m, g, n, k)
    BY <1>1, <1>3, TurnsExist
  <2> QED BY <1>4, <2>1
<1>6. ASSUME NEW n \in 0 .. MAX_NB_TEAMS
      PROVE  k[n] = IF n = 0 THEN m ELSE FinishTeam(k[n - 1], n - 1)
  <2>1. CASE n = 0
    BY <2>1, <1>5 DEF Turns
  <2>2. CASE n # 0
    <3>1. /\ n - 1 \in 0 .. MAX_NB_TEAMS - 1 /\ (n - 1) + 1 = n
          /\ n - 1 \in 0 .. MAX_NB_TEAMS /\ n - 1 \in Nat /\ n - 1 \in Team
      BY <2>2, <1>4 DEF Team
    <3>2. k[(n - 1) + 1] = g[<<n - 1, k[n - 1]>>] /\ k[n - 1] \in S
      <4> HIDE DEF g
      <4> QED BY <3>1, <1>5 DEF Turns
    <3>3. g[<<n - 1, k[n - 1]>>] = FinishTeam(k[n - 1], n - 1)
      BY <3>1, <3>2
    <3>4. k[n] = FinishTeam(k[n - 1], n - 1)
      BY <3>1, <3>2, <3>3, Zenon
    <3> QED BY <3>4, <2>2, Zenon
  <2> QED BY <2>1, <2>2
<1>7. k = [n \in 0 .. MAX_NB_TEAMS |-> IF n = 0 THEN m ELSE FinishTeam(k[n - 1], n - 1)]
  <2>1. k \in [0 .. MAX_NB_TEAMS -> S]
    BY <1>5 DEF Turns
  <2> QED BY <2>1, <1>6
<1>8. u = [n \in 0 .. MAX_NB_TEAMS |-> IF n = 0 THEN m ELSE FinishTeam(u[n - 1], n - 1)]
  BY <1>7, Zenon
<1>9. Finished(m) = u[MAX_NB_TEAMS]
  BY Zenon DEF Finished
<1> HIDE DEF u
<1>10. \A n \in 0 .. MAX_NB_TEAMS :
         u[n] = IF n = 0 THEN m ELSE FinishTeam(u[n - 1], n - 1)
  BY <1>8, Zenon
<1>11. u[0] = m
  BY <1>4, <1>10
<1>12. ASSUME NEW t \in Team PROVE u[t + 1] = FinishTeam(u[t], t)
  <2>1. t + 1 \in 0 .. MAX_NB_TEAMS /\ t + 1 # 0 /\ (t + 1) - 1 = t
    BY <1>4 DEF Team
  <2>2. u[t + 1] = FinishTeam(u[(t + 1) - 1], (t + 1) - 1)
    BY <2>1, <1>10
  <2> QED BY <2>1, <2>2
<1> QED BY <1>9, <1>11, <1>12

\* After the round: what was sound is, the score is as even as it was, cursors
\* are manned, and the teams that play are led unless only one is left.
LEMMA FinishedIs ==
  ASSUME NEW m, Sound(m, rules), IsRules(rules), rounds \in Nat,
         NEW k, k = Finished(m)
  PROVE  /\ Sound(k, rules) /\ FragsKept(m, k)
         /\ \A ns : Manned(m, ns) => Manned(k, ns)
         /\ k.fault = "none" =>
              (\E x : Playing(k) = {x}) \/ \A t \in Playing(k) : Led(k, t)
<1>1. PICK u : /\ u[0] = m
               /\ \A t \in Team : u[t + 1] = FinishTeam(u[t], t)
               /\ Finished(m) = u[MAX_NB_TEAMS]
  BY FinishedSteps
<1> DEFINE Upon(n) ==
             /\ Sound(u[n], rules) /\ FragsKept(m, u[n])
             /\ \A ns : Manned(m, ns) => Manned(u[n], ns)
             /\ u[n].fault = "none" =>
                  \/ \E x : Playing(u[n]) = {x}
                  \/ \A t \in Playing(u[n]) : t < n => Led(u[n], t)
           P == {n \in 0 .. MAX_NB_TEAMS : Upon(n)}
<1>2. \A t \in Team : t \in 0 .. MAX_NB_TEAMS /\ t + 1 \in 0 .. MAX_NB_TEAMS
  BY TeamIs, MapStateAssumption
<1>3. 0 \in 0 .. MAX_NB_TEAMS /\ MAX_NB_TEAMS \in 0 .. MAX_NB_TEAMS
  BY MapStateAssumption
<1>4. Upon(0)
  <2>1. \A t \in Playing(m) : ~(t < 0)
    <3> TAKE t \in Playing(m)
    <3>1. t \in Nat
      BY TeamIs DEF Playing
    <3> QED BY <3>1
  <2> QED BY <2>1, <1>1 DEF FragsKept
<1>5. ASSUME NEW t \in Team, Upon(t) PROVE Upon(t + 1)
  <2> DEFINE a == u[t]
             b == u[t + 1]
  <2>1. Sound(a, rules) /\ b = FinishTeam(a, t)
    BY <1>1, <1>5
  <2>2. Settled(a, b, t)
    <3> HIDE DEF a, b
    <3> QED BY <2>1, FinishTeamIs
  <2>3. /\ FragsKept(m, a) /\ \A ns : Manned(m, ns) => Manned(a, ns)
        /\ a.fault = "none" => \/ \E x : Playing(a) = {x}
                               \/ \A i \in Playing(a) : i < t => Led(a, i)
    BY <1>5
  <2> HIDE DEF a, b
  <2>4. Sound(b, rules) /\ FragsKept(m, b)
    BY <2>2, <2>3 DEF Settled, FragsKept
  <2>5. \A ns : Manned(m, ns) => Manned(b, ns)
    BY <2>2, <2>3, Zenon DEF Settled
  <2>6. ASSUME b.fault = "none"
        PROVE  \/ \E x : Playing(b) = {x}
               \/ \A i \in Playing(b) : i < t + 1 => Led(b, i)
    <3>1. /\ a.fault = "none"
          /\ Playing(b) \subseteq Playing(a)
          /\ t \in Playing(b) => Led(b, t) \/ Playing(b) = {t}
          /\ \A i \in Team : i # t /\ Led(a, i) => Led(b, i)
          /\ \A x : Playing(a) = {x} => Playing(b) = {x}
      BY <2>2, <2>6 DEF Settled
    <3>2. CASE \E x : Playing(a) = {x}
      BY <3>1, <3>2
    <3>3. CASE \A i \in Playing(a) : i < t => Led(a, i)
      <4>1. SUFFICES ASSUME NEW i \in Playing(b), i < t + 1, Playing(b) # {t}
                     PROVE  Led(b, i)
        OBVIOUS
      <4>2. i \in Team /\ i \in Nat /\ t \in Nat
        BY TeamIs DEF Playing
      <4>3. CASE i = t
        BY <4>1, <4>3, <3>1
      <4>4. CASE i # t
        <5>1. i < t
          BY <4>1, <4>2, <4>4
        <5> QED BY <5>1, <4>2, <4>4, <3>1, <3>3
      <4> QED BY <4>3, <4>4
    <3> QED BY <3>1, <3>2, <3>3, <2>3
  <2> QED BY <2>4, <2>5, <2>6 DEF b
<1>6. \A n \in 0 .. MAX_NB_TEAMS : n \in P
  <2> HIDE DEF Upon
  <2>1. 0 \in P
    BY <1>3, <1>4
  <2>2. \A t \in Team : t \in P => t + 1 \in P
    BY <1>2, <1>5
  <2> HIDE DEF P
  <2> QED BY <2>1, <2>2, TeamAfterTeam
<1>7. Upon(MAX_NB_TEAMS)
  <2> HIDE DEF Upon
  <2> QED BY <1>3, <1>6
<1>8. k = u[MAX_NB_TEAMS]
  BY <1>1
<1>9. \A t \in Playing(k) : t < MAX_NB_TEAMS
  BY TeamIs DEF Playing
<1> QED BY <1>7, <1>8, <1>9

----------------------------------------------------------------------------
(* The commands.                                                           *)

\* A cursor that leaves is free; its team goes with it when nobody else leads
\* it, and nobody else's cursor loses its team.
LEMMA LeftIs ==
  ASSUME NEW m, Sound(m, rules), IsRules(rules), NEW n \in Node, NEW c \in Cursor,
         NEW k, k = Left(m, n, c)
  PROVE  /\ Sound(k, rules)
         /\ \A ns : Manned(m, ns) => Manned(k, ns)
         /\ \A d \in Cursor : k.cursors[d] = IF d = c /\ m.cursors[c].node_id = n
                                             THEN Free ELSE m.cursors[d]
<1> DEFINE t == m.cursors[c].team_color
           without == cursor_disable(m, n, c)
           cs == [m.cursors EXCEPT ![c] = Free]
<1>1. m \in MapStates /\ NoNode # n
  BY MapStateAssumption DEF Sound
<1>2. CASE m.cursors[c] = Free
  <2>1. k = m /\ m.cursors[c].node_id # n
    BY <1>1, <1>2 DEF Left, Free
  <2> QED BY <2>1
<1>3. CASE m.cursors[c] # Free /\ m.cursors[c].node_id # n
  <2>1. without = m /\ c \in CursorsOf(m, t)
    BY <1>3 DEF cursor_disable, CursorsOf
  <2>2. k = m
    BY <1>3, <2>1 DEF Left
  <2> QED BY <1>3, <2>2
<1>4. CASE m.cursors[c] # Free /\ m.cursors[c].node_id = n
  <2>1. t \in Team /\ c \in Enabled(m)
    BY <1>1, <1>4, CursorIs
  <2>2. without = [m EXCEPT !.cursors = cs]
    BY <1>1, <1>4 DEF cursor_disable, MapStates
  <2>3. /\ cs \in [Cursor -> {Free} \cup [node_id : Node, team_color : Team]]
        /\ \A d \in Cursor : cs[d] = IF d = c THEN Free ELSE m.cursors[d]
    BY <1>1 DEF MapStates
  <2>4. k = IF without.active[t] /\ CursorsOf(without, t) = {}
            THEN remove_team_internal(without, rules, t) ELSE without
    BY <1>4 DEF Left
  <2> HIDE DEF cs, without, t
  <2>5. /\ without \in MapStates /\ without.active = m.active
        /\ without.fighters_per_team = m.fighters_per_team
        /\ without.cursors = cs /\ without.fault = m.fault
    BY <1>1, <2>2, <2>3 DEF MapStates
  <2>6. Sound(without, rules) /\ Playing(without) = Playing(m)
    <3>1. /\ \A i \in Team : Alive(without, i) <=> Alive(m, i)
          /\ active_fighters(without) = active_fighters(m)
          /\ Playing(without) = Playing(m)
      BY <2>5 DEF Alive, active_fighters, Playing
    <3> QED BY <2>5, <3>1 DEF Sound
  <2>7. \A d \in Cursor : d \in Enabled(without) =>
          /\ d \in Enabled(m) /\ without.cursors[d] = m.cursors[d]
    BY <2>3, <2>5 DEF Enabled
  <2>8. ASSUME NEW ns, Manned(m, ns) PROVE Manned(without, ns)
    BY <2>5, <2>7, <2>8 DEF Manned, Enabled
  <2>9. CASE ~(without.active[t] /\ CursorsOf(without, t) = {})
    <3>1. k = without
      BY <2>4, <2>9
    <3> QED BY <3>1, <2>3, <2>5, <2>6, <2>8, <1>4
  <2>10. CASE without.active[t] /\ CursorsOf(without, t) = {}
    <3>1. k = remove_team_internal(without, rules, t)
      BY <2>4, <2>10
    <3>2. /\ Sound(k, rules)
          /\ SameScore(without, k)
          /\ Playing(k) \subseteq Playing(without)
          /\ ~without.active[t] => k = without
          /\ without.active[t] /\ Playing(without) = {t} => Playing(k) = Playing(without)
          /\ without.active[t] /\ Playing(without) # {t} /\ k.fault = "none" =>
               /\ Playing(k) = Playing(without) \ {t}
               /\ \A i \in Team : i # t =>
                    without.fighters_per_team[i] <= k.fighters_per_team[i]
      BY <2>1, <2>6, <3>1, RemoveTeamIs
    <3>3. k.cursors = cs /\ (k.fault = "none" => without.fault = "none")
      BY <3>2, <2>5 DEF SameScore
    <3>4. Enabled(k) = Enabled(without)
      BY <3>3, <2>5 DEF Enabled
    <3>5. ASSUME NEW ns, Manned(m, ns) PROVE Manned(k, ns)
      <4>1. SUFFICES ASSUME k.fault = "none", NEW d \in Enabled(k)
                     PROVE  k.cursors[d].node_id \in ns /\ k.active[k.cursors[d].team_color]
        BY DEF Manned
      <4>2. d \in Enabled(without) /\ d \in Cursor /\ without.fault = "none"
        BY <4>1, <3>3, <3>4 DEF Enabled
      <4>3. without.cursors[d].node_id \in ns /\ without.active[without.cursors[d].team_color]
        BY <3>5, <2>8, <4>2 DEF Manned
      <4> DEFINE i == without.cursors[d].team_color
      <4>4. i \in Team /\ i # t
        BY <2>5, <2>10, <4>2, CursorIs
      <4>5. i \in Playing(without)
        BY <4>3, <4>4 DEF Playing
      <4>6. i \in Playing(k)
        BY <4>1, <4>4, <4>5, <3>2, <2>10
      <4>7. k.active[i]
        BY <4>6 DEF Playing
      <4> QED BY <4>3, <4>7, <3>3, <2>5
    <3> QED BY <3>2, <3>3, <3>5, <2>3, <1>4
  <2> QED BY <2>9, <2>10
<1> QED BY <1>2, <1>3, <1>4

\* The slots of a node are those of all its cursors.
LEMMA SlotsAreAll ==
  ASSUME NEW S, IsFiniteSet(S), NEW s \in SetToSeqs(S)
  PROVE  /\ Cardinality(S) \in Nat /\ s \in [1 .. Cardinality(S) -> S]
         /\ Len(s) = Cardinality(S)
         /\ \A x \in S : \E i \in 1 .. Cardinality(S) : s[i] = x
<1> DEFINE n == Cardinality(S)
           D == 1 .. n
<1>1. n \in Nat
  BY FS_CardinalityType
<1>2. s \in [D -> S] /\ \A i, j \in D : i # j => s[i] # s[j]
  BY DEF SetToSeqs
<1>3. IsFiniteSet(D) /\ Cardinality(D) = n
  BY <1>1, FS_Interval
<1>4. Len(s) = n
  BY <1>1, <1>2
<1>5. ASSUME NEW x \in S, ~\E i \in D : s[i] = x PROVE FALSE
  <2> DEFINE T == S \ {x}
  <2>1. IsFiniteSet(T) /\ Cardinality(T) = n - 1
    BY FS_RemoveElement
  <2>2. s \in [D -> T]
    BY <1>2, <1>5
  <2>3. Cardinality(T) < Cardinality(D)
    BY <1>1, <1>3, <2>1
  <2> HIDE DEF D, T
  <2>4. \E i, j \in D : i # j /\ s[i] = s[j]
    BY <1>3, <2>1, <2>2, <2>3, FS_PigeonHole
  <2> QED BY <1>2, <2>4
<1> QED BY <1>1, <1>2, <1>4, <1>5

\* The cursors of a node leave one after the other.
Leaving(m, n, slots, u) ==
    /\ Len(slots) \in Nat /\ u[0] = m /\ AllLeft(m, n, slots) = u[Len(slots)]
    /\ \A i \in Nat : i + 1 \in 1 .. Len(slots) =>
         slots[i + 1] \in Cursor /\ u[i + 1] = Left(u[i], n, slots[i + 1])
    /\ \A c \in Cursor : m.cursors[c].node_id = n =>
         \E i \in 1 .. Len(slots) : slots[i] = c

\* They all do.
LEMMA AllLeftTurns ==
  ASSUME NEW m, Sound(m, rules), IsRules(rules), NEW n \in Node,
         NEW slots \in SetToSeqs({c \in Cursor : m.cursors[c].node_id = n})
  PROVE  \E u : Leaving(m, n, slots, u)
<1> DEFINE C == {c \in Cursor : m.cursors[c].node_id = n}
           L == Len(slots)
           S == {x \in MapStates : Sound(x, rules)}
           g == [x \in Nat \X S |-> IF x[1] \in 0 .. L - 1
                                    THEN Left(x[2], n, slots[x[1] + 1]) ELSE x[2]]
           u == CHOOSE u : u = [i \in 0 .. L |->
                                  IF i = 0 THEN m ELSE Left(u[i - 1], n, slots[i])]
<1>1. IsFiniteSet(C) /\ C \subseteq Cursor
  <2>1. C \subseteq Cursor
    OBVIOUS
  <2> QED BY <2>1, FS_Subset, MapStateAssumption
<1>2. /\ Cardinality(C) \in Nat /\ slots \in [1 .. Cardinality(C) -> C]
      /\ L = Cardinality(C)
      /\ \A x \in C : \E i \in 1 .. Cardinality(C) : slots[i] = x
  BY <1>1, SlotsAreAll
<1>3. /\ L \in Nat /\ \A i \in 1 .. L : slots[i] \in Cursor
      /\ \A c \in Cursor : m.cursors[c].node_id = n => \E i \in 1 .. L : slots[i] = c
  BY <1>1, <1>2
<1> HIDE DEF C, L
<1>4. m \in S
  BY DEF Sound
<1>5. ASSUME NEW x \in S, NEW c \in Cursor PROVE Left(x, n, c) \in S
  <2>1. /\ Sound(Left(x, n, c), rules)
        /\ \A ns : Manned(x, ns) => Manned(Left(x, n, c), ns)
        /\ \A d \in Cursor : Left(x, n, c).cursors[d] =
             IF d = c /\ x.cursors[c].node_id = n THEN Free ELSE x.cursors[d]
    BY LeftIs
  <2> QED BY <2>1 DEF Sound
<1>6. \A x \in S : Sound(x, rules)
  OBVIOUS
<1> HIDE DEF S
<1>7. g \in [Nat \X S -> S]
  <2>1. \A i \in 0 .. L - 1 : slots[i + 1] \in Cursor
    <3> TAKE i \in 0 .. L - 1
    <3>1. i + 1 \in 1 .. L
      BY <1>3
    <3> QED BY <3>1, <1>3
  <2> QED BY <2>1, <1>5
<1>8. PICK k1 : Turns(S, m, g, L, k1)
  <2> HIDE DEF g
  <2>1. \A i \in Nat : \E k1 : Turns(S, m, g, i, k1)
    BY <1>4, <1>7, TurnsExist
  <2> QED BY <1>3, <2>1
<1>9. ASSUME NEW i \in 0 .. L
      PROVE  k1[i] = IF i = 0 THEN m ELSE Left(k1[i - 1], n, slots[i])
  <2>1. CASE i = 0
    BY <2>1, <1>8 DEF Turns
  <2>2. CASE i # 0
    <3>1. /\ i - 1 \in 0 .. L - 1 /\ (i - 1) + 1 = i
          /\ i - 1 \in 0 .. L /\ i - 1 \in Nat
      BY <2>2, <1>3
    <3>2. k1[(i - 1) + 1] = g[<<i - 1, k1[i - 1]>>] /\ k1[i - 1] \in S
      <4> HIDE DEF g
      <4> QED BY <3>1, <1>8 DEF Turns
    <3>3. g[<<i - 1, k1[i - 1]>>] = Left(k1[i - 1], n, slots[(i - 1) + 1])
      BY <3>1, <3>2
    <3>4. k1[i] = Left(k1[i - 1], n, slots[i])
      BY <3>1, <3>2, <3>3, Zenon
    <3> QED BY <3>4, <2>2, Zenon
  <2> QED BY <2>1, <2>2
<1>10. k1 = [i \in 0 .. L |-> IF i = 0 THEN m ELSE Left(k1[i - 1], n, slots[i])]
  <2>1. k1 \in [0 .. L -> S]
    BY <1>8 DEF Turns
  <2> QED BY <2>1, <1>9
<1>11. u = [i \in 0 .. L |-> IF i = 0 THEN m ELSE Left(u[i - 1], n, slots[i])]
  BY <1>10, Zenon
<1>12. AllLeft(m, n, slots) = u[L]
  BY Zenon DEF AllLeft, L
<1> HIDE DEF u
<1>13. \A i \in 0 .. L : u[i] = IF i = 0 THEN m ELSE Left(u[i - 1], n, slots[i])
  BY <1>11, Zenon
<1>14. u[0] = m
  BY <1>3, <1>13
<1>15. ASSUME NEW i \in Nat, i + 1 \in 1 .. L
       PROVE  slots[i + 1] \in Cursor /\ u[i + 1] = Left(u[i], n, slots[i + 1])
  <2>1. i + 1 \in 0 .. L /\ i + 1 # 0 /\ (i + 1) - 1 = i
    BY <1>3, <1>15
  <2>2. u[i + 1] = Left(u[(i + 1) - 1], n, slots[i + 1])
    BY <2>1, <1>13
  <2> QED BY <2>1, <2>2, <1>3, <1>15
<1>16. Leaving(m, n, slots, u)
  BY <1>3, <1>12, <1>14, <1>15 DEF Leaving, L
<1> QED BY <1>16

\* A node that leaves takes all its cursors away, and no other.
LEMMA AllLeftIs ==
  ASSUME NEW m, Sound(m, rules), IsRules(rules), NEW n \in Node,
         NEW slots \in SetToSeqs({c \in Cursor : m.cursors[c].node_id = n}),
         NEW k, k = AllLeft(m, n, slots)
  PROVE  /\ Sound(k, rules)
         /\ \A ns : Manned(m, ns) => Manned(k, ns \ {n})
<1> DEFINE L == Len(slots)
<1>1. PICK u : Leaving(m, n, slots, u)
  BY AllLeftTurns
<1>2. L \in Nat /\ u[0] = m /\ k = u[L]
  BY <1>1 DEF Leaving
<1>3. \A i \in Nat : i + 1 \in 1 .. L =>
        slots[i + 1] \in Cursor /\ u[i + 1] = Left(u[i], n, slots[i + 1])
  BY <1>1 DEF Leaving
<1>4. \A c \in Cursor : m.cursors[c].node_id = n => \E i \in 1 .. L : slots[i] = c
  BY <1>1 DEF Leaving
<1>5. \A j \in 1 .. L : slots[j] \in Cursor
  <2> TAKE j \in 1 .. L
  <2>1. j - 1 \in Nat /\ (j - 1) + 1 = j
    BY <1>2
  <2> QED BY <2>1, <1>3
<1> HIDE DEF L
<1> DEFINE Upon(i) ==
             /\ Sound(u[i], rules)
             /\ \A ns : Manned(m, ns) => Manned(u[i], ns)
             /\ \A c \in Cursor : u[i].cursors[c] = m.cursors[c] \/ u[i].cursors[c] = Free
             /\ \A j \in 1 .. i : u[i].cursors[slots[j]].node_id # n
           P == {i \in Nat : i <= L => Upon(i)}
<1>6. Upon(0)
  <2>1. u[0] = m
    BY <1>2
  <2> QED BY <2>1
<1>7. ASSUME NEW i \in Nat, i + 1 <= L, Upon(i) PROVE Upon(i + 1)
  <2> DEFINE a == u[i]
             b == u[i + 1]
             c == slots[i + 1]
  <2>1. b = Left(a, n, c) /\ c \in Cursor
    <3>1. i + 1 \in 1 .. L
      BY <1>2, <1>7
    <3> QED BY <3>1, <1>3
  <2>2. /\ Sound(a, rules)
        /\ \A ns : Manned(m, ns) => Manned(a, ns)
        /\ \A d \in Cursor : a.cursors[d] = m.cursors[d] \/ a.cursors[d] = Free
        /\ \A j \in 1 .. i : a.cursors[slots[j]].node_id # n
    BY <1>7
  <2>3. \A j \in 1 .. i + 1 : slots[j] \in Cursor /\ (j \in 1 .. i \/ j = i + 1)
    BY <1>2, <1>5, <1>7
  <2> HIDE DEF a, b, c
  <2>4. /\ Sound(b, rules)
        /\ \A ns : Manned(a, ns) => Manned(b, ns)
        /\ \A d \in Cursor : b.cursors[d] = IF d = c /\ a.cursors[c].node_id = n
                                            THEN Free ELSE a.cursors[d]
    BY <2>1, <2>2, LeftIs
  <2>5. Free.node_id # n
    BY MapStateAssumption DEF Free
  <2>6. ASSUME NEW j \in 1 .. i + 1 PROVE b.cursors[slots[j]].node_id # n
    <3>1. CASE slots[j] = c
      BY <3>1, <2>1, <2>4, <2>5
    <3>2. CASE slots[j] # c
      <4>1. j \in 1 .. i /\ slots[j] \in Cursor
        BY <2>3, <3>2 DEF c
      <4> QED BY <4>1, <3>2, <2>2, <2>4
    <3> QED BY <3>1, <3>2
  <2>7. \A d \in Cursor : b.cursors[d] = m.cursors[d] \/ b.cursors[d] = Free
    BY <2>2, <2>4
  <2>8. \A ns : Manned(m, ns) => Manned(b, ns)
    BY <2>2, <2>4, Zenon
  <2> QED BY <2>4, <2>6, <2>7, <2>8 DEF b
<1>8. \A i \in Nat : i \in P
  <2> HIDE DEF Upon
  <2>1. 0 \in P
    BY <1>6
  <2>2. ASSUME NEW i \in Nat, i \in P PROVE i + 1 \in P
    <3>1. i + 1 <= L => i <= L
      BY <1>2
    <3> QED BY <3>1, <2>2, <1>7
  <2> HIDE DEF P
  <2> QED BY <2>1, <2>2, AllNaturals
<1>9. Upon(L)
  <2> HIDE DEF Upon
  <2>1. L <= L
    BY <1>2
  <2> QED BY <2>1, <1>2, <1>8
<1>10. /\ Sound(k, rules)
       /\ \A ns : Manned(m, ns) => Manned(k, ns)
       /\ \A c \in Cursor : k.cursors[c] = m.cursors[c] \/ k.cursors[c] = Free
       /\ \A j \in 1 .. L : k.cursors[slots[j]].node_id # n
  BY <1>2, <1>9
<1>11. ASSUME NEW c \in Enabled(k) PROVE k.cursors[c].node_id # n
  <2>1. c \in Cursor /\ k.cursors[c] = m.cursors[c]
    BY <1>10 DEF Enabled
  <2>2. CASE m.cursors[c].node_id = n
    <3>1. PICK j \in 1 .. L : slots[j] = c
      BY <1>4, <2>1, <2>2
    <3> QED BY <3>1, <1>10
  <2> QED BY <2>1, <2>2
<1>12. ASSUME NEW ns, Manned(m, ns) PROVE Manned(k, ns \ {n})
  <2>1. Manned(k, ns)
    BY <1>10, <1>12
  <2> QED BY <2>1, <1>11 DEF Manned
<1> QED BY <1>10, <1>12

\* The colour a cursor is given is that of a team, if it is given one.
LEMMA RealColorIs ==
  ASSUME NEW n, NEW t \in Team, RealColor(n, t) # NO_TEAM
  PROVE  RealColor(n, t) \in Team
<1> DEFINE S == FreeColors(ms)
<1>1. S \subseteq Nat /\ S \subseteq Team
  BY TeamIs DEF FreeColors
<1>2. ASSUME S # {} PROVE Min(S) \in Team
  <2>1. IsWellFoundedOn(OpToRel(<, Nat), Nat)
    BY NatLessThanWellFounded
  <2> HIDE DEF S
  <2>2. PICK x \in S : \A y \in S : ~(<<y, x>> \in OpToRel(<, Nat))
    BY <1>1, <1>2, <2>1, WFMin, Zenon
  <2>3. ASSUME NEW y \in S PROVE x <= y
    <3>1. x \in Nat /\ y \in Nat
      BY <1>1
    <3>2. ~(y < x)
      BY <2>2, <3>1, Zenon DEF OpToRel
    <3> QED BY <3>1, <3>2
  <2>4. Min(S) \in S
    BY <2>3, Zenon DEF Min
  <2> QED BY <2>4, <1>1
<1> HIDE DEF S
<1> QED BY <1>2 DEF RealColor, S

\* A cursor that comes leads a team that plays.
LEMMA AddCursorIs ==
  ASSUME Sound(ms, rules), IsRules(rules), NEW n \in Node, NEW c \in Cursor,
         NEW t \in Team, ms.cursors[c] = Free,
         NEW k, k = cursor_enable(add_team(t), n, c, t)
  PROVE  /\ Sound(k, rules)
         /\ \A ns : n \in ns /\ Manned(ms, ns) => Manned(k, ns)
<1> DEFINE added == add_team_internal(ms, rules, t)
           m == add_team(t)
           fs == [added.frags EXCEPT ![t] = 0]
           cs == [m.cursors EXCEPT ![c] = [node_id |-> n, team_color |-> t]]
<1>1. /\ Sound(m, rules) /\ m.cursors = ms.cursors
      /\ m.fault = "none" => ms.fault = "none" /\ t \in Playing(m)
      /\ Playing(ms) \subseteq Playing(m)
  <2>1. CASE ms.active[t]
    <3>1. m = ms
      BY <2>1 DEF add_team
    <3>2. t \in Playing(m)
      BY <2>1, <3>1 DEF Playing
    <3> QED BY <3>1, <3>2
  <2>2. CASE ~ms.active[t]
    <3>1. /\ Sound(added, rules)
          /\ SameScore(ms, added)
          /\ Playing(ms) \subseteq Playing(added) /\ Playing(added) \subseteq Playing(ms) \cup {t}
          /\ ms.active[t] => added = ms
          /\ added.fault = "none" => t \in Playing(added)
      BY AddTeamIs
    <3>2. added \in MapStates
      BY <3>1 DEF Sound
    <3>3. m = [added EXCEPT !.frags = fs]
      BY <2>2, <3>2 DEF add_team, MapStates
    <3> HIDE DEF added, m
    <3>4. fs \in [Team -> Int]
      <4>1. added.frags \in [Team -> Int]
        BY <3>2 DEF MapStates
      <4> QED BY <4>1
    <3> HIDE DEF fs
    <3>5. /\ m \in MapStates /\ m.active = added.active
          /\ m.fighters_per_team = added.fighters_per_team
          /\ m.cursors = added.cursors /\ m.fault = added.fault
      BY <3>2, <3>3, <3>4 DEF MapStates
    <3>6. /\ \A i \in Team : Alive(m, i) <=> Alive(added, i)
          /\ active_fighters(m) = active_fighters(added)
          /\ Playing(m) = Playing(added)
      BY <3>5 DEF Alive, active_fighters, Playing
    <3> QED BY <3>1, <3>5, <3>6 DEF Sound, SameScore
  <2> QED BY <2>1, <2>2
<1> HIDE DEF m
<1>2. m \in MapStates
  BY <1>1 DEF Sound
<1>3. ASSUME NEW ns, Manned(ms, ns) PROVE Manned(m, ns)
  <2>1. SUFFICES ASSUME m.fault = "none", NEW d \in Enabled(m)
                 PROVE  m.cursors[d].node_id \in ns /\ m.active[m.cursors[d].team_color]
    BY DEF Manned
  <2>2. d \in Enabled(ms) /\ d \in Cursor
    BY <1>1 DEF Enabled
  <2>3. ms.cursors[d].node_id \in ns /\ ms.active[ms.cursors[d].team_color]
    BY <1>1, <1>3, <2>1, <2>2 DEF Manned
  <2> DEFINE i == m.cursors[d].team_color
  <2>4. i \in Team
    BY <1>2, <2>1, <2>2, CursorIs
  <2>5. i \in Playing(m)
    BY <1>1, <2>3, <2>4 DEF Playing
  <2>6. m.active[i]
    BY <2>5 DEF Playing
  <2> QED BY <2>3, <2>6, <1>1
<1>4. k = IF m.cursors[c] # Free \/ Cardinality(Enabled(m)) >= MAX_NB_CURSORS THEN m
          ELSE [m EXCEPT !.cursors = cs]
  BY <1>2 DEF cursor_enable, MapStates, m
<1>5. CASE k = m
  BY <1>1, <1>3, <1>5
<1>6. CASE k = [m EXCEPT !.cursors = cs]
  <2>1. /\ cs \in [Cursor -> {Free} \cup [node_id : Node, team_color : Team]]
        /\ \A d \in Cursor : cs[d] = IF d = c THEN [node_id |-> n, team_color |-> t]
                                     ELSE m.cursors[d]
    BY <1>2 DEF MapStates
  <2> HIDE DEF cs
  <2>2. /\ k \in MapStates /\ k.active = m.active
        /\ k.fighters_per_team = m.fighters_per_team
        /\ k.cursors = cs /\ k.fault = m.fault
    BY <1>2, <1>6, <2>1 DEF MapStates
  <2>3. /\ \A i \in Team : Alive(k, i) <=> Alive(m, i)
        /\ active_fighters(k) = active_fighters(m)
    BY <2>2 DEF Alive, active_fighters
  <2>4. Sound(k, rules)
    BY <1>1, <2>2, <2>3 DEF Sound
  <2>5. ASSUME NEW ns, n \in ns, Manned(ms, ns) PROVE Manned(k, ns)
    <3>1. SUFFICES ASSUME k.fault = "none", NEW d \in Enabled(k)
                   PROVE  k.cursors[d].node_id \in ns /\ k.active[k.cursors[d].team_color]
      BY DEF Manned
    <3>2. d \in Cursor /\ Manned(m, ns)
      BY <1>3, <2>5 DEF Enabled
    <3>3. CASE d = c
      <4>1. k.cursors[d].node_id = n /\ k.cursors[d].team_color = t
        BY <2>1, <2>2, <3>2, <3>3
      <4>2. m.active[t]
        BY <1>1, <2>2, <3>1 DEF Playing
      <4> QED BY <4>1, <4>2, <2>2, <2>5
    <3>4. CASE d # c
      <4>1. k.cursors[d] = m.cursors[d]
        BY <2>1, <2>2, <3>2, <3>4
      <4>2. d \in Enabled(m)
        BY <3>1, <3>2, <4>1 DEF Enabled
      <4> QED BY <2>2, <3>1, <3>2, <4>1, <4>2 DEF Manned
    <3> QED BY <3>3, <3>4
  <2> QED BY <2>4, <2>5
<1> QED BY <1>4, <1>5, <1>6

----------------------------------------------------------------------------
(* The invariant: besides its types, the battle is sound and the cursors   *)
(* are manned.                                                             *)

Inv == TypeOK /\ Sound(ms, rules) /\ Manned(ms, nodes)

\* It says no less than the properties.
LEMMA InvImplies == Inv => TypeOK /\ SanityCheck
BY DEF Inv, Sound, Manned, SanityCheck

\* A game that begins has no team, fighter nor cursor.
LEMMA InitEstablishes == Init => Inv
<1> SUFFICES ASSUME Init PROVE Inv
  OBVIOUS
<1>1. IsRules(rules) /\ rules.total_rounds \in Nat /\ rules.total_rounds > 0
  <2>1. IsRules(rules) /\ rules.total_rounds > 0
    BY GameStateAssumption DEF Init
  <2> QED BY <2>1 DEF IsRules
<1>2. ms \in MapStates
  BY TotalZero DEF Init, MapStateInit, MapStates, NoFighters, Nobody
<1>3. /\ ms.fighters_per_team = NoFighters /\ ms.cursors = [c \in Cursor |-> Free]
  BY DEF Init, MapStateInit
<1>4. Enabled(ms) = {}
  BY <1>3 DEF Enabled
<1>5. Sound(ms, rules)
  <2>1. active_fighters(ms) = 0 /\ max_fighters(rules) \in Nat
    BY <1>1, <1>3, TotalZero, SizesAre DEF active_fighters
  <2>2. \A t \in Team : ms.fighters_per_team[t] = 0
    BY <1>3 DEF NoFighters
  <2>3. \A t \in Team : ~Alive(ms, t)
    <3>1. ~(0 > 0)
      OBVIOUS
    <3> QED BY <2>2, <3>1 DEF Alive
  <2>4. active_fighters(ms) <= max_fighters(rules)
    BY <2>1
  <2> QED BY <1>2, <2>3, <2>4 DEF Sound
<1>6. total_rounds \in rules.total_rounds .. rules.total_rounds + MaxExtra
  <2>1. MaxExtra \in Nat /\ total_rounds = rules.total_rounds
    BY GameStateAssumption DEF Init
  <2> QED BY <1>1, <2>1
<1>7. rounds \in 0 .. total_rounds
  BY <1>1 DEF Init
<1>8. max_reached_teams \in 0 .. MAX_NB_TEAMS
  BY MapStateAssumption DEF Init
<1>9. rules \in Rules /\ nodes \subseteq Node /\ over \in BOOLEAN
  BY DEF Init
<1>10. TypeOK
  BY <1>2, <1>6, <1>7, <1>8, <1>9 DEF TypeOK
<1> QED BY <1>4, <1>5, <1>10 DEF Inv, Manned

\* What do_move makes of the fighters is sound, and changes nothing else.
LEMMA MovedIs ==
  ASSUME Inv, NEW f \in Moved(ms.fighters_per_team),
         NEW m, m = [ms EXCEPT !.fighters_per_team = f]
  PROVE  /\ Sound(m, rules) /\ m.frags = ms.frags
         /\ Manned(ms, nodes) => Manned(m, nodes)
         /\ m.active = ms.active /\ m.cursors = ms.cursors
<1> DEFINE old == ms.fighters_per_team
<1>1. ms \in MapStates /\ Sound(ms, rules)
  BY DEF Inv, Sound
<1>2. old \in [Team -> Nat] /\ Total(old) \in Nat /\ active_fighters(ms) = Total(old)
  BY <1>1, FightersAre
<1>3. /\ f \in [Team -> Nat] /\ Total(f) = Total(old)
      /\ \A t \in Team : old[t] = 0 => f[t] = 0
  <2>1. CASE over
    BY <1>2, <2>1 DEF Moved
  <2>2. CASE ~over
    <3>1. /\ f \in [Team -> 0 .. Total(old)] /\ Total(f) = Total(old)
          /\ \A t \in Team : old[t] = 0 => f[t] = 0
      BY <2>2 DEF Moved
    <3>2. \A t \in Team : f[t] \in Nat
      BY <3>1, <1>2
    <3> QED BY <3>1, <3>2
  <2> QED BY <2>1, <2>2
<1>4. OnlyFighters(ms, m) /\ m.fighters_per_team = f
  BY <1>1, <1>3, ArmiesAre
<1>5. ASSUME NEW t \in Team, Alive(m, t) PROVE m.active[t]
  <2>1. f[t] > 0 /\ f[t] # 0 /\ old[t] \in Nat
    BY <1>2, <1>3, <1>4, <1>5 DEF Alive
  <2>2. old[t] > 0
    BY <1>3, <2>1
  <2> QED BY <2>2, <1>1, <1>4 DEF Sound, Alive, OnlyFighters
<1>6. active_fighters(m) = active_fighters(ms)
  BY <1>2, <1>3, <1>4 DEF active_fighters
<1> QED BY <1>1, <1>4, <1>5, <1>6 DEF Sound, OnlyFighters, Manned, Enabled

\* Every action keeps the invariant.
LEMMA NextKeeps == Inv /\ [Next]_vars => Inv'
<1> SUFFICES ASSUME Inv, [Next]_vars PROVE Inv'
  OBVIOUS
<1>1. TypeOK /\ Sound(ms, rules) /\ Manned(ms, nodes) /\ ms \in MapStates
  BY DEF Inv, Sound
<1>2. IsRules(rules)
  BY <1>1, GameStateAssumption DEF TypeOK
<1>3. CASE UNCHANGED vars
  BY <1>3 DEF vars, Inv, TypeOK, Sound, Manned, Alive, active_fighters, Enabled
<1>4. ASSUME UNCHANGED <<rules, clock>>, Sound(ms', rules), Manned(ms', nodes'),
             nodes' \subseteq Node
      PROVE  Inv'
  <2>1. /\ rules' = rules /\ rounds' = rounds /\ total_rounds' = total_rounds
        /\ over' = over /\ max_reached_teams' = max_reached_teams
    BY <1>4 DEF clock
  <2>2. ms' \in MapStates
    BY <1>4 DEF Sound
  <2>3. TypeOK'
    BY <1>1, <1>4, <2>1, <2>2 DEF TypeOK
  <2>4. Sound(ms, rules)'
    BY <1>4, <2>1 DEF Sound, Alive, active_fighters
  <2>5. Manned(ms, nodes)'
    BY <1>4 DEF Manned, Enabled
  <2> QED BY <2>3, <2>4, <2>5 DEF Inv
<1>5. ASSUME NEW n \in Node, register_node(n) PROVE Inv'
  <2>1. ms' = ms /\ nodes' = nodes \cup {n} /\ UNCHANGED <<rules, clock>>
    BY <1>5 DEF register_node
  <2>2. Manned(ms', nodes')
    BY <1>1, <2>1 DEF Manned
  <2>3. nodes' \subseteq Node
    BY <1>1, <2>1 DEF TypeOK
  <2> QED BY <1>1, <1>4, <2>1, <2>2, <2>3
<1>6. ASSUME NEW n \in Node, unregister_node(n) PROVE Inv'
  <2>1. nodes' = nodes \ {n} /\ UNCHANGED <<rules, clock>>
    BY <1>6 DEF unregister_node
  <2>2. PICK slots \in SetToSeqs({c \in Cursor : ms.cursors[c].node_id = n}) :
          ms' = AllLeft(ms, n, slots)
    BY <1>6 DEF unregister_node
  <2>3. PICK k : k = ms'
    OBVIOUS
  <2>4. /\ Sound(k, rules)
        /\ \A ns : Manned(ms, ns) => Manned(k, ns \ {n})
    BY <1>1, <1>2, <2>2, <2>3, AllLeftIs
  <2>5. nodes' \subseteq Node
    BY <1>1, <2>1 DEF TypeOK
  <2>6. Manned(k, nodes \ {n})
    BY <1>1, <2>4
  <2> QED BY <1>4, <2>1, <2>3, <2>4, <2>5, <2>6
<1>7. ASSUME NEW a \in Ask, add_cursor(a[1], a[2], a[3]) PROVE Inv'
  <2>1. PICK n \in Node, c \in Cursor, t \in Team : n = a[1] /\ c = a[2] /\ t = a[3]
    BY GameStateAssumption
  <2>2. /\ n \in nodes /\ ms.cursors[c] = Free /\ RealColor(n, t) # NO_TEAM
        /\ ms' = cursor_enable(add_team(RealColor(n, t)), n, c, RealColor(n, t))
        /\ nodes' = nodes /\ UNCHANGED <<rules, clock>>
    BY <1>7, <2>1 DEF add_cursor
  <2>3. PICK q \in Team : q = RealColor(n, t)
    BY <2>2, RealColorIs
  <2>4. PICK k : k = ms'
    OBVIOUS
  <2>5. k = cursor_enable(add_team(q), n, c, q)
    BY <2>2, <2>3, <2>4
  <2>6. /\ Sound(k, rules)
        /\ \A ns : n \in ns /\ Manned(ms, ns) => Manned(k, ns)
    BY <1>1, <1>2, <2>2, <2>5, AddCursorIs
  <2>7. nodes' \subseteq Node
    BY <1>1, <2>2 DEF TypeOK
  <2> QED BY <1>1, <1>4, <2>2, <2>4, <2>6, <2>7
<1>8. ASSUME NEW a \in Ask, remove_cursor(a[1], a[2]) PROVE Inv'
  <2>1. PICK n \in Node, c \in Cursor : n = a[1] /\ c = a[2]
    BY GameStateAssumption
  <2>2. ms' = Left(ms, n, c) /\ nodes' = nodes /\ UNCHANGED <<rules, clock>>
    BY <1>8, <2>1 DEF remove_cursor
  <2>3. PICK k : k = ms'
    OBVIOUS
  <2>4. /\ Sound(k, rules)
        /\ \A ns : Manned(ms, ns) => Manned(k, ns)
        /\ \A d \in Cursor : k.cursors[d] = IF d = c /\ ms.cursors[c].node_id = n
                                            THEN Free ELSE ms.cursors[d]
    BY <1>1, <1>2, <2>2, <2>3, LeftIs
  <2>5. nodes' \subseteq Node
    BY <1>1, <2>2 DEF TypeOK
  <2> QED BY <1>1, <1>4, <2>2, <2>3, <2>4, <2>5
<1>9. ASSUME do_round PROVE Inv'
  <2> DEFINE nb == nb_teams(ms)
             most == IMax(max_reached_teams, nb)
  <2>1. PICK f \in Moved(ms.fighters_per_team) :
          ms' = Finished([ms EXCEPT !.fighters_per_team = f])
    BY <1>9 DEF do_round
  <2>2. /\ max_reached_teams' = most
        /\ over' = \/ over
                   \/ rounds >= total_rounds
                   \/ ~rules.respawn_team /\ nb <= 1 /\ most >= 2
        /\ rounds' = IF over' THEN rounds ELSE rounds + 1
        /\ total_rounds' = IF ~over' /\ nb <= 1 THEN total_rounds + 1 ELSE total_rounds
        /\ total_rounds' <= rules.total_rounds + MaxExtra
        /\ rules' = rules /\ nodes' = nodes
    BY <1>9 DEF do_round
  <2> DEFINE m == [ms EXCEPT !.fighters_per_team = f]
  <2>3. /\ Sound(m, rules) /\ m.frags = ms.frags
        /\ Manned(ms, nodes) => Manned(m, nodes)
        /\ m.active = ms.active /\ m.cursors = ms.cursors
    BY MovedIs
  <2>4. rounds \in Nat /\ total_rounds \in Int /\ rounds <= total_rounds
        /\ rules.total_rounds \in Nat /\ rules.total_rounds <= total_rounds /\ MaxExtra \in Nat
        /\ max_reached_teams \in 0 .. MAX_NB_TEAMS
    <3>1. rules.total_rounds \in Nat /\ MaxExtra \in Nat
      BY <1>2, GameStateAssumption DEF IsRules
    <3>2. total_rounds \in rules.total_rounds .. rules.total_rounds + MaxExtra
      BY <1>1 DEF TypeOK
    <3>3. rounds \in 0 .. total_rounds /\ max_reached_teams \in 0 .. MAX_NB_TEAMS
      BY <1>1 DEF TypeOK
    <3> QED BY <3>1, <3>2, <3>3
  <2> HIDE DEF m
  <2>5. PICK k : k = ms'
    OBVIOUS
  <2>6. k = Finished(m)
    BY <2>1, <2>5 DEF m
  <2>7. /\ Sound(k, rules) /\ FragsKept(m, k)
        /\ \A ns : Manned(m, ns) => Manned(k, ns)
        /\ k.fault = "none" =>
             (\E x : Playing(k) = {x}) \/ \A t \in Playing(k) : Led(k, t)
    BY <1>2, <2>3, <2>4, <2>6, FinishedIs
  <2>8. Sound(ms, rules)'
    BY <2>2, <2>5, <2>7 DEF Sound, Alive, active_fighters
  <2>9. Manned(ms, nodes)'
    BY <1>1, <2>2, <2>3, <2>5, <2>7 DEF Manned, Enabled
  <2>10. nb \in Nat /\ nb <= MAX_NB_TEAMS
    <3>1. Playing(ms) \subseteq Team /\ nb \in Nat
      BY <1>1, PlayingIs
    <3>2. IsFiniteSet(Team) /\ Cardinality(Team) = MAX_NB_TEAMS
      <4>1. 0 \in Int /\ MAX_NB_TEAMS - 1 \in Int /\ MAX_NB_TEAMS \in Nat /\ MAX_NB_TEAMS > 1
        BY MapStateAssumption
      <4>2. IsFiniteSet(0 .. MAX_NB_TEAMS - 1)
            /\ Cardinality(0 .. MAX_NB_TEAMS - 1) =
                 IF 0 > MAX_NB_TEAMS - 1 THEN 0 ELSE (MAX_NB_TEAMS - 1) - 0 + 1
        BY <4>1, FS_Interval
      <4> QED BY <4>1, <4>2 DEF Team
    <3>3. Cardinality(Playing(ms)) <= Cardinality(Team)
      BY <3>1, <3>2, FS_Subset
    <3> QED BY <3>1, <3>2, <3>3 DEF nb_teams
  <2> HIDE DEF nb
  <2>11. most \in 0 .. MAX_NB_TEAMS
    <3>1. MAX_NB_TEAMS \in Nat
      BY MapStateAssumption
    <3> QED BY <3>1, <2>4, <2>10 DEF IMax
  <2> HIDE DEF most
  <2>12. over' \in BOOLEAN /\ (~over' => ~(rounds >= total_rounds))
    BY <2>2, Zenon
  <2>13. /\ total_rounds' \in Int /\ total_rounds <= total_rounds'
         /\ rules.total_rounds <= total_rounds'
         /\ rounds' \in Nat /\ rounds' <= total_rounds'
    <3>1. PICK tr : tr = total_rounds'
      OBVIOUS
    <3>2. PICK rn : rn = rounds'
      OBVIOUS
    <3>3. (tr = total_rounds \/ tr = total_rounds + 1)
      BY <2>2, <3>1
    <3>4. rn = rounds \/ (rn = rounds + 1 /\ ~(rounds >= total_rounds))
      BY <2>2, <2>12, <3>2
    <3>5. /\ tr \in Int /\ total_rounds <= tr /\ rules.total_rounds <= tr
          /\ rn \in Nat /\ rn <= tr
      BY <3>3, <3>4, <2>4
    <3> QED BY <3>1, <3>2, <3>5
  <2>14. ms' \in MapStates
    BY <2>5, <2>7 DEF Sound
  <2>15. total_rounds' \in rules.total_rounds .. rules.total_rounds + MaxExtra
         /\ rounds' \in 0 .. total_rounds'
    BY <2>2, <2>4, <2>13
  <2>16. TypeOK'
    BY <1>1, <2>2, <2>11, <2>12, <2>14, <2>15 DEF TypeOK
  <2> QED BY <2>8, <2>9, <2>16 DEF Inv
<1>10. CASE Next
  BY <1>5, <1>6, <1>7, <1>8, <1>9, <1>10 DEF Next
<1> QED BY <1>3, <1>10

\* The armies, the score, the teams, the cursors and the clock have their types.
THEOREM BattleTypeOK == Spec => []TypeOK
<1>1. Init => Inv
  BY InitEstablishes
<1>2. Inv /\ [Next]_vars => Inv'
  BY NextKeeps
<1>3. Inv => TypeOK
  BY InvImplies
<1> QED BY <1>1, <1>2, <1>3, PTL DEF Spec

\* A team that has fighters plays, the fighters fit in the map, and cursors
\* belong to registered nodes and lead teams that play, whoever comes, goes,
\* fights, dies and returns, under any rules.
THEOREM BattleIsSane == Spec => []SanityCheck
<1>1. Init => Inv
  BY InitEstablishes
<1>2. Inv /\ [Next]_vars => Inv'
  BY NextKeeps
<1>3. Inv => SanityCheck
  BY InvImplies
<1> QED BY <1>1, <1>2, <1>3, PTL DEF Spec

\* Only the round moves the clock.
LEMMA ClockIsTheRounds ==
  ASSUME [Next]_vars, rounds' # rounds \/ over' # over
  PROVE  do_round
BY DEF Next, vars, clock, register_node, unregister_node, add_cursor, remove_cursor

\* What a round leaves.
LEMMA RoundIs ==
  ASSUME Inv, do_round, NEW k, k = ms'
  PROVE  /\ Sound(k, rules) /\ FragsKept(ms, k)
         /\ k.fault = "none" =>
              (\E x : Playing(k) = {x}) \/ \A t \in Playing(k) : Led(k, t)
<1>1. IsRules(rules) /\ rounds \in Nat
  <2>1. IsRules(rules)
    BY GameStateAssumption DEF Inv, TypeOK
  <2>2. rounds \in 0 .. total_rounds
    BY DEF Inv, TypeOK
  <2> QED BY <2>1, <2>2
<1>2. PICK f \in Moved(ms.fighters_per_team) :
        ms' = Finished([ms EXCEPT !.fighters_per_team = f])
  BY DEF do_round
<1> DEFINE m == [ms EXCEPT !.fighters_per_team = f]
<1>3. /\ Sound(m, rules) /\ m.frags = ms.frags
      /\ Manned(ms, nodes) => Manned(m, nodes)
      /\ m.active = ms.active /\ m.cursors = ms.cursors
  BY MovedIs
<1>4. k = Finished(m)
  BY <1>2
<1> HIDE DEF m
<1>5. /\ Sound(k, rules) /\ FragsKept(m, k)
      /\ \A ns : Manned(m, ns) => Manned(k, ns)
      /\ k.fault = "none" =>
           (\E x : Playing(k) = {x}) \/ \A t \in Playing(k) : Led(k, t)
  BY <1>1, <1>3, <1>4, FinishedIs
<1> QED BY <1>3, <1>5 DEF FragsKept

\* In the balanced modes of the score a round gives as many points as it takes,
\* whoever dies in it and however shares are rounded.
THEOREM RoundsConserveFrags == Spec => FragsConserved
<1>1. ASSUME Inv, [Next]_vars
      PROVE  (rounds' # rounds \/ over' # over) /\ rules.frags_fade_out = 100
             /\ rules.frags_mode \in {ONE_FOR_WINNERS_ALL_FOR_LOSER, BALANCED}
               => Total(ms'.frags) = Total(ms.frags)
  <2>1. SUFFICES ASSUME rounds' # rounds \/ over' # over
                 PROVE  rules.frags_fade_out = 100
                        /\ rules.frags_mode \in {ONE_FOR_WINNERS_ALL_FOR_LOSER, BALANCED}
                          => Total(ms'.frags) = Total(ms.frags)
    OBVIOUS
  <2>2. do_round
    BY <1>1, <2>1, ClockIsTheRounds
  <2>3. PICK k : k = ms'
    OBVIOUS
  <2>4. FragsKept(ms, k)
    BY <1>1, <2>2, <2>3, RoundIs
  <2> QED BY <2>3, <2>4 DEF FragsKept
<1>2. Init => Inv
  BY InitEstablishes
<1>3. Inv /\ [Next]_vars => Inv'
  BY NextKeeps
<1> QED BY <1>1, <1>2, <1>3, PTL DEF Spec, FragsConserved

\* When a round ends the teams that play have a cursor, or one team is left
\* alone.
THEOREM RoundsLeaveLed == Spec => RoundLeavesLed
<1>1. ASSUME Inv, [Next]_vars
      PROVE  rounds' # rounds /\ ms'.fault = "none" =>
               nb_teams(ms') = 1 \/ \A t \in Playing(ms') : Led(ms', t)
  <2>1. SUFFICES ASSUME rounds' # rounds, ms'.fault = "none"
                 PROVE  nb_teams(ms') = 1 \/ \A t \in Playing(ms') : Led(ms', t)
    OBVIOUS
  <2>2. do_round
    BY <1>1, <2>1, ClockIsTheRounds
  <2>3. PICK k : k = ms'
    OBVIOUS
  <2>4. (\E x : Playing(k) = {x}) \/ \A t \in Playing(k) : Led(k, t)
    BY <1>1, <2>1, <2>2, <2>3, RoundIs
  <2>5. ASSUME NEW x, Playing(k) = {x} PROVE nb_teams(k) = 1
    BY <2>5, FS_Singleton DEF nb_teams
  <2>6. nb_teams(k) = 1 \/ \A t \in Playing(k) : Led(k, t)
    BY <2>4, <2>5
  <2> QED BY <2>3, <2>6 DEF nb_teams, Playing, Led, CursorsOf
<1>2. Init => Inv
  BY InitEstablishes
<1>3. Inv /\ [Next]_vars => Inv'
  BY NextKeeps
<1> QED BY <1>1, <1>2, <1>3, PTL DEF Spec, RoundLeavesLed

----------------------------------------------------------------------------
(* Enough for everybody: under rules that ask for nothing excessive        *)
(* fighters are found for whoever comes, and nobody has to give its last.  *)

\* What a team can give and still have one.
Spare(f) == [t \in Team |-> IF f[t] = 0 THEN 0 ELSE f[t] - 1]

\* The loop ends with all that was asked for, when the teams can give that much.
LEMMA ToppedUpEnough ==
  ASSUME NEW m, m.fighters_per_team \in [Team -> Nat], NEW nb \in Nat,
         nb <= Total(Spare(m.fighters_per_team)) \/ nb = Total(m.fighters_per_team)
  PROVE  Total(ToppedUp(m, nb)) = nb
<1> DEFINE f == m.fighters_per_team
           S == Bearable(f, nb)
           N == MAX_NB_TEAMS
           spare == Spare(f)
<1>1. PICK u : Topping(m, nb, u)
  BY ToppedUpTurns
<1>2. \A i \in Nat : u[i] \in S /\ u[i] \in [Team -> Nat] /\ u[i] \in [Team -> Int]
                     /\ Total(u[i]) \in Int /\ Total(u[i]) <= nb
  <2> TAKE i \in Nat
  <2>1. u[i] \in S
    BY <1>1 DEF Topping
  <2>2. u[i] \in [Team -> Nat] /\ Total(u[i]) <= nb
    BY <2>1 DEF Bearable
  <2>3. u[i] \in [Team -> Int]
    BY <2>2
  <2> QED BY <2>1, <2>2, <2>3, UptoIs
<1>3. /\ f \in [Team -> Nat] /\ \A t \in Team : f[t] \in Nat
      /\ spare \in [Team -> Int]
      /\ \A t \in Team : spare[t] = IF f[t] = 0 THEN 0 ELSE f[t] - 1
  <2>1. \A t \in Team : f[t] \in Nat
    OBVIOUS
  <2>2. \A t \in Team : (IF f[t] = 0 THEN 0 ELSE f[t] - 1) \in Int
    BY <2>1
  <2> QED BY <2>1, <2>2 DEF Spare
<1> HIDE DEF spare, f
<1>4. ASSUME NEW i \in Nat
      PROVE  \E t \in Team :
               /\ t = (nb + i) % N
               /\ Total(u[i]) < nb /\ Wealthy(m, u[i], t)
                    => u[i + 1] = [u[i] EXCEPT ![t] = @ + 1]
               /\ ~(Total(u[i]) < nb /\ Wealthy(m, u[i], t)) => u[i + 1] = u[i]
  <2>1. nb + i \in Nat
    OBVIOUS
  <2>2. (nb + i) % N \in Team
    <3> DEFINE a == nb + i
    <3>1. N \in Nat /\ N # 0
      BY MapStateAssumption
    <3> HIDE DEF a, N
    <3>2. a % N \in Nat /\ a % N < N
      BY <2>1, <3>1, DivMod DEF a
    <3> QED BY <3>1, <3>2 DEF Team, a, N
  <2> QED BY <2>2, <1>1, Zenon DEF Topping
<1>5. ASSUME NEW i \in Nat
      PROVE  /\ \A j \in Team : u[i][j] <= u[i + 1][j]
             /\ Total(u[i]) <= Total(u[i + 1])
  <2>1. PICK t \in Team :
               /\ t = (nb + i) % N
               /\ Total(u[i]) < nb /\ Wealthy(m, u[i], t)
                    => u[i + 1] = [u[i] EXCEPT ![t] = @ + 1]
               /\ ~(Total(u[i]) < nb /\ Wealthy(m, u[i], t)) => u[i + 1] = u[i]
    BY <1>4
  <2>2. u[i] \in [Team -> Nat] /\ u[i + 1] \in [Team -> Int] /\ u[i] \in [Team -> Int]
    BY <1>2
  <2>3. ASSUME NEW j \in Team PROVE u[i][j] <= u[i + 1][j]
    <3>1. u[i][j] \in Nat
      BY <2>2
    <3>2. u[i + 1][j] = u[i][j] \/ u[i + 1][j] = u[i][j] + 1
      BY <2>1, <2>2
    <3> QED BY <3>1, <3>2
  <2> QED BY <2>2, <2>3, TotalMonotone
<1>6. Total(ToppedUp(m, nb)) = nb
  <2> DEFINE start == Shares(m, nb)
             g == nb - Total(start) + 1
  <2>1. start = u[0]
    BY <1>1 DEF Topping
  <2>2. g \in Nat /\ Total(u[0]) \in Int
    BY <2>1, <1>2
  <2>3. ToppedUp(m, nb) = u[N * g] /\ N * g \in Nat
    <3>1. N \in Nat
      BY MapStateAssumption
    <3> HIDE DEF N
    <3>2. N * g \in Nat
      BY <2>2, <3>1
    <3> QED BY <3>2, <1>1 DEF Topping, N
  <2> DEFINE w == [i \in Nat |-> nb - Total(u[i])]
  <2>4. w \in [Nat -> Int] /\ \A i \in Nat : w[i] = nb - Total(u[i])
    BY <1>2
  <2> HIDE DEF w
  <2>5. \A i \in Nat : w[i + 1] <= w[i]
    <3> TAKE i \in Nat
    <3>1. Total(u[i]) <= Total(u[i + 1]) /\ Total(u[i]) \in Int /\ Total(u[i + 1]) \in Int
      BY <1>2, <1>5
    <3>2. w[i] = nb - Total(u[i]) /\ w[i + 1] = nb - Total(u[i + 1])
      BY <2>4
    <3> QED BY <3>1, <3>2
  <2>6. CASE nb <= Total(spare)
    <3>1. ASSUME NEW k \in Nat, w[N * (k + 1)] > 0
          PROVE  \E t \in Team : \A i \in Nat :
                   /\ N * k <= i /\ i < N * (k + 1)
                   /\ (nb + i) % N = t
                   => w[i + 1] < w[i]
      <4>1. PICK e \in Nat : e = N * (k + 1)
        <5>1. N \in Nat
          BY MapStateAssumption
        <5> HIDE DEF N
        <5> QED BY <5>1
      <4>2. Total(u[e]) < nb
        BY <3>1, <4>1, <2>4, <1>2
      <4>3. PICK t \in Team : u[e][t] < spare[t]
        <5>1. SUFFICES ASSUME \A t \in Team : ~(u[e][t] < spare[t]) PROVE FALSE
          OBVIOUS
        <5>2. \A t \in Team : spare[t] <= u[e][t]
          <6> TAKE t \in Team
          <6>1. u[e][t] \in Int /\ spare[t] \in Int
            BY <1>2, <1>3
          <6> QED BY <6>1, <5>1
        <5>3. Total(spare) <= Total(u[e]) /\ Total(spare) \in Int
          BY <5>2, <1>2, <1>3, TotalMonotone, UptoIs
        <5> QED BY <5>3, <4>2, <2>6, <1>2
      <4>4. ASSUME NEW i \in Nat, N * k <= i, i < N * (k + 1), (nb + i) % N = t
            PROVE  w[i + 1] < w[i]
        <5>1. u[i][t] <= u[e][t] /\ Total(u[i]) <= Total(u[e])
          <6> DEFINE P == {d \in Nat : u[i][t] <= u[i + d][t] /\ Total(u[i]) <= Total(u[i + d])}
          <6>1. 0 \in P
            <7>1. i + 0 = i /\ u[i][t] \in Int /\ Total(u[i]) \in Int
              BY <1>2
            <7> QED BY <7>1
          <6>2. ASSUME NEW d \in Nat, d \in P PROVE d + 1 \in P
            <7>1. i + d \in Nat /\ i + (d + 1) = (i + d) + 1
              OBVIOUS
            <7>2. u[i + d][t] <= u[(i + d) + 1][t] /\ Total(u[i + d]) <= Total(u[(i + d) + 1])
              BY <7>1, <1>5
            <7>3. /\ u[i][t] \in Int /\ u[i + d][t] \in Int /\ u[(i + d) + 1][t] \in Int
                  /\ Total(u[i]) \in Int /\ Total(u[i + d]) \in Int
                  /\ Total(u[(i + d) + 1]) \in Int
              BY <7>1, <1>2
            <7> QED BY <7>1, <7>2, <7>3, <6>2
          <6>3. \A d \in Nat : d \in P
            <7> HIDE DEF P
            <7> QED BY <6>1, <6>2, AllNaturals
          <6>4. e - i \in Nat /\ i + (e - i) = e
            BY <4>1, <4>4
          <6> QED BY <6>3, <6>4
        <5>2. u[i][t] \in Nat /\ f[t] \in Nat /\ u[e][t] \in Nat
          BY <1>2, <1>3
        <5>3. Wealthy(m, u[i], t) /\ Total(u[i]) < nb
          <6>1. f[t] > u[i][t] + 1
            BY <5>1, <5>2, <4>3, <1>3
          <6>2. Total(u[i]) \in Int /\ Total(u[e]) \in Int
            BY <1>2
          <6> QED BY <6>1, <6>2, <5>1, <4>2 DEF Wealthy, f
        <5>4. u[i + 1] = [u[i] EXCEPT ![t] = u[i][t] + 1]
          BY <1>4, <5>3, <4>4
        <5>5. PICK v \in Int : v = u[i][t] + 1
          BY <5>2
        <5>6. Total([u[i] EXCEPT ![t] = v]) = Total(u[i]) - u[i][t] + v
          BY <1>2, TotalExcept
        <5>7. Total(u[i + 1]) = Total(u[i]) + 1
          BY <5>2, <5>4, <5>5, <5>6, <1>2
        <5>8. w[i] = nb - Total(u[i]) /\ w[i + 1] = nb - Total(u[i + 1]) /\ Total(u[i]) \in Int
          BY <2>4, <1>2
        <5> QED BY <5>7, <5>8
      <4> QED BY <4>4
    <3>2. \A j \in Nat : w[N * j] > 0 => w[N * j] <= w[0] - j
      BY <2>4, <2>5, <3>1, LapsDo
    <3>3. w[N * g] > 0 => w[N * g] <= w[0] - g
      BY <2>2, <3>2
    <3>4. w[0] = nb - Total(u[0]) /\ w[N * g] = nb - Total(u[N * g])
          /\ Total(u[N * g]) \in Int /\ Total(u[N * g]) <= nb
      BY <2>3, <2>4, <1>2
    <3>5. PICK G \in Nat : G = g /\ G = nb - Total(u[0]) + 1
      BY <2>1, <2>2
    <3> HIDE DEF g
    <3>6. Total(u[N * g]) = nb
      BY <3>3, <3>4, <3>5, <2>2
    <3> QED BY <3>6, <2>3
  <2>7. CASE nb = Total(f)
    <3>1. \A t \in Team : start[t] = f[t]
      <4>1. \A t \in Team : f[t] <= Total(f) /\ Total(f) \in Nat
        BY <1>3, TotalNat
      <4>2. CASE Total(f) = 0
        <5>1. \A t \in Team : start[t] = 0
          BY <4>2 DEF Shares, active_fighters, f
        <5>2. \A t \in Team : f[t] = 0
          BY <4>1, <4>2, <1>3
        <5> QED BY <5>1, <5>2
      <4>3. CASE Total(f) # 0
        <5> TAKE t \in Team
        <5>1. start[t] = (Total(f) * f[t]) \div Total(f)
          BY <2>7, <4>3 DEF Shares, active_fighters, f
        <5>2. PICK A \in Nat, x \in Nat : A = Total(f) /\ x = f[t] /\ A # 0
          BY <4>1, <4>3, <1>3
        <5>3. (A * x) \div A = x
          <6> DEFINE y == A * x
          <6>1. y \in Nat /\ y = A * x
            OBVIOUS
          <6> HIDE DEF y
          <6>2. y \div A \in Nat /\ A * (y \div A) <= y /\ y < A * (y \div A) + A
            BY <6>1, <5>2, Floor
          <6>3. y \div A <= x
            BY <6>1, <6>2, <5>2, TimesCancel
          <6>4. A * ((y \div A) + 1) = A * (y \div A) + A * 1
            BY <6>2, Distributes
          <6>5. ~((y \div A) + 1 <= x)
            <7>1. SUFFICES ASSUME (y \div A) + 1 <= x PROVE FALSE
              OBVIOUS
            <7>2. A * ((y \div A) + 1) <= A * x
              BY <7>1, <6>2, TimesMonotone
            <7>3. A * (y \div A) \in Int
              BY <6>2
            <7> QED BY <7>2, <7>3, <6>1, <6>2, <6>4
          <6> QED BY <6>2, <6>3, <6>5 DEF y
        <5> QED BY <5>1, <5>2, <5>3
      <4> QED BY <4>2, <4>3
    <3>2. start \in [Team -> Int] /\ f \in [Team -> Int]
      BY <2>1, <1>2, <1>3
    <3>3. start = f
      BY <3>1, <3>2
    <3>4. Total(u[0]) = nb
      BY <3>3, <2>1, <2>7
    <3> DEFINE P == {i \in Nat : Total(u[i]) = nb}
    <3>5. 0 \in P
      BY <3>4
    <3>6. ASSUME NEW i \in Nat, i \in P PROVE i + 1 \in P
      <4>1. Total(u[i]) <= Total(u[i + 1]) /\ Total(u[i + 1]) <= nb /\ Total(u[i + 1]) \in Int
        BY <1>2, <1>5
      <4> QED BY <4>1, <3>6
    <3>7. \A i \in Nat : i \in P
      <4> HIDE DEF P
      <4> QED BY <3>5, <3>6, AllNaturals
    <3> QED BY <3>7, <2>3
  <2> QED BY <2>6, <2>7 DEF f, spare
<1> QED BY <1>6

\* When less is asked for than all have, a team that has some keeps some.
LEMMA ToppedUpSpares ==
  ASSUME NEW m, m.fighters_per_team \in [Team -> Nat], NEW nb \in Nat,
         nb < Total(m.fighters_per_team), NEW t \in Team, m.fighters_per_team[t] # 0
  PROVE  ToppedUp(m, nb)[t] < m.fighters_per_team[t]
<1> DEFINE f == m.fighters_per_team
           N == MAX_NB_TEAMS
           start == Shares(m, nb)
           laps == N * (nb - Total(start) + 1)
<1>1. PICK u : Topping(m, nb, u)
  BY ToppedUpTurns
<1>2. \A i \in Nat : u[i] \in [Team -> Nat] /\ u[i] \in [Team -> Int]
                     /\ Total(u[i]) \in Int /\ Total(u[i]) <= nb
  <2> TAKE i \in Nat
  <2>1. u[i] \in Bearable(f, nb)
    BY <1>1 DEF Topping
  <2>2. u[i] \in [Team -> Nat] /\ Total(u[i]) <= nb
    BY <2>1 DEF Bearable
  <2>3. u[i] \in [Team -> Int]
    BY <2>2
  <2> QED BY <2>2, <2>3, UptoIs
<1>3. f[t] \in Nat /\ f[t] # 0 /\ Total(f) \in Nat
  BY TotalNat
<1> DEFINE P == {i \in Nat : u[i][t] < f[t]}
<1>4. 0 \in P
  <2>1. PICK A \in Nat, x \in Nat : A = Total(f) /\ x = f[t] /\ A # 0 /\ x # 0 /\ nb < A
    BY <1>3
  <2>2. u[0][t] = (nb * x) \div A
    BY <2>1, <1>1 DEF Topping, Shares, active_fighters
  <2>3. (nb * x) \div A < x
    BY <2>1, LessShare
  <2> QED BY <2>1, <2>2, <2>3
<1>5. ASSUME NEW i \in Nat, i \in P PROVE i + 1 \in P
  <2> DEFINE j == (nb + i) % N
  <2>1. u[i][t] \in Nat /\ u[i] \in [Team -> Nat]
    BY <1>2
  <2>2. u[i + 1] = IF Total(u[i]) < nb /\ Wealthy(m, u[i], j)
                   THEN [u[i] EXCEPT ![j] = @ + 1]
                   ELSE u[i]
    BY <1>1, Zenon DEF Topping
  <2> HIDE DEF j
  <2>3. CASE j = t /\ Total(u[i]) < nb /\ Wealthy(m, u[i], j)
    <3>1. f[t] > u[i][t] + 1
      BY <2>3 DEF Wealthy
    <3>2. u[i + 1][t] = u[i][t] + 1
      BY <2>1, <2>2, <2>3
    <3> QED BY <3>1, <3>2, <2>1, <1>3
  <2>4. CASE ~(j = t /\ Total(u[i]) < nb /\ Wealthy(m, u[i], j))
    <3>1. u[i + 1][t] = u[i][t]
      BY <2>1, <2>2, <2>4
    <3> QED BY <3>1, <1>5
  <2> QED BY <2>3, <2>4
<1>6. \A i \in Nat : i \in P
  <2> HIDE DEF P
  <2> QED BY <1>4, <1>5, AllNaturals
<1>7. laps \in Nat
  <2>1. start = u[0]
    BY <1>1 DEF Topping
  <2>2. Total(start) \in Int /\ Total(start) <= nb /\ N \in Nat
    BY <2>1, <1>2, MapStateAssumption
  <2>3. nb - Total(start) + 1 \in Nat
    BY <2>2
  <2> QED BY <2>2, <2>3
<1> HIDE DEF laps
<1>8. u[laps][t] < f[t]
  BY <1>6, <1>7
<1> QED BY <1>1, <1>8 DEF Topping, laps

\* One each, in all as many as there are.
LEMMA TotalOnes ==
  ASSUME NEW S, S \subseteq Team, NEW f, f = [t \in Team |-> IF t \in S THEN 1 ELSE 0]
  PROVE  f \in [Team -> Int] /\ Total(f) = Cardinality(S)
<1> DEFINE r(n) == Cardinality({h \in S : h < n})
<1>1. \A n : r(n) \in Nat
  <2> TAKE n
  <2>1. {h \in S : h < n} \subseteq Team
    OBVIOUS
  <2> QED BY <2>1, TeamsFinite
<1>2. r(0) = 0
  <2>1. \A h \in S : ~(h < 0)
    <3> TAKE h \in S
    <3>1. h \in Nat
      BY TeamIs
    <3> QED BY <3>1
  <2>2. {h \in S : h < 0} = {}
    BY <2>1
  <2> QED BY <2>2, FS_EmptySet
<1>3. \A i \in Team : r(i + 1) = r(i) + (IF i \in S THEN 1 ELSE 0)
  <2> TAKE i \in Team
  <2> DEFINE B == {h \in S : h < i}
             B1 == {h \in S : h < i + 1}
  <2>1. IsFiniteSet(B) /\ i \notin B
    <3>1. B \subseteq Team
      OBVIOUS
    <3> QED BY <3>1, TeamsFinite, TeamIs
  <2>2. CASE i \in S
    <3>1. B1 = B \cup {i}
      <4>1. \A h \in S : h < i + 1 <=> h < i \/ h = i
        <5> TAKE h \in S
        <5>1. h \in Nat /\ i \in Nat
          BY TeamIs
        <5> QED BY <5>1
      <4> QED BY <4>1, <2>2
    <3>2. Cardinality(B \cup {i}) = Cardinality(B) + 1
      BY <2>1, FS_AddElement
    <3> QED BY <3>1, <3>2, <2>2
  <2>3. CASE i \notin S
    <3>1. B1 = B
      <4>1. \A h \in S : h < i + 1 <=> h < i
        <5> TAKE h \in S
        <5>1. h \in Nat /\ i \in Nat /\ h # i
          BY TeamIs, <2>3
        <5> QED BY <5>1
      <4> QED BY <4>1
    <3>2. Cardinality(B) \in Nat
      BY <1>1
    <3> QED BY <3>1, <3>2, <2>3
  <2> QED BY <2>2, <2>3
<1>4. r(MAX_NB_TEAMS) = Cardinality(S)
  <2>1. {h \in S : h < MAX_NB_TEAMS} = S
    BY TeamIs
  <2> QED BY <2>1
<1> HIDE DEF r
<1>5. f \in [Team -> Int] /\ \A i \in Team : f[i] = IF i \in S THEN 1 ELSE 0
  OBVIOUS
<1> DEFINE w == Upto(f)
           P == {n \in 0 .. MAX_NB_TEAMS : w[n] = r(n)}
<1>6. /\ w \in [0 .. MAX_NB_TEAMS -> Int] /\ w[0] = 0 /\ Total(f) = w[MAX_NB_TEAMS]
      /\ \A i \in Team : w[i + 1] = w[i] + f[i]
  BY <1>5, UptoIs
<1>7. \A i \in Team : i \in 0 .. MAX_NB_TEAMS /\ i + 1 \in 0 .. MAX_NB_TEAMS
  BY TeamIs, MapStateAssumption
<1>8. 0 \in 0 .. MAX_NB_TEAMS /\ MAX_NB_TEAMS \in 0 .. MAX_NB_TEAMS
  BY MapStateAssumption
<1> HIDE DEF w
<1>9. 0 \in P
  BY <1>2, <1>6, <1>8
<1>10. ASSUME NEW i \in Team, i \in P PROVE i + 1 \in P
  BY <1>3, <1>5, <1>6, <1>7, <1>10
<1>11. \A n \in 0 .. MAX_NB_TEAMS : n \in P
  <2> HIDE DEF P
  <2> QED BY <1>9, <1>10, TeamAfterTeam
<1> QED BY <1>4, <1>5, <1>6, <1>8, <1>11

\* What teams can give is all they have but one each.
LEMMA SpareIs ==
  ASSUME NEW f \in [Team -> Nat], NEW S, S \subseteq Team,
         \A t \in Team : f[t] # 0 => t \in S
  PROVE  /\ Spare(f) \in [Team -> Nat] /\ Total(Spare(f)) \in Nat
         /\ Total(f) - Cardinality(S) <= Total(Spare(f))
         /\ \A t \in Team : f[t] # 0 => Total(Spare(f)) < Total(f)
<1> DEFINE s == Spare(f)
<1>1. \A t \in Team : /\ f[t] \in Nat /\ s[t] \in Nat
                      /\ s[t] = IF f[t] = 0 THEN 0 ELSE f[t] - 1
  <2> TAKE t \in Team
  <2>1. f[t] \in Nat
    OBVIOUS
  <2> QED BY <2>1 DEF Spare
<1>2. s \in [Team -> Nat] /\ s \in [Team -> Int] /\ f \in [Team -> Int]
  <2>1. s = [t \in Team |-> s[t]]
    BY DEF Spare
  <2> HIDE DEF s
  <2> QED BY <1>1, <2>1
<1> HIDE DEF s
<1>3. Total(s) \in Nat /\ Total(f) \in Nat
  BY <1>2, TotalNat
<1>4. Total(f) - Cardinality(S) <= Total(s)
  <2> DEFINE o == [t \in Team |-> IF t \in S THEN 1 ELSE 0]
             h == [t \in Team |-> s[t] + o[t]]
  <2>1. o \in [Team -> Int] /\ Total(o) = Cardinality(S)
    BY TotalOnes
  <2>2. \A t \in Team : h[t] = s[t] + o[t] /\ f[t] <= h[t]
    <3> TAKE t \in Team
    <3>1. h[t] = s[t] + (IF t \in S THEN 1 ELSE 0)
      OBVIOUS
    <3> QED BY <3>1, <1>1
  <2>3. h \in [Team -> Int]
    BY <1>2, <2>1
  <2> HIDE DEF h, o
  <2>4. Total(h) = Total(s) + Total(o) /\ Total(f) <= Total(h)
    BY <1>2, <2>1, <2>2, <2>3, TotalAdds, TotalMonotone
  <2>5. Cardinality(S) \in Nat
    BY TeamsFinite
  <2> QED BY <2>1, <2>4, <2>5, <1>3
<1>5. ASSUME NEW t \in Team, f[t] # 0 PROVE Total(s) < Total(f)
  <2> DEFINE o == Only(t, 1)
             h == [i \in Team |-> s[i] + o[i]]
  <2>1. o \in [Team -> Int] /\ Total(o) = 1
    BY TotalOnly
  <2>2. \A i \in Team : h[i] = s[i] + o[i] /\ h[i] <= f[i]
    <3> TAKE i \in Team
    <3>1. o[i] = IF i = t THEN 1 ELSE 0
      BY DEF Only
    <3>2. h[i] = s[i] + o[i]
      OBVIOUS
    <3> HIDE DEF o, h
    <3> QED BY <3>1, <3>2, <1>1, <1>5
  <2>3. h \in [Team -> Int]
    BY <1>2, <2>1
  <2> HIDE DEF h, o
  <2>4. Total(h) = Total(s) + Total(o) /\ Total(h) <= Total(f)
    BY <1>2, <2>1, <2>2, <2>3, TotalAdds, TotalMonotone
  <2> QED BY <2>1, <2>4, <1>3
<1> QED BY <1>2, <1>3, <1>4, <1>5 DEF s

\* No team that had fighters has lost them all.
Spared(m, k) == \A t \in Team : Alive(m, t) => Alive(k, t)

\* When the teams can give what is asked for, or all goes, the loop ends; and if
\* they need not give their last ones, none does.
LEMMA RemoveFightersEnds ==
  ASSUME NEW m \in MapStates, m.fault = "none", NEW nb \in Nat,
         NEW k, k = remove_fighters(m, nb),
         nb <= Total(Spare(m.fighters_per_team)) \/ nb = active_fighters(m)
  PROVE  /\ k.fault = "none"
         /\ active_fighters(k) = active_fighters(m) - nb
         /\ nb <= Total(Spare(m.fighters_per_team)) => Spared(m, k)
<1> DEFINE f == m.fighters_per_team
           share == ToppedUp(m, nb)
           h == [t \in Team |-> f[t] - share[t]]
           S == {t \in Team : f[t] # 0}
<1>1. /\ f \in [Team -> Nat] /\ f \in [Team -> Int] /\ active_fighters(m) = Total(f)
      /\ Total(f) \in Nat
  BY FightersAre
<1>2. Total(share) = nb
  BY <1>1, ToppedUpEnough
<1>3. /\ Spare(f) \in [Team -> Nat] /\ Total(Spare(f)) \in Nat
      /\ Total(f) - Cardinality(S) <= Total(Spare(f))
      /\ \A t \in Team : f[t] # 0 => Total(Spare(f)) < Total(f)
  <2>1. S \subseteq Team /\ \A t \in Team : f[t] # 0 => t \in S
    OBVIOUS
  <2> HIDE DEF S, f
  <2> QED BY <1>1, <2>1, SpareIs
<1>4. nb <= Total(f)
  <2>1. CASE nb = active_fighters(m)
    BY <2>1, <1>1
  <2>2. CASE nb <= Total(Spare(f))
    <3>1. Spare(f) \in [Team -> Int] /\ \A t \in Team : Spare(f)[t] <= f[t]
      <4>1. Spare(f) \in [Team -> Int]
        BY <1>3
      <4>2. ASSUME NEW t \in Team PROVE Spare(f)[t] <= f[t]
        <5>1. f[t] \in Nat
          BY <1>1
        <5> QED BY <5>1 DEF Spare
      <4> QED BY <4>1, <4>2
    <3>2. Total(Spare(f)) <= Total(f)
      BY <1>1, <3>1, TotalMonotone
    <3> QED BY <2>2, <3>2, <1>1, <1>3
  <2> QED BY <2>1, <2>2
<1>5. k = [m EXCEPT !.fighters_per_team = h]
  <2>1. ~(Total(share) < nb) /\ ~(nb > active_fighters(m))
    BY <1>1, <1>2, <1>4
  <2>2. k = [m EXCEPT !.fighters_per_team = [t \in Team |-> @[t] - share[t]]]
    BY <2>1 DEF remove_fighters
  <2> QED BY <2>2
<1>6. share \in Bearable(f, nb)
  BY <1>1, ToppedUpBearable
<1>7. share \in [Team -> Nat] /\ share \in [Team -> Int]
  BY <1>6 DEF Bearable
<1>8. k.fault = "none" /\ k.fighters_per_team = h
  BY <1>5 DEF MapStates
<1>9. active_fighters(k) = active_fighters(m) - nb
  <2>1. h \in [Team -> Int] /\ \A t \in Team : h[t] = f[t] - share[t]
    BY <1>1, <1>7
  <2> HIDE DEF h
  <2>2. Total(h) = Total(f) - Total(share)
    BY <1>1, <1>7, <2>1, TotalMinus
  <2> QED BY <2>2, <1>1, <1>2, <1>8 DEF active_fighters
<1>10. ASSUME nb <= Total(Spare(f)), NEW t \in Team, Alive(m, t) PROVE Alive(k, t)
  <2>1. f[t] \in Nat /\ share[t] \in Nat /\ f[t] # 0
    BY <1>1, <1>7, <1>10 DEF Alive
  <2>2. nb < Total(f)
    BY <2>1, <1>1, <1>3, <1>10
  <2>3. share[t] < f[t]
    BY <1>1, <2>1, <2>2, ToppedUpSpares
  <2>4. h[t] = f[t] - share[t]
    OBVIOUS
  <2> HIDE DEF h, share, f
  <2> QED BY <2>1, <2>3, <2>4, <1>8 DEF Alive
<1> QED BY <1>8, <1>9, <1>10 DEF Spared

\* What reasonable rules come to: a handicap makes no army larger, and whoever
\* comes to a map with room for a single army brings enough.
LEMMA ReasonableIs ==
  ASSUME NEW r, IsRules(r), Reasonable(r)
  PROVE  /\ max_fighters(r) \in Nat /\ single_army(r) \in Nat
         /\ MAX_NB_TEAMS \in Nat /\ MAX_NB_TEAMS >= 2
         /\ single_army(r) >= 2 * MAX_NB_TEAMS - 3
         /\ max_fighters(r) >= single_army(r) + 2 * MAX_NB_TEAMS - 4
         /\ \A t \in Team : \A w \in Nat :
              /\ (w * r.handicap[t]) \div 100 \in Nat
              /\ (w * r.handicap[t]) \div 100 <= w
         /\ \A t \in Team :
              (single_army(r) * r.handicap[t]) \div 100 >= 2 * MAX_NB_TEAMS - 3
<1>1. max_fighters(r) \in Nat /\ single_army(r) \in Nat
  BY SizesAre
<1>2. MAX_NB_TEAMS \in Nat /\ MAX_NB_TEAMS >= 2
  BY MapStateAssumption
<1>3. ASSUME NEW t \in Team PROVE r.handicap[t] \in Nat /\ r.handicap[t] <= 100
  <2>1. r.handicap[t] \in 10 .. 1000
    BY DEF IsRules
  <2>2. \A n \in 10 .. 1000 : n \in Nat
    OBVIOUS
  <2>3. r.handicap[t] \in Nat
    BY <2>1, <2>2, Zenon
  <2> QED BY <2>3 DEF Reasonable
<1>4. ASSUME NEW t \in Team, NEW w \in Nat
      PROVE  /\ (w * r.handicap[t]) \div 100 \in Nat
             /\ (w * r.handicap[t]) \div 100 <= w
  <2>1. PICK h \in Nat : h = r.handicap[t] /\ h <= 100
    BY <1>3
  <2>2. w * h <= w * 100 /\ w * h \in Nat
    BY <2>1, TimesMonotone
  <2>3. PICK y \in Nat : y = w * h /\ y <= w * 100
    BY <2>2
  <2>4. y \div 100 \in Nat /\ y \div 100 <= w
    BY <2>3
  <2> QED BY <2>1, <2>3, <2>4
<1>5. ASSUME NEW t \in Team
      PROVE  (single_army(r) * r.handicap[t]) \div 100 >= 2 * MAX_NB_TEAMS - 3
  <2>1. percent(single_army(r), r.handicap[t]) >= 2 * MAX_NB_TEAMS - 3
    BY DEF Reasonable
  <2>2. percent(single_army(r), r.handicap[t]) = (single_army(r) * r.handicap[t]) \div 100
    BY <1>1 DEF percent
  <2> QED BY <2>1, <2>2
<1>6. single_army(r) >= 2 * MAX_NB_TEAMS - 3
  <2>1. PICK t : t \in Team
    BY TeamIs
  <2>2. /\ (single_army(r) * r.handicap[t]) \div 100 \in Nat
        /\ (single_army(r) * r.handicap[t]) \div 100 <= single_army(r)
    BY <1>1, <1>4, <2>1
  <2>3. (single_army(r) * r.handicap[t]) \div 100 >= 2 * MAX_NB_TEAMS - 3
    BY <1>5, <2>1
  <2> DEFINE y == (single_army(r) * r.handicap[t]) \div 100
  <2> HIDE DEF y
  <2> QED BY <2>2, <2>3, <1>1, <1>2 DEF y
<1>7. max_fighters(r) >= single_army(r) + 2 * MAX_NB_TEAMS - 4
  BY <1>1, <1>2 DEF Reasonable
<1> QED BY <1>1, <1>2, <1>4, <1>5, <1>6, <1>7

\* How many come: where there is room for a single army, not more than that and
\* enough; where there is none, not more than a fair part.
LEMMA RecruitsAre ==
  ASSUME NEW m \in MapStates, NEW r, IsRules(r), Reasonable(r), NEW t \in Team,
         NEW nb, nb = Recruits(m, r, t)
  PROVE  /\ nb \in Nat
         /\ single_army(r) + active_fighters(m) <= max_fighters(r)
              => nb <= single_army(r) /\ nb >= 2 * MAX_NB_TEAMS - 3
         /\ single_army(r) + active_fighters(m) > max_fighters(r)
              => (nb_teams(m) + 1) * nb <= max_fighters(r)
<1> DEFINE M == max_fighters(r)
           single == single_army(r)
           A == active_fighters(m)
           n == nb_teams(m) + 1
           part == M \div n
<1>1. M \in Nat /\ single \in Nat /\ A \in Nat /\ n \in Nat /\ n # 0
      /\ MAX_NB_TEAMS \in Nat
  BY ReasonableIs, FightersAre, PlayingIs
<1>2. \A w \in Nat : (w * r.handicap[t]) \div 100 \in Nat /\ (w * r.handicap[t]) \div 100 <= w
  BY ReasonableIs
<1>3. CASE single + A <= M
  <2>1. nb = (single * r.handicap[t]) \div 100
    BY <1>1, <1>3 DEF Recruits
  <2>2. (single * r.handicap[t]) \div 100 >= 2 * MAX_NB_TEAMS - 3
    BY ReasonableIs
  <2>3. nb \in Nat /\ nb <= single
    BY <2>1, <1>1, <1>2
  <2>4. ~(single + A > M)
    BY <1>1, <1>3
  <2> QED BY <2>1, <2>2, <2>3, <2>4
<1>4. CASE single + A > M
  <2>1. nb = (part * r.handicap[t]) \div 100
    BY <1>4 DEF Recruits
  <2> HIDE DEF M, single, A, n
  <2>2. part \in Nat /\ n * part <= M
    BY <1>1, Floor
  <2> HIDE DEF part
  <2>3. nb \in Nat /\ nb <= part
    BY <2>1, <2>2, <1>2
  <2>4. n * nb <= n * part /\ n * nb \in Int /\ n * part \in Int
    BY <2>2, <2>3, <1>1, TimesMonotone
  <2>5. n * nb <= M
    BY <2>2, <2>4, <1>1
  <2>6. ~(single + A <= M)
    BY <1>1, <1>4
  <2> QED BY <2>3, <2>5, <2>6 DEF n, M, single, A
<1> QED BY <1>1, <1>3, <1>4

\* Where there are fighters somebody plays.
LEMMA SomebodyPlays ==
  ASSUME NEW m, NEW r, Sound(m, r), active_fighters(m) # 0
  PROVE  \E t \in Team : Alive(m, t) /\ t \in Playing(m)
<1> DEFINE f == m.fighters_per_team
<1>1. /\ m \in MapStates /\ f \in [Team -> Nat] /\ active_fighters(m) = Total(f)
  BY FightersAre DEF Sound
<1>2. ASSUME \A t \in Team : f[t] = 0 PROVE FALSE
  <2>1. f = NoFighters
    BY <1>1, <1>2 DEF NoFighters
  <2> QED BY <2>1, <1>1, TotalZero
<1>3. PICK t \in Team : f[t] # 0
  BY <1>2
<1>4. f[t] > 0
  BY <1>1, <1>3
<1>5. Alive(m, t)
  BY <1>4 DEF Alive
<1>6. t \in Playing(m)
  BY <1>5 DEF Playing, Sound
<1> QED BY <1>5, <1>6

\* Rules that ask for nothing excessive leave room for whoever comes.
LEMMA DecimatedEnds ==
  ASSUME NEW m, NEW r, Sound(m, r), IsRules(r), Reasonable(r), m.fault = "none",
         NEW t \in Team, NEW nb, nb = Recruits(m, r, t),
         Excess(m, r, nb) > 0, active_fighters(m) # 0,
         NEW k, k = Decimated(m, r, nb)
  PROVE  /\ k.fault = "none"
         /\ nb \in Nat /\ nb <= max_fighters(r)
         /\ active_fighters(k) = max_fighters(r) - nb
         /\ Spared(m, k)
<1> DEFINE A == active_fighters(m)
           M == max_fighters(r)
           n == nb_teams(m)
           S == Playing(m)
<1>1. /\ m \in MapStates /\ A \in Nat /\ A # 0
      /\ M \in Nat /\ single_army(r) \in Nat /\ A <= M
      /\ n \in Nat /\ S \subseteq Team /\ n = Cardinality(S)
  BY FightersAre, PlayingIs, SizesAre DEF Sound, nb_teams
<1>2. /\ nb \in Nat
      /\ single_army(r) + A <= M => nb <= single_army(r)
      /\ single_army(r) + A > M => (n + 1) * nb <= M
  BY <1>1, RecruitsAre
<1>3. Excess(m, r, nb) = nb + A - M
  BY DEF Excess
<1>4. n # 0
  <2>1. PICK x \in Team : x \in S
    BY SomebodyPlays
  <2> QED BY <2>1, <1>1, TeamsFinite
<1> HIDE DEF A, M, n, S
<1>5. nb + A - M > 0
  BY <1>3 DEF A, M
<1>6. nb # 0 /\ (n + 1) * nb <= M
  BY <1>1, <1>2, <1>5
<1>7. n + nb <= M
  <2>1. n * 1 <= n * nb /\ n * nb \in Int
    BY <1>1, <1>2, <1>6, TimesMonotone
  <2>2. (n + 1) * nb = n * nb + nb
    BY <1>1, <1>2
  <2> QED BY <2>1, <2>2, <1>1, <1>2, <1>6
<1>8. PICK g \in [Team -> Nat] :
        /\ \A i \in Team : g[i] <= m.fighters_per_team[i]
        /\ Total(g) \in Nat /\ Total(g) <= active_fighters(m)
        /\ nb + Total(g) - max_fighters(r) \in Nat
        /\ Decimated(m, r, nb) =
             remove_fighters([m EXCEPT !.fighters_per_team = g],
                             nb + Total(g) - max_fighters(r))
        /\ Excess(m, r, nb) < active_fighters(m) =>
             \A i \in Team : m.fighters_per_team[i] # 0 => g[i] # 0
  BY <1>1, <1>2, DecimatedStarts DEF A
<1> DEFINE less == [m EXCEPT !.fighters_per_team = g]
           rest == nb + Total(g) - M
<1>9. /\ k = remove_fighters(less, rest) /\ rest \in Nat
      /\ Total(g) \in Nat /\ Total(g) <= A /\ rest = nb + Total(g) - M
  BY <1>8 DEF M, A
<1>10. less.fault = "none"
  BY <1>1 DEF MapStates
<1>11. OnlyFighters(m, less) /\ less.fighters_per_team = g
  BY <1>1, ArmiesAre
<1> HIDE DEF less, rest
<1>12. less \in MapStates /\ active_fighters(less) = Total(g)
  BY <1>11 DEF OnlyFighters, active_fighters
<1>13. rest <= Total(Spare(g))
  <2>1. \A i \in Team : g[i] # 0 => i \in S
    <3> TAKE i \in Team
    <3>1. HAVE g[i] # 0
    <3>2. PICK x \in Nat, y \in Nat : x = g[i] /\ y = m.fighters_per_team[i] /\ x <= y
      BY <1>8, <1>1, FightersAre
    <3>3. Alive(m, i)
      BY <3>1, <3>2 DEF Alive
    <3> QED BY <3>3 DEF S, Playing, Sound
  <2>2. Total(Spare(g)) \in Nat /\ Total(g) - Cardinality(S) <= Total(Spare(g))
    BY <1>1, <2>1, SpareIs
  <2> QED BY <2>2, <1>1, <1>2, <1>7, <1>9
<1>14. /\ k.fault = "none"
       /\ active_fighters(k) = Total(g) - rest
       /\ Spared(less, k)
  BY <1>9, <1>10, <1>11, <1>12, <1>13, RemoveFightersEnds
<1>15. active_fighters(k) = M - nb /\ nb <= M
  BY <1>14, <1>1, <1>2, <1>7, <1>9
<1>16. Spared(m, less)
  <2>1. Excess(m, r, nb) < active_fighters(m)
    BY <1>3, <1>1, <1>2, <1>4, <1>7 DEF A, M
  <2>2. ASSUME NEW i \in Team, Alive(m, i) PROVE Alive(less, i)
    <3>1. PICK x \in Nat, y \in Nat : x = g[i] /\ y = m.fighters_per_team[i]
      BY <1>1, FightersAre
    <3>2. y # 0
      BY <3>1, <2>2 DEF Alive
    <3>3. x # 0
      BY <3>1, <3>2, <2>1, <1>8
    <3> QED BY <3>1, <3>3, <1>11 DEF Alive
  <2> QED BY <2>2 DEF Spared
<1>17. Spared(m, k)
  BY <1>14, <1>16 DEF Spared
<1> QED BY <1>2, <1>14, <1>15, <1>17 DEF M

\* A team that gets its fighters: how many there are then, and nobody has less.
LEMMA PopulateTeamAdds ==
  ASSUME NEW m, NEW r, Sound(m, r), IsRules(r), NEW t \in Team, NEW nb \in Nat,
         NEW k, k = populate_team(m, r, t, nb)
  PROVE  /\ k.fault = m.fault
         /\ active_fighters(k) = active_fighters(m)
                                   + IMin(nb, max_fighters(r) - active_fighters(m))
         /\ Spared(m, k)
<1> DEFINE f == m.fighters_per_team
           n == IMin(nb, max_fighters(r) - active_fighters(m))
           v == f[t] + n
           g == [f EXCEPT ![t] = v]
<1>1. /\ m \in MapStates /\ f \in [Team -> Nat] /\ f \in [Team -> Int]
      /\ active_fighters(m) = Total(f) /\ active_fighters(m) \in Nat
  BY FightersAre DEF Sound
<1>2. max_fighters(r) \in Nat /\ active_fighters(m) <= max_fighters(r)
  BY SizesAre DEF Sound
<1>3. n \in Nat
  BY <1>1, <1>2 DEF IMin
<1>4. k = [m EXCEPT !.fighters_per_team = g, !.active[t] = TRUE, !.offline[t] = FALSE,
                    !.respawn_round[t] = 0]
  BY <1>1 DEF populate_team, MapStates
<1> HIDE DEF g
<1>5. k.fault = m.fault /\ k.fighters_per_team = g
  BY <1>4, <1>1 DEF MapStates
<1> HIDE DEF n
<1>6. f[t] \in Nat /\ v \in Nat /\ v = f[t] + n
  BY <1>1, <1>3
<1> HIDE DEF v, f
<1>7. Total(g) = Total(f) + n
  <2>1. f \in [Team -> Int] /\ v \in Int
    BY <1>1, <1>6
  <2>2. Total([f EXCEPT ![t] = v]) = Total(f) - f[t] + v
    BY <2>1, TotalExcept
  <2> QED BY <2>2, <1>1, <1>3, <1>6 DEF g
<1>8. ASSUME NEW i \in Team, Alive(m, i) PROVE Alive(k, i)
  <2>1. f[i] \in Nat /\ f[i] > 0
    BY <1>1, <1>8 DEF Alive, f
  <2>2. g[i] > 0
    BY <2>1, <1>1, <1>3, <1>6 DEF g
  <2> QED BY <2>2, <1>5 DEF Alive
<1> QED BY <1>1, <1>5, <1>7, <1>8 DEF active_fighters, Spared, n

\* There are enough fighters to take half of them and leave everybody one.
Enough(m) == active_fighters(m) >= 2 * MAX_NB_TEAMS - 3

\* Whoever comes is let in: some room is made, nobody dies of it, and there are
\* enough fighters then.
LEMMA AddTeamEnds ==
  ASSUME NEW m, NEW r, Sound(m, r), IsRules(r), Reasonable(r), m.fault = "none",
         NEW t \in Team, NEW k, k = add_team_internal(m, r, t)
  PROVE  /\ k.fault = "none"
         /\ Spared(m, k)
         /\ ~m.active[t] => Enough(k)
<1> DEFINE nb == Recruits(m, r, t)
           A == active_fighters(m)
           M == max_fighters(r)
<1>1. /\ m \in MapStates /\ A \in Nat /\ A <= M /\ M \in Nat /\ single_army(r) \in Nat
      /\ MAX_NB_TEAMS \in Nat /\ MAX_NB_TEAMS >= 2
      /\ single_army(r) >= 2 * MAX_NB_TEAMS - 3
      /\ M >= single_army(r) + 2 * MAX_NB_TEAMS - 4
  BY FightersAre, ReasonableIs DEF Sound
<1>2. /\ nb \in Nat
      /\ single_army(r) + A <= M => nb <= single_army(r) /\ nb >= 2 * MAX_NB_TEAMS - 3
  BY <1>1, RecruitsAre
<1>3. Excess(m, r, nb) = nb + A - M
  BY DEF Excess
<1>4. CASE m.active[t]
  <2>1. k = m
    BY <1>4 DEF add_team_internal
  <2> QED BY <1>4, <2>1 DEF Spared
<1>5. CASE ~m.active[t] /\ Excess(m, r, nb) <= 0
  <2>1. k = populate_team(m, r, t, nb)
    BY <1>5 DEF add_team_internal
  <2>2. /\ k.fault = "none" /\ Spared(m, k)
        /\ active_fighters(k) = A + IMin(nb, M - A)
    BY <1>2, <2>1, PopulateTeamAdds
  <2> HIDE DEF A, M, nb
  <2>3. IMin(nb, M - A) = nb
    BY <1>1, <1>2, <1>3, <1>5 DEF IMin
  <2>4. A + nb >= 2 * MAX_NB_TEAMS - 3
    BY <1>1, <1>2
  <2> QED BY <2>2, <2>3, <2>4 DEF Enough
<1>6. CASE ~m.active[t] /\ ~(Excess(m, r, nb) <= 0)
  <2> DEFINE l == Decimated(m, r, nb)
  <2>1. A # 0 /\ Excess(m, r, nb) > 0
    BY <1>1, <1>2, <1>3, <1>6
  <2>2. k = populate_team(l, r, t, nb)
    BY <1>6, <2>1 DEF add_team_internal
  <2>3. l.fault = "none" /\ nb <= M /\ active_fighters(l) = M - nb /\ Spared(m, l)
    BY <2>1, DecimatedEnds
  <2>4. Sound(l, r)
    BY <1>2, <2>1, DecimatedIs
  <2>5. /\ k.fault = l.fault /\ Spared(l, k)
        /\ active_fighters(k) = active_fighters(l) + IMin(nb, M - active_fighters(l))
    BY <1>2, <2>2, <2>4, PopulateTeamAdds
  <2> HIDE DEF l, A, M, nb
  <2>6. active_fighters(k) = M
    BY <2>3, <2>5, <1>1, <1>2 DEF IMin
  <2>7. M >= 2 * MAX_NB_TEAMS - 3
    BY <1>1
  <2> QED BY <2>3, <2>5, <2>6, <2>7 DEF Spared, Enough
<1> QED BY <1>4, <1>5, <1>6

\* There are enough of them, or nobody plays against anybody.
Ample(m) ==
    \/ Enough(m)
    \/ active_fighters(m) = 0 /\ \A x, y \in Playing(m) : x = y

\* A team is removed, and there are enough fighters left to the others.
LEMMA RemoveTeamEnds ==
  ASSUME NEW m, NEW r, Sound(m, r), IsRules(r), Reasonable(r), m.fault = "none",
         Ample(m), NEW t \in Team, m.active[t],
         NEW k, k = remove_team_internal(m, r, t)
  PROVE  /\ k.fault = "none"
         /\ Playing(m) = {t} => active_fighters(k) = 0
         /\ Playing(m) # {t} => Enough(k)
<1> DEFINE others == nb_teams(m) - 1
           all == active_fighters(m)
           single == single_army(r)
           need == 2 * MAX_NB_TEAMS - 3
           trimmed == IF all \div others > single
                      THEN remove_team_fighters(m, t, all - single * others)
                      ELSE m
<1>1. /\ m \in MapStates /\ all \in Nat /\ single \in Nat
      /\ need \in Nat /\ need # 0 /\ single >= need
  <2>1. /\ MAX_NB_TEAMS \in Nat /\ MAX_NB_TEAMS >= 2
        /\ single_army(r) >= 2 * MAX_NB_TEAMS - 3
    BY ReasonableIs
  <2>2. m \in MapStates /\ all \in Nat /\ single \in Nat
    BY FightersAre, SizesAre DEF Sound
  <2> QED BY <2>1, <2>2
<1>2. CASE Playing(m) = {t}
  <2>1. others <= 0
    BY <1>1, <1>2, AloneIs
  <2>2. k = remove_fighters(m, all)
    BY <2>1 DEF remove_team_internal
  <2>3. k.fault = "none" /\ active_fighters(k) = all - all
    BY <1>1, <2>2, RemoveFightersEnds
  <2> QED BY <1>1, <1>2, <2>3
<1>3. CASE Playing(m) # {t}
  <2>1. others \in Nat /\ others # 0 /\ ~(others <= 0) /\ Playing(m) \ {t} # {}
    BY <1>1, <1>3, AloneIs
  <2>2. all >= need
    <3>1. t \in Playing(m)
      BY <1>1, PlayingIs
    <3> QED BY <3>1, <2>1 DEF Ample, Enough
  <2>3. trimmed.fault = "none" /\ OnlyFighters(m, trimmed) /\ active_fighters(trimmed) >= need
    <3>1. CASE all \div others > single
      <4> DEFINE nb == all - single * others
                 f == m.fighters_per_team
                 v == f[t] - IMin(nb, f[t])
                 g == [f EXCEPT ![t] = v]
      <4>1. trimmed = remove_team_fighters(m, t, nb)
        BY <3>1
      <4>2. trimmed = [m EXCEPT !.fighters_per_team = g]
        BY <4>1, <1>1 DEF remove_team_fighters, MapStates
      <4> HIDE DEF trimmed
      <4>3. nb \in Nat /\ all - nb >= single
        <5> HIDE DEF all, others, single
        <5>1. all \div others \in Nat /\ others * (all \div others) <= all
          BY <1>1, <2>1, Floor
        <5>2. others * single <= others * (all \div others) /\ single * 1 <= single * others
          BY <1>1, <2>1, <5>1, <3>1, TimesMonotone
        <5>3. others * single = single * others /\ single * 1 = single
              /\ others * single \in Int /\ others * (all \div others) \in Int
          BY <1>1, <2>1, <5>1
        <5> QED BY <5>1, <5>2, <5>3, <1>1
      <4>4. /\ f \in [Team -> Nat] /\ f \in [Team -> Int] /\ f[t] \in Nat /\ all = Total(f)
        BY <1>1, FightersAre
      <4> HIDE DEF nb, all, f
      <4>5. v \in Nat /\ v \in Int /\ f[t] - v <= nb
        BY <4>3, <4>4 DEF IMin
      <4> HIDE DEF v
      <4>6. Total(g) = Total(f) - f[t] + v
        BY <4>4, <4>5, TotalExcept
      <4>7. g \in [Team -> Nat]
        BY <4>4, <4>5
      <4> HIDE DEF g
      <4>8. OnlyFighters(m, trimmed) /\ trimmed.fighters_per_team = g
        BY <1>1, <4>2, <4>7, ArmiesAre
      <4>9. trimmed.fault = "none"
        BY <1>1, <4>2 DEF MapStates
      <4> HIDE DEF need, single
      <4>10. Total(g) >= need
        BY <4>3, <4>4, <4>5, <4>6, <1>1
      <4> QED BY <4>8, <4>9, <4>10 DEF active_fighters
    <3>2. CASE ~(all \div others > single)
      <4>1. trimmed = m
        BY <3>2
      <4> QED BY <4>1, <2>2, <1>1 DEF OnlyFighters
    <3> QED BY <3>1, <3>2
  <2>4. active_fighters(trimmed) # 0
    <3> HIDE DEF trimmed, need
    <3>1. trimmed \in MapStates
      BY <2>3 DEF OnlyFighters
    <3>2. active_fighters(trimmed) \in Nat
      BY <3>1, FightersAre
    <3> QED BY <3>2, <2>3, <1>1
  <2> DEFINE heirs == Redistributed(trimmed, t)
  <2>5. k = cancel_team(heirs, t)
    BY <2>1, <2>4 DEF remove_team_internal
  <2> HIDE DEF trimmed
  <2>6. trimmed \in MapStates /\ Playing(trimmed) = Playing(m)
    BY <2>3 DEF OnlyFighters, Playing
  <2>7. OnlyFighters(trimmed, heirs) /\ active_fighters(heirs) = active_fighters(trimmed)
    BY <2>1, <2>4, <2>6, RedistributedIs
  <2>8. heirs.fault = "none"
    BY <2>3, <2>6 DEF Redistributed, MapStates
  <2> HIDE DEF heirs
  <2>9. heirs \in MapStates
    BY <2>7 DEF OnlyFighters
  <2>10. k.fighters_per_team = heirs.fighters_per_team /\ k.fault = heirs.fault
    BY <2>5, <2>9 DEF cancel_team, MapStates
  <2>11. active_fighters(k) = active_fighters(trimmed)
    BY <2>7, <2>10 DEF active_fighters
  <2> QED BY <1>3, <2>3, <2>8, <2>10, <2>11 DEF Enough
<1> QED BY <1>2, <1>3

\* A dead team comes back: the others can give what it is given.
LEMMA RespawnedEnds ==
  ASSUME NEW m, Sound(m, rules), IsRules(rules), Reasonable(rules), m.fault = "none",
         Ample(m), NEW t \in Team, m.active[t], ~Alive(m, t),
         NEW k, k = Respawned(m, t)
  PROVE  k.fault = "none" /\ Ample(k) /\ Spared(m, k)
<1> DEFINE left == remove_team_internal(m, rules, t)
           gone == [left EXCEPT !.respawn_round[t] = 0]
           A == active_fighters(gone)
           nb == IMin(single_army(rules), A \div 2)
           room == remove_fighters(gone, nb)
<1>1. k = add_team_internal(room, rules, t)
  BY DEF Respawned
<1>2. /\ left.fault = "none"
      /\ Playing(m) = {t} => active_fighters(left) = 0
      /\ Playing(m) # {t} => Enough(left)
  BY RemoveTeamEnds
<1>3. /\ Sound(left, rules)
      /\ Playing(m) = {t} => Playing(left) = Playing(m)
      /\ Playing(m) # {t} =>
           /\ Playing(left) = Playing(m) \ {t}
           /\ \A i \in Team : i # t =>
                m.fighters_per_team[i] <= left.fighters_per_team[i]
  BY <1>2, RemoveTeamIs
<1> HIDE DEF left
<1>4. /\ Sound(gone, rules) /\ Playing(gone) = Playing(left)
      /\ gone.fighters_per_team = left.fighters_per_team
  BY <1>3, DatedIs
<1>5. gone.fault = "none"
  BY <1>2, <1>3 DEF Sound, MapStates
<1> HIDE DEF gone
<1>6. /\ gone \in MapStates /\ A \in Nat /\ A = active_fighters(left)
      /\ single_army(rules) \in Nat /\ MAX_NB_TEAMS \in Nat /\ MAX_NB_TEAMS >= 2
      /\ gone.fighters_per_team \in [Team -> Nat] /\ A = Total(gone.fighters_per_team)
  BY <1>4, FightersAre, ReasonableIs DEF Sound, active_fighters
<1>7. Spared(m, gone)
  <2>1. ASSUME NEW i \in Team, Alive(m, i) PROVE Alive(gone, i)
    <3>1. i # t /\ m.active[i] /\ m \in MapStates
      BY <2>1 DEF Sound
    <3>2. Playing(m) # {t}
      <4>1. i \in Playing(m)
        BY <3>1 DEF Playing
      <4> QED BY <3>1, <4>1
    <3>3. PICK x \in Nat, y \in Nat : x = m.fighters_per_team[i] /\ y = gone.fighters_per_team[i]
      BY <3>1, <1>6, FightersAre
    <3>4. x <= y
      BY <3>1, <3>2, <3>3, <1>3, <1>4
    <3> QED BY <3>3, <3>4, <2>1 DEF Alive
  <2> QED BY <2>1 DEF Spared
<1> HIDE DEF A
<1>8. nb \in Nat /\ nb <= A \div 2 /\ A \div 2 \in Nat /\ 2 * (A \div 2) <= A
  <2>1. A \div 2 \in Nat /\ 2 * (A \div 2) <= A
    BY <1>6
  <2> QED BY <2>1, <1>6 DEF IMin
<1>9. CASE Playing(m) = {t}
  <2>1. A = 0 /\ Playing(gone) = {t}
    BY <1>2, <1>3, <1>4, <1>6, <1>9
  <2>2. nb = 0
    BY <2>1, <1>6, <1>8
  <2> HIDE DEF nb
  <2>3. room.fault = "none" /\ active_fighters(room) = 0 /\ OnlyFighters(gone, room)
    <3>1. nb = active_fighters(gone)
      BY <2>1, <2>2 DEF A
    <3> QED BY <1>5, <1>6, <1>8, <2>1, <2>2, <3>1, RemoveFightersEnds, RemoveFightersIs
  <2> HIDE DEF room
  <2>4. k = room
    <3>1. room.active[t]
      <4>1. t \in Playing(gone)
        BY <2>1
      <4> QED BY <4>1, <2>3 DEF OnlyFighters, Playing
    <3> QED BY <3>1, <1>1 DEF add_team_internal
  <2>5. Playing(k) = {t}
    BY <2>1, <2>3, <2>4 DEF OnlyFighters, Playing
  <2>6. Spared(m, k)
    <3>1. ASSUME NEW i \in Team, Alive(m, i) PROVE FALSE
      <4>1. i \in Playing(m)
        BY <3>1 DEF Sound, Playing
      <4>2. i = t
        BY <4>1, <1>9
      <4> QED BY <4>2, <3>1
    <3> QED BY <3>1 DEF Spared
  <2> QED BY <2>3, <2>4, <2>5, <2>6 DEF Ample
<1>10. CASE Playing(m) # {t}
  <2>1. A >= 2 * MAX_NB_TEAMS - 3 /\ Playing(gone) = Playing(m) \ {t}
    BY <1>2, <1>3, <1>4, <1>6, <1>10 DEF Enough
  <2> DEFINE f == gone.fighters_per_team
             S == Playing(gone)
  <2>2. nb <= Total(Spare(f))
    <3>1. S \subseteq Team \ {t}
      BY <2>1, <1>4 DEF Playing
    <3>2. Cardinality(Team \ {t}) = MAX_NB_TEAMS - 1 /\ IsFiniteSet(Team \ {t})
      <4>1. Cardinality(Team) = MAX_NB_TEAMS /\ IsFiniteSet(Team)
        <5>1. PICK b \in Int : b = MAX_NB_TEAMS - 1 /\ ~(0 > b) /\ b - 0 + 1 = MAX_NB_TEAMS
          BY <1>6
        <5>2. /\ IsFiniteSet(0 .. b)
              /\ Cardinality(0 .. b) = IF 0 > b THEN 0 ELSE b - 0 + 1
          BY FS_Interval
        <5> QED BY <5>1, <5>2 DEF Team
      <4> QED BY <4>1, FS_RemoveElement
    <3>3. Cardinality(S) <= MAX_NB_TEAMS - 1 /\ Cardinality(S) \in Nat
      BY <3>1, <3>2, FS_Subset, FS_CardinalityType
    <3>4. \A i \in Team : f[i] # 0 => i \in S
      <4> TAKE i \in Team
      <4>1. HAVE f[i] # 0
      <4>2. PICK x \in Nat : x = f[i]
        BY <1>6
      <4>3. Alive(gone, i)
        BY <4>1, <4>2 DEF Alive
      <4> QED BY <4>3, <1>4 DEF Playing, Sound
    <3>5. Total(Spare(f)) \in Nat /\ Total(f) - Cardinality(S) <= Total(Spare(f))
      <4>1. S \subseteq Team
        BY <3>1
      <4> HIDE DEF f, S
      <4> QED BY <1>6, <3>4, <4>1, SpareIs DEF f
    <3>6. PICK h \in Nat : h = A \div 2 /\ 2 * h <= A /\ A <= 2 * h + 1
      <4>1. A \div 2 \in Nat /\ 2 * (A \div 2) <= A /\ A <= 2 * (A \div 2) + 1
        BY <1>6
      <4> QED BY <4>1
    <3> HIDE DEF S, f, nb
    <3> QED BY <2>1, <3>3, <3>5, <3>6, <1>6, <1>8 DEF f
  <2> HIDE DEF nb
  <2>3. room.fault = "none" /\ Spared(gone, room)
    BY <1>5, <1>6, <1>8, <2>2, RemoveFightersEnds
  <2>4. Sound(room, rules) /\ Playing(room) = Playing(gone)
    <3>1. /\ OnlyFighters(gone, room)
          /\ \A i \in Team : room.fighters_per_team[i] <= gone.fighters_per_team[i]
          /\ active_fighters(room) <= active_fighters(gone)
      BY <1>6, <1>8, RemoveFightersIs
    <3> QED BY <3>1, <1>4, FewerSound
  <2> HIDE DEF room
  <2>5. ~room.active[t]
    <3>1. t \notin Playing(room)
      BY <2>1, <2>4
    <3> QED BY <3>1 DEF Playing
  <2>6. k.fault = "none" /\ Spared(room, k) /\ Enough(k)
    BY <1>1, <2>3, <2>4, <2>5, AddTeamEnds
  <2> QED BY <1>7, <2>3, <2>6 DEF Spared, Ample
<1> QED BY <1>9, <1>10

----------------------------------------------------------------------------
(* The points balance.                                                     *)

\* When some team that plays may be given the points that are missing, or may be
\* asked for those that are too many, the points balance.
LEMMA BalanceEnds ==
  ASSUME NEW delta \in [Team -> Int], NEW m, NEW dead \in Team,
         NEW off, off = Total(delta),
         off < 0 => \E x \in Team : m.active[x] /\ delta[x] >= 0,
         off > 0 => \E x \in Team : m.active[x] /\ delta[x] <= 0
  PROVE  Total(Balance(delta, m, dead, off)) = 0
<1> DEFINE N == MAX_NB_TEAMS
           w(u) == [i \in Nat |-> IF off < 0 THEN -Total(u[i]) ELSE Total(u[i])]
<1>1. off \in Int /\ N \in Nat /\ N # 0 /\ dead \in Nat
  BY UptoIs, MapStateAssumption, TeamIs
<1>2. PICK gap \in Nat : gap = IF off < 0 THEN -off ELSE off
  BY <1>1
<1>3. PICK u : Balancing(delta, m, dead, off, u)
  BY <1>1, BalanceTurns
<1>4. /\ u \in [Nat -> [Team -> Int]] /\ u[0] = delta
      /\ Balance(delta, m, dead, off) = u[N * gap]
  BY <1>2, <1>3 DEF Balancing
<1>5. N * gap \in Nat
  BY <1>1
<1>6. \A i \in Nat : u[i] \in [Team -> Int] /\ Total(u[i]) \in Int
  BY <1>4, UptoIs
<1>7. CASE off = 0
  <2>1. gap = 0
    BY <1>2, <1>7
  <2>2. N * gap = 0
    BY <2>1, <1>1
  <2> QED BY <2>2, <1>4, <1>7
<1>8. CASE off # 0
  <2>1. PICK x \in Team : /\ m.active[x]
                          /\ off < 0 => delta[x] >= 0
                          /\ ~(off < 0) => delta[x] <= 0
    BY <1>1, <1>8
  <2> DEFINE left == w(u)
             open(i) == IF off < 0 THEN u[i][x] >= 0 ELSE u[i][x] <= 0
  <2>2. /\ left \in [Nat -> Int]
        /\ \A i \in Nat : left[i] = IF off < 0 THEN -Total(u[i]) ELSE Total(u[i])
    BY <1>6
  <2> HIDE DEF left, N
  <2>3. ASSUME NEW i \in Nat
        PROVE  \E t \in Team :
                 LET v == IF off < 0 THEN u[i][t] + 1 ELSE u[i][t] - 1
                     turn == /\ left[i] # 0 /\ m.active[t]
                             /\ IF off < 0 THEN u[i][t] >= 0 ELSE u[i][t] <= 0
                 IN  /\ t = (dead + i) % N
                     /\ turn => u[i + 1] = [u[i] EXCEPT ![t] = v]
                     /\ ~turn => u[i + 1] = u[i]
    <3>1. PICK a \in Nat : a = dead + i
      BY <1>1
    <3>2. a % N \in Team
      BY RemainderIsTeam DEF N
    <3>3. PICK t \in Team : t = (dead + i) % MAX_NB_TEAMS
      BY <3>1, <3>2 DEF N
    <3>4. left[i] # 0 <=> Total(u[i]) # 0
      BY <2>2, <1>6
    <3>5. u[i + 1] = IF /\ Total(u[i]) # 0 /\ m.active[t]
                        /\ IF off < 0 THEN u[i][t] >= 0 ELSE u[i][t] <= 0
                     THEN [u[i] EXCEPT ![t] = IF off < 0 THEN @ + 1 ELSE @ - 1]
                     ELSE u[i]
      BY <1>3, <3>3, Zenon DEF Balancing
    <3> QED BY <3>3, <3>4, <3>5 DEF N
  <2>4. ASSUME NEW i \in Nat
        PROVE  /\ left[i + 1] = left[i] \/ (left[i] # 0 /\ left[i + 1] = left[i] - 1)
               /\ open(i) => open(i + 1)
               /\ open(i) /\ left[i] # 0 /\ (dead + i) % N = x
                    => left[i + 1] = left[i] - 1
    <3>1. PICK t \in Team :
                 LET v == IF off < 0 THEN u[i][t] + 1 ELSE u[i][t] - 1
                     turn == /\ left[i] # 0 /\ m.active[t]
                             /\ IF off < 0 THEN u[i][t] >= 0 ELSE u[i][t] <= 0
                 IN  /\ t = (dead + i) % N
                     /\ turn => u[i + 1] = [u[i] EXCEPT ![t] = v]
                     /\ ~turn => u[i + 1] = u[i]
      BY <2>3
    <3> DEFINE v == IF off < 0 THEN u[i][t] + 1 ELSE u[i][t] - 1
               turn == /\ left[i] # 0 /\ m.active[t]
                       /\ IF off < 0 THEN u[i][t] >= 0 ELSE u[i][t] <= 0
    <3>2. /\ u[i] \in [Team -> Int] /\ u[i][t] \in Int /\ v \in Int /\ u[i][x] \in Int
          /\ i + 1 \in Nat
      BY <1>6
    <3>3. /\ left[i] = IF off < 0 THEN -Total(u[i]) ELSE Total(u[i])
          /\ left[i + 1] = IF off < 0 THEN -Total(u[i + 1]) ELSE Total(u[i + 1])
          /\ left[i] \in Int
      BY <2>2, <3>2
    <3>4. CASE turn
      <4>1. u[i + 1] = [u[i] EXCEPT ![t] = v]
        BY <3>1, <3>4
      <4>2. v = IF off < 0 THEN u[i][t] + 1 ELSE u[i][t] - 1
        OBVIOUS
      <4> HIDE DEF v
      <4>3. Total(u[i + 1]) = Total(u[i]) - u[i][t] + v
        BY <3>2, <4>1, TotalExcept
      <4>4. Total(u[i]) \in Int
        BY <1>6
      <4>5. left[i + 1] = left[i] - 1
        BY <1>1, <3>2, <3>3, <4>2, <4>3, <4>4
      <4>6. open(i) => open(i + 1)
        <5>1. u[i + 1][x] = IF x = t THEN v ELSE u[i][x]
          BY <3>2, <4>1
        <5> QED BY <5>1, <4>2, <3>2, <1>1
      <4> QED BY <3>4, <4>5, <4>6
    <3>5. CASE ~turn
      <4>1. u[i + 1] = u[i]
        BY <3>1, <3>5
      <4>2. left[i + 1] = left[i]
        BY <3>3, <4>1
      <4>3. open(i) => open(i + 1)
        BY <4>1
      <4>4. ~(open(i) /\ left[i] # 0 /\ (dead + i) % N = x)
        BY <3>1, <3>5, <2>1
      <4> QED BY <4>2, <4>3, <4>4
    <3> QED BY <3>4, <3>5
  <2> DEFINE P == {i \in Nat : left[i] >= 0 /\ open(i)}
  <2>5. 0 \in P
    BY <1>1, <1>4, <2>1, <2>2
  <2>6. ASSUME NEW i \in Nat, i \in P PROVE i + 1 \in P
    <3> HIDE DEF open
    <3>1. left[i] \in Int /\ left[i] >= 0 /\ open(i) /\ i + 1 \in Nat
      BY <2>2, <2>6
    <3>2. left[i + 1] >= 0
      BY <3>1, <2>4
    <3> QED BY <3>1, <3>2, <2>4
  <2>7. \A i \in Nat : left[i] >= 0 /\ open(i)
    <3>1. \A i \in Nat : i \in P
      <4> HIDE DEF P
      <4> QED BY <2>5, <2>6, AllNaturals
    <3> HIDE DEF open
    <3> QED BY <3>1
  <2> HIDE DEF open, P
  <2>8. \A i \in Nat : left[i + 1] <= left[i]
    <3> TAKE i \in Nat
    <3>1. left[i] \in Int
      BY <2>2
    <3> QED BY <3>1, <2>4
  <2>9. ASSUME NEW k \in Nat, left[N * (k + 1)] > 0
        PROVE  \E t \in Team : \A i \in Nat :
                 /\ N * k <= i /\ i < N * (k + 1)
                 /\ (dead + i) % N = t
                 => left[i + 1] < left[i]
    <3>1. PICK e \in Nat : e = N * (k + 1)
      BY <1>1
    <3>2. ASSUME NEW i \in Nat, i < e, (dead + i) % N = x PROVE left[i + 1] < left[i]
      <4>1. left[e] <= left[i]
        BY <3>2, <2>2, <2>8, NeverGrows
      <4>2. left[i] \in Int /\ left[e] \in Int /\ left[e] > 0
        BY <2>2, <2>9, <3>1
      <4> QED BY <4>1, <4>2, <2>4, <2>7, <3>2
    <3> QED BY <3>1, <3>2
  <2>10. \A g \in Nat : left[N * g] > 0 => left[N * g] <= left[0] - g
    BY <1>1, <2>2, <2>8, <2>9, LapsDo DEF N
  <2>11. left[0] = gap
    BY <1>2, <1>4, <2>2
  <2>12. left[N * gap] = 0
    <3>1. PICK e \in Nat : e = N * gap
      BY <1>5
    <3>2. left[e] \in Int /\ left[e] >= 0
      BY <2>2, <2>7
    <3>3. left[e] > 0 => left[e] <= left[0] - gap
      BY <3>1, <2>10
    <3> QED BY <3>1, <3>2, <3>3, <2>11
  <2>13. Total(u[N * gap]) = 0
    <3>1. PICK e \in Nat : e = N * gap
      BY <1>5
    <3>2. Total(u[e]) \in Int /\ left[e] = 0
      BY <3>1, <1>6, <2>12
    <3>3. Total(u[e]) = 0
      BY <3>2, <2>2
    <3> QED BY <3>1, <3>3
  <2> QED BY <2>13, <1>4
<1> QED BY <1>7, <1>8

\* In the balanced mode those who are alive do not lose points, and those who
\* are dead win none.
LEMMA PointsLean ==
  ASSUME NEW m \in MapStates, NEW r, IsRules(r), r.frags_mode = BALANCED,
         NEW dead \in Team, NEW t \in Team,
         Winners(m) # {}, Losers(m) # {}, m.active[t]
  PROVE  /\ Alive(m, t) => Points(m, r, dead, t) >= 0
         /\ ~Alive(m, t) => Points(m, r, dead, t) <= 0
<1>1. \A a \in Int, b \in Int : IMax(a, b) \in Int /\ IMax(a, b) >= a
  BY DEF IMax
<1>2. r.frags_to_distribute \in Nat
  BY DEF IsRules
<1>3. Points(m, r, dead, t) = PointsOfMode2(m, r, t)
  BY DEF Points, BALANCED, ONE_NEGATIVE_POINT, ONE_FOR_WINNERS_ALL_FOR_LOSER
<1>4. CASE Alive(m, t)
  <2> DEFINE a == r.frags_to_distribute * m.fighters_per_team[t]
             A == active_fighters(m)
  <2>1. /\ m.fighters_per_team[t] \in Nat /\ A \in Nat
        /\ m.fighters_per_team[t] <= A
    BY FightersAre
  <2>2. A # 0 /\ a \in Nat
    BY <1>2, <1>4, <2>1 DEF Alive
  <2>3. PointsOfMode2(m, r, t) = IMax(1, a \div A)
    BY <1>4 DEF PointsOfMode2
  <2> HIDE DEF a, A
  <2>4. a \div A \in Int
    BY <2>1, <2>2, Floor
  <2>5. IMax(1, a \div A) >= 1 /\ IMax(1, a \div A) \in Int
    <3>1. PICK q \in Int : q = a \div A
      BY <2>4
    <3>2. IMax(1, q) >= 1 /\ IMax(1, q) \in Int
      BY <1>1
    <3> QED BY <3>1, <3>2
  <2> QED BY <1>3, <1>4, <2>3, <2>5
<1>5. CASE ~Alive(m, t)
  <2> DEFINE L == Cardinality(Losers(m))
             a == r.frags_to_distribute
  <2>1. L \in Nat /\ L # 0
    <3>1. Losers(m) \subseteq Team
      BY DEF Losers, Contenders, Playing
    <3> QED BY <3>1, TeamsFinite
  <2>2. a \in Nat
    BY <1>2
  <2>3. PointsOfMode2(m, r, t) = -IMax(1, a \div L)
    BY <1>5 DEF PointsOfMode2
  <2> HIDE DEF L, a
  <2>4. a \div L \in Int
    BY <2>1, <2>2, Floor
  <2>5. IMax(1, a \div L) >= 1 /\ IMax(1, a \div L) \in Int
    <3>1. PICK q \in Int : q = a \div L
      BY <2>4
    <3>2. IMax(1, q) >= 1 /\ IMax(1, q) \in Int
      BY <1>1
    <3> QED BY <3>1, <3>2
  <2> QED BY <1>3, <1>5, <2>3, <2>5
<1> QED BY <1>4, <1>5

\* In any mode but the second the loop that balances the points ends.
LEMMA FragEnds ==
  ASSUME NEW m \in MapStates, m.fault = "none",
         NEW r, IsRules(r), r.frags_mode # ONE_FOR_WINNERS_ALL_FOR_LOSER,
         NEW dead \in Team, NEW k, k = frag(m, r, dead)
  PROVE  k.fault = "none"
<1> DEFINE even == r.frags_mode \in {ONE_FOR_WINNERS_ALL_FOR_LOSER, BALANCED}
           delta == [t \in Team |-> Points(m, r, dead, t)]
           off == Total(delta)
           fair == IF even THEN Balance(delta, m, dead, off) ELSE delta
           scored == [m EXCEPT !.frags = Scored(m, r, fair),
                               !.offline = [t \in Team |-> @[t] \/ t \in Losers(m)]]
<1>1. k = IF even /\ Total(fair) # 0 THEN Faulty(m, "endless loop") ELSE scored
  BY Zenon DEF frag
<1>2. scored.fault = "none"
  <2> HIDE DEF fair
  <2> QED BY DEF MapStates
<1>3. ASSUME even PROVE Total(fair) = 0
  <2>1. r.frags_mode = BALANCED
    BY <1>3
  <2>2. delta \in [Team -> Int] /\ \A t \in Team : delta[t] = Points(m, r, dead, t)
    BY PointsAre
  <2> HIDE DEF delta
  <2>3. CASE Winners(m) = {} \/ Losers(m) = {}
    <3>1. \A t \in Team : delta[t] = 0
      BY <2>1, <2>2, <2>3 DEF Points, BALANCED, ONE_NEGATIVE_POINT,
           ONE_FOR_WINNERS_ALL_FOR_LOSER
    <3>2. delta = NoFighters
      BY <2>2, <3>1 DEF NoFighters
    <3>3. off = 0
      BY <3>2, TotalZero
    <3>4. ~(off < 0) /\ ~(off > 0)
      BY <3>3
    <3>5. Total(Balance(delta, m, dead, off)) = 0
      BY <2>2, <3>4, BalanceEnds
    <3> QED BY <3>5, <1>3
  <2>4. CASE Winners(m) # {} /\ Losers(m) # {}
    <3>1. PICK x \in Team : m.active[x] /\ Alive(m, x)
      BY <2>4 DEF Winners, Contenders, Playing
    <3>2. PICK y \in Team : m.active[y] /\ ~Alive(m, y)
      BY <2>4 DEF Losers, Winners, Contenders, Playing
    <3>3. delta[x] >= 0 /\ delta[y] <= 0
      BY <2>1, <2>2, <2>4, <3>1, <3>2, PointsLean
    <3>4. Total(Balance(delta, m, dead, off)) = 0
      BY <2>2, <3>1, <3>2, <3>3, BalanceEnds
    <3> QED BY <3>4, <1>3
  <2> QED BY <2>3, <2>4
<1> HIDE DEF fair, scored
<1> QED BY <1>1, <1>2, <1>3

----------------------------------------------------------------------------
(* What a round and a command leave to those who stay.                     *)

\* From m to k whoever has a cursor then had one before, and has no less.
Grows(m, k) ==
    k.fault = "none" =>
      /\ m.fault = "none"
      /\ \A i \in Team : Led(k, i) =>
           Led(m, i) /\ m.fighters_per_team[i] <= k.fighters_per_team[i]

\* Under rules that ask for nothing excessive, if there were enough fighters in m
\* there are in k, and whoever has a cursor then has not lost its last fighter.
Spares(m, k) ==
    Reasonable(rules) /\ m.fault = "none" /\ Ample(m) =>
      /\ k.fault = "none" /\ Ample(k)
      /\ \A i \in Team : Led(k, i) => Led(m, i) /\ (Alive(m, i) => Alive(k, i))

\* Enough is a matter of the armies and of who plays.
LEMMA SameArmies ==
  ASSUME NEW m, NEW k, k.fighters_per_team = m.fighters_per_team, k.active = m.active
  PROVE  /\ Ample(m) <=> Ample(k)
         /\ \A i : Alive(k, i) <=> Alive(m, i)
BY DEF Ample, Enough, active_fighters, Playing, Alive

\* A larger army is as alive.
LEMMA LargerAlive ==
  ASSUME NEW m \in MapStates, NEW k \in MapStates, NEW i \in Team,
         m.fighters_per_team[i] <= k.fighters_per_team[i], Alive(m, i)
  PROVE  Alive(k, i)
<1>1. PICK x \in Nat, y \in Nat : x = m.fighters_per_team[i] /\ y = k.fighters_per_team[i]
  BY FightersAre
<1> QED BY <1>1 DEF Alive

\* When a team is removed nobody else has less by it, and there are enough
\* fighters left.
LEMMA RemovedSpares ==
  ASSUME NEW m, NEW r, Sound(m, r), IsRules(r), NEW t \in Team,
         NEW k, k = remove_team_internal(m, r, t)
  PROVE  /\ k.fault = "none" => \A i \in Team : i # t =>
              m.fighters_per_team[i] <= k.fighters_per_team[i]
         /\ Reasonable(r) /\ m.fault = "none" /\ Ample(m)
              => k.fault = "none" /\ Ample(k)
<1>1. /\ Sound(k, r)
      /\ Playing(k) \subseteq Playing(m)
      /\ ~m.active[t] => k = m
      /\ m.active[t] /\ Playing(m) = {t} => Playing(k) = Playing(m)
      /\ m.active[t] /\ Playing(m) # {t} /\ k.fault = "none" =>
           /\ Playing(k) = Playing(m) \ {t}
           /\ \A i \in Team : i # t =>
                m.fighters_per_team[i] <= k.fighters_per_team[i]
  BY RemoveTeamIs
<1>2. m \in MapStates /\ k \in MapStates
  BY <1>1 DEF Sound
<1>3. \A i \in Team : m.fighters_per_team[i] \in Nat /\ k.fighters_per_team[i] \in Nat
  <2>1. m.fighters_per_team \in [Team -> Nat] /\ k.fighters_per_team \in [Team -> Nat]
    BY <1>2, FightersAre
  <2> QED BY <2>1
<1>4. ASSUME k.fault = "none", NEW i \in Team, i # t
      PROVE  m.fighters_per_team[i] <= k.fighters_per_team[i]
  <2>1. PICK x \in Nat, y \in Nat : x = m.fighters_per_team[i] /\ y = k.fighters_per_team[i]
    BY <1>3
  <2>2. CASE ~m.active[t]
    BY <2>1, <2>2, <1>1
  <2>3. CASE m.active[t] /\ Playing(m) = {t}
    <3>1. ~m.active[i]
      BY <2>3, <1>4 DEF Playing
    <3>2. ~(x > 0)
      BY <3>1, <2>1 DEF Sound, Alive
    <3> QED BY <3>2, <2>1
  <2>4. CASE m.active[t] /\ Playing(m) # {t}
    BY <2>4, <1>1, <1>4
  <2>5. m.active[t] \in BOOLEAN
    BY <1>2, PlayingIs
  <2> QED BY <2>2, <2>3, <2>4, <2>5
<1>5. ASSUME Reasonable(r), m.fault = "none", Ample(m)
      PROVE  k.fault = "none" /\ Ample(k)
  <2>1. CASE ~m.active[t]
    BY <2>1, <1>1, <1>5
  <2>2. CASE m.active[t]
    <3>1. /\ k.fault = "none"
          /\ Playing(m) = {t} => active_fighters(k) = 0
          /\ Playing(m) # {t} => Enough(k)
      BY <1>5, <2>2, RemoveTeamEnds
    <3> QED BY <3>1, <2>2, <1>1 DEF Ample
  <2> QED BY <2>1, <2>2
<1> QED BY <1>4, <1>5

\* A death is counted to the end.
LEMMA DiedEnds ==
  ASSUME NEW m, Sound(m, rules), IsRules(rules), Reasonable(rules), m.fault = "none",
         NEW t \in Team, NEW k, k = Died(m, t)
  PROVE  /\ k.fault = "none" /\ k.cursors = m.cursors
         /\ k.fighters_per_team = m.fighters_per_team /\ k.active = m.active
<1>1. m \in MapStates
  BY DEF Sound
<1>2. CASE m.respawn_round[t] = 0
  <2> DEFINE l == frag(m, rules, t)
  <2>1. l.fault = "none"
    BY <1>1, FragEnds DEF Reasonable
  <2>2. /\ l \in MapStates
        /\ l.fighters_per_team = m.fighters_per_team /\ l.active = m.active
        /\ l.cursors = m.cursors
    BY <1>1, FragIs
  <2>3. k = [l EXCEPT !.respawn_round[t] = rounds + rules.respawn_delay]
    BY <1>2 DEF Died
  <2> HIDE DEF l
  <2> QED BY <2>1, <2>2, <2>3 DEF MapStates
<1>3. CASE m.respawn_round[t] # 0
  BY <1>3 DEF Died
<1> QED BY <1>2, <1>3

\* However a team ends its round, it is with the others as was said.
LEMMA FinishTeamSpares ==
  ASSUME NEW m, Sound(m, rules), IsRules(rules), rounds \in Nat, NEW t \in Team,
         NEW k, k = FinishTeam(m, t)
  PROVE  /\ Spares(m, k)
         /\ IF rules.respawn_team THEN k.cursors = m.cursors ELSE Grows(m, k)
<1> DEFINE removed == remove_team_internal(m, rules, t)
           buried == Died(m, t)
<1>1. m \in MapStates
  BY DEF Sound
<1>2. /\ Sound(removed, rules) /\ SameScore(m, removed) /\ removed \in MapStates
      /\ removed.fault = "none" => \A i \in Team : i # t =>
           m.fighters_per_team[i] <= removed.fighters_per_team[i]
      /\ Reasonable(rules) /\ m.fault = "none" /\ Ample(m)
           => removed.fault = "none" /\ Ample(removed)
  <2>1. Sound(removed, rules) /\ SameScore(m, removed)
    BY RemoveTeamIs
  <2> QED BY <2>1, RemovedSpares DEF Sound
<1>3. CASE m.active[t] /\ CursorsOf(m, t) = {}
  <2>1. k = removed
    BY <1>3 DEF FinishTeam
  <2> HIDE DEF removed
  <2>2. k.cursors = m.cursors
    BY <2>1, <1>2 DEF SameScore
  <2>3. \A i : Led(k, i) => Led(m, i) /\ i # t
    BY <2>2, <1>3, SameCursors DEF Led
  <2>4. Grows(m, k)
    BY <2>1, <2>3, <1>2 DEF Grows, SameScore
  <2>5. Spares(m, k)
    BY <2>1, <2>3, <2>4, <1>1, <1>2, LargerAlive DEF Grows, Spares
  <2> QED BY <2>2, <2>4, <2>5
<1>4. CASE ~(m.active[t] /\ CursorsOf(m, t) # {} /\ ~Alive(m, t))
           /\ ~(m.active[t] /\ CursorsOf(m, t) = {})
  <2>1. k = m
    BY <1>4 DEF FinishTeam
  <2>2. \A i \in Team : m.fighters_per_team[i] <= m.fighters_per_team[i]
    <3>1. m.fighters_per_team \in [Team -> Nat]
      BY <1>1, FightersAre
    <3>2. \A i \in Team : m.fighters_per_team[i] \in Nat
      BY <3>1
    <3> QED BY <3>2
  <2> QED BY <2>1, <2>2 DEF Grows, Spares
<1>5. CASE m.active[t] /\ CursorsOf(m, t) # {} /\ ~Alive(m, t) /\ ~rules.respawn_team
  <2>1. k = cursors_disable(removed, t)
    BY <1>5 DEF FinishTeam
  <2> HIDE DEF removed
  <2>2. /\ Sound(k, rules) /\ k.active = removed.active
        /\ k.fault = removed.fault
        /\ \A c \in Cursor : k.cursors[c] = IF c \in CursorsOf(removed, t) THEN Free
                                            ELSE removed.cursors[c]
    BY <2>1, <1>2, CursorsDisableIs
  <2>3. k.fighters_per_team = removed.fighters_per_team
    BY <2>1, <1>2 DEF cursors_disable, MapStates
  <2>4. removed.cursors = m.cursors /\ \A i : CursorsOf(removed, i) = CursorsOf(m, i)
    BY <1>2, SameCursors DEF SameScore
  <2>5. ASSUME NEW i \in Team, Led(k, i) PROVE Led(m, i) /\ i # t
    <3>1. PICK c \in Cursor : k.cursors[c].team_color = i
      BY <2>5 DEF Led, CursorsOf
    <3>2. k.cursors[c] # Free
      <4>1. k \in MapStates
        BY <2>2 DEF Sound
      <4> QED BY <3>1, <4>1, CursorIs
    <3>3. c \notin CursorsOf(m, t) /\ k.cursors[c] = m.cursors[c]
      BY <3>2, <2>2, <2>4
    <3> QED BY <3>1, <3>3 DEF Led, CursorsOf
  <2>6. Grows(m, k)
    BY <2>2, <2>3, <2>5, <1>2 DEF Grows, SameScore
  <2>7. Ample(removed) <=> Ample(k)
    BY <2>2, <2>3, SameArmies
  <2>8. k \in MapStates
    BY <2>2 DEF Sound
  <2>9. Spares(m, k)
    BY <2>2, <2>5, <2>6, <2>7, <2>8, <1>1, <1>2, LargerAlive DEF Grows, Spares
  <2> QED BY <2>6, <2>9, <1>5
<1>6. CASE m.active[t] /\ CursorsOf(m, t) # {} /\ ~Alive(m, t) /\ rules.respawn_team
  <2>1. Sound(buried, rules) /\ buried.active = m.active /\ buried.cursors = m.cursors
    BY DiedIs
  <2>2. CASE ~(buried.respawn_round[t] <= rounds)
    <3>1. k = buried
      BY <1>6, <2>2 DEF FinishTeam
    <3>2. \A i : Led(k, i) <=> Led(m, i)
      BY <3>1, <2>1, SameCursors
    <3> HIDE DEF buried
    <3>3. ASSUME Reasonable(rules), m.fault = "none"
          PROVE  k.fault = "none" /\ k.fighters_per_team = m.fighters_per_team
      BY <3>1, <3>3, DiedEnds DEF buried
    <3> QED BY <3>1, <3>2, <3>3, <2>1, <1>6, SameArmies DEF Spares
  <2>3. CASE buried.respawn_round[t] <= rounds
    <3>1. k = Respawned(buried, t)
      BY <1>6, <2>3 DEF FinishTeam
    <3> HIDE DEF buried
    <3>2. SameScore(buried, k)
      BY <3>1, <2>1, <1>6, RespawnedIs
    <3>3. k.cursors = m.cursors /\ \A i : Led(k, i) <=> Led(m, i)
      BY <3>2, <2>1, SameCursors DEF SameScore
    <3>4. ASSUME Reasonable(rules), m.fault = "none", Ample(m)
          PROVE  k.fault = "none" /\ Ample(k) /\ Spared(m, k)
      <4>1. buried.fault = "none" /\ buried.fighters_per_team = m.fighters_per_team
        BY <3>4, DiedEnds DEF buried
      <4>2. Ample(buried) /\ \A i : Alive(buried, i) <=> Alive(m, i)
        BY <4>1, <3>4, <2>1, SameArmies
      <4>3. k.fault = "none" /\ Ample(k) /\ Spared(buried, k)
        BY <3>1, <3>4, <4>1, <4>2, <2>1, <1>6, RespawnedEnds
      <4> QED BY <4>2, <4>3 DEF Spared
    <3> QED BY <3>3, <3>4, <1>6 DEF Spares, Spared
  <2> QED BY <2>2, <2>3
<1> QED BY <1>3, <1>4, <1>5, <1>6

\* One after the other they say the same.
LEMMA SparesChain ==
  ASSUME NEW m, NEW l, NEW k, Spares(m, l), Spares(l, k)
  PROVE  Spares(m, k)
BY DEF Spares

\* Whoever has no less twice has no less.
LEMMA GrowsChain ==
  ASSUME NEW m \in MapStates, NEW l \in MapStates, NEW k \in MapStates,
         Grows(m, l), Grows(l, k)
  PROVE  Grows(m, k)
<1>1. SUFFICES ASSUME k.fault = "none", NEW i \in Team, Led(k, i)
               PROVE  m.fighters_per_team[i] <= k.fighters_per_team[i]
  BY DEF Grows
<1>2. /\ m.fighters_per_team[i] <= l.fighters_per_team[i]
      /\ l.fighters_per_team[i] <= k.fighters_per_team[i]
  BY <1>1 DEF Grows
<1>3. PICK x \in Nat, y \in Nat, z \in Nat :
        /\ x = m.fighters_per_team[i] /\ y = l.fighters_per_team[i]
        /\ z = k.fighters_per_team[i]
  BY FightersAre
<1> QED BY <1>2, <1>3

\* Where nothing happens nobody loses.
LEMMA StillGrows ==
  ASSUME NEW m \in MapStates
  PROVE  Grows(m, m) /\ Spares(m, m)
<1>1. \A i \in Team : m.fighters_per_team[i] <= m.fighters_per_team[i]
  <2>1. m.fighters_per_team \in [Team -> Nat]
    BY FightersAre
  <2>2. \A i \in Team : m.fighters_per_team[i] \in Nat
    BY <2>1
  <2> QED BY <2>2
<1> QED BY <1>1 DEF Grows, Spares

\* Whoever has no less is alive if it was.
LEMMA GrowsSpares ==
  ASSUME NEW m \in MapStates, NEW k \in MapStates, Grows(m, k),
         Reasonable(rules) /\ m.fault = "none" /\ Ample(m)
           => k.fault = "none" /\ Ample(k)
  PROVE  Spares(m, k)
BY LargerAlive DEF Grows, Spares

\* The end of a round, all teams together.
LEMMA FinishedSpares ==
  ASSUME NEW m, Sound(m, rules), IsRules(rules), rounds \in Nat,
         NEW k, k = Finished(m)
  PROVE  /\ Spares(m, k)
         /\ IF rules.respawn_team THEN k.cursors = m.cursors ELSE Grows(m, k)
<1>1. PICK u : /\ u[0] = m
               /\ \A t \in Team : u[t + 1] = FinishTeam(u[t], t)
               /\ Finished(m) = u[MAX_NB_TEAMS]
  BY FinishedSteps
<1> DEFINE Upon(n) ==
             /\ Sound(u[n], rules) /\ Spares(m, u[n])
             /\ IF rules.respawn_team THEN u[n].cursors = m.cursors ELSE Grows(m, u[n])
           P == {n \in 0 .. MAX_NB_TEAMS : Upon(n)}
<1>2. \A t \in Team : t \in 0 .. MAX_NB_TEAMS /\ t + 1 \in 0 .. MAX_NB_TEAMS
  BY TeamIs, MapStateAssumption
<1>3. 0 \in 0 .. MAX_NB_TEAMS /\ MAX_NB_TEAMS \in 0 .. MAX_NB_TEAMS
  BY MapStateAssumption
<1>4. m \in MapStates
  BY DEF Sound
<1>5. Upon(0)
  BY <1>1, <1>4, StillGrows
<1>6. ASSUME NEW t \in Team, Upon(t) PROVE Upon(t + 1)
  <2>1. PICK a, b : a = u[t] /\ b = u[t + 1]
    OBVIOUS
  <2>2. Sound(a, rules) /\ b = FinishTeam(a, t)
    BY <1>1, <1>6, <2>1
  <2>3. Sound(b, rules)
    BY <2>2, FinishTeamIs DEF Settled
  <2>4. /\ Spares(a, b)
        /\ IF rules.respawn_team THEN b.cursors = a.cursors ELSE Grows(a, b)
    BY <2>2, FinishTeamSpares
  <2>5. /\ Spares(m, a)
        /\ IF rules.respawn_team THEN a.cursors = m.cursors ELSE Grows(m, a)
    BY <1>6, <2>1
  <2>6. Spares(m, b)
    BY <2>4, <2>5, SparesChain
  <2>7. a \in MapStates /\ b \in MapStates
    BY <2>2, <2>3 DEF Sound
  <2>8. IF rules.respawn_team THEN b.cursors = m.cursors ELSE Grows(m, b)
    BY <2>4, <2>5, <2>7, <1>4, GrowsChain
  <2> QED BY <2>1, <2>3, <2>6, <2>8
<1>7. \A n \in 0 .. MAX_NB_TEAMS : n \in P
  <2> HIDE DEF Upon
  <2>1. 0 \in P
    BY <1>3, <1>5
  <2>2. \A t \in Team : t \in P => t + 1 \in P
    BY <1>2, <1>6
  <2> HIDE DEF P
  <2> QED BY <2>1, <2>2, TeamAfterTeam
<1>8. Upon(MAX_NB_TEAMS)
  <2> HIDE DEF Upon
  <2> QED BY <1>3, <1>7
<1> QED BY <1>1, <1>8

\* Whoever stays when a cursor leaves.
LEMMA LeftSpares ==
  ASSUME NEW m, Sound(m, rules), IsRules(rules), NEW n \in Node, NEW c \in Cursor,
         NEW k, k = Left(m, n, c)
  PROVE  Spares(m, k) /\ Grows(m, k)
<1> DEFINE t == m.cursors[c].team_color
           without == cursor_disable(m, n, c)
           cs == [m.cursors EXCEPT ![c] = Free]
<1>1. m \in MapStates /\ NoNode # n
  BY MapStateAssumption DEF Sound
<1>2. CASE m.cursors[c] = Free
  <2>1. k = m
    BY <1>2 DEF Left
  <2> QED BY <2>1, <1>1, StillGrows
<1>3. CASE m.cursors[c] # Free /\ m.cursors[c].node_id # n
  <2>1. without = m /\ c \in CursorsOf(m, t)
    BY <1>3 DEF cursor_disable, CursorsOf
  <2>2. k = m
    BY <1>3, <2>1 DEF Left
  <2> QED BY <2>2, <1>1, StillGrows
<1>4. CASE m.cursors[c] # Free /\ m.cursors[c].node_id = n
  <2>1. t \in Team
    <3>1. c \in Enabled(m)
      BY <1>4 DEF Enabled
    <3> QED BY <3>1, <1>1, CursorIs
  <2>2. without = [m EXCEPT !.cursors = cs]
    BY <1>1, <1>4 DEF cursor_disable, MapStates
  <2>3. /\ cs \in [Cursor -> {Free} \cup [node_id : Node, team_color : Team]]
        /\ \A d \in Cursor : cs[d] = IF d = c THEN Free ELSE m.cursors[d]
    BY <1>1 DEF MapStates
  <2>4. k = IF without.active[t] /\ CursorsOf(without, t) = {}
            THEN remove_team_internal(without, rules, t) ELSE without
    BY <1>4 DEF Left
  <2> HIDE DEF cs, without, t
  <2>5. /\ without \in MapStates /\ without.active = m.active
        /\ without.fighters_per_team = m.fighters_per_team
        /\ without.cursors = cs /\ without.fault = m.fault
    BY <1>1, <2>2, <2>3 DEF MapStates
  <2>6. Sound(without, rules) /\ (Ample(m) <=> Ample(without))
    <3>1. /\ \A i \in Team : Alive(without, i) <=> Alive(m, i)
          /\ active_fighters(without) = active_fighters(m)
      BY <2>5 DEF Alive, active_fighters
    <3> QED BY <2>5, <3>1, SameArmies DEF Sound
  <2>7. ASSUME NEW i \in Team, Led(without, i) PROVE Led(m, i)
    <3>1. PICK d \in Cursor : without.cursors[d].team_color = i
      BY <2>7 DEF Led, CursorsOf
    <3>2. d \in CursorsOf(m, i)
      BY <3>1, <2>3, <2>5, <1>1, CursorIs DEF CursorsOf
    <3> QED BY <3>2 DEF Led
  <2>8. \A i \in Team : m.fighters_per_team[i] <= without.fighters_per_team[i]
    <3>1. m.fighters_per_team \in [Team -> Nat]
      BY <1>1, FightersAre
    <3>2. \A i \in Team : m.fighters_per_team[i] \in Nat
      BY <3>1
    <3> QED BY <3>2, <2>5
  <2>9. Grows(m, without)
    BY <2>5, <2>7, <2>8 DEF Grows
  <2>10. CASE ~(without.active[t] /\ CursorsOf(without, t) = {})
    <3>1. k = without
      BY <2>4, <2>10
    <3> QED BY <3>1, <2>5, <2>6, <2>9, <1>1, GrowsSpares
  <2>11. CASE without.active[t] /\ CursorsOf(without, t) = {}
    <3>1. k = remove_team_internal(without, rules, t)
      BY <2>4, <2>11
    <3>2. Sound(k, rules) /\ SameScore(without, k)
      BY <2>1, <2>6, <3>1, RemoveTeamIs
    <3>3. /\ k.fault = "none" => \A i \in Team : i # t =>
               without.fighters_per_team[i] <= k.fighters_per_team[i]
          /\ Reasonable(rules) /\ without.fault = "none" /\ Ample(without)
               => k.fault = "none" /\ Ample(k)
      BY <2>1, <2>6, <3>1, RemovedSpares
    <3>4. k \in MapStates /\ k.cursors = without.cursors
      BY <3>2 DEF Sound, SameScore
    <3>5. \A i : Led(k, i) => Led(without, i) /\ i # t
      BY <3>4, <2>11, SameCursors DEF Led
    <3>6. Grows(without, k)
      BY <3>2, <3>3, <3>5 DEF Grows, SameScore
    <3>7. Grows(m, k)
      BY <3>4, <3>6, <2>5, <2>9, <1>1, GrowsChain
    <3> QED BY <3>3, <3>4, <3>7, <2>5, <2>6, <1>1, GrowsSpares
  <2> QED BY <2>10, <2>11
<1> QED BY <1>2, <1>3, <1>4

\* Whoever stays when a node leaves.
LEMMA AllLeftSpares ==
  ASSUME NEW m, Sound(m, rules), IsRules(rules), NEW n \in Node,
         NEW slots \in SetToSeqs({c \in Cursor : m.cursors[c].node_id = n}),
         NEW k, k = AllLeft(m, n, slots)
  PROVE  Spares(m, k) /\ Grows(m, k)
<1> DEFINE L == Len(slots)
<1>1. PICK u : Leaving(m, n, slots, u)
  BY AllLeftTurns
<1>2. L \in Nat /\ u[0] = m /\ k = u[L]
  BY <1>1 DEF Leaving
<1>3. \A i \in Nat : i + 1 \in 1 .. L =>
        slots[i + 1] \in Cursor /\ u[i + 1] = Left(u[i], n, slots[i + 1])
  BY <1>1 DEF Leaving
<1> HIDE DEF L
<1> DEFINE Upon(i) == Sound(u[i], rules) /\ Spares(m, u[i]) /\ Grows(m, u[i])
           P == {i \in Nat : i <= L => Upon(i)}
<1>4. m \in MapStates
  BY DEF Sound
<1>5. Upon(0)
  <2>1. Spares(m, m) /\ Grows(m, m)
    BY <1>4, StillGrows
  <2> QED BY <2>1, <1>2
<1>6. ASSUME NEW i \in Nat, i + 1 <= L, Upon(i) PROVE Upon(i + 1)
  <2>1. PICK a, b, c : a = u[i] /\ b = u[i + 1] /\ c = slots[i + 1]
    OBVIOUS
  <2>2. i + 1 \in 1 .. L
    BY <1>2, <1>6
  <2>3. b = Left(a, n, c) /\ c \in Cursor
    BY <1>3, <2>1, <2>2
  <2>4. Sound(a, rules) /\ Spares(m, a) /\ Grows(m, a)
    BY <1>6, <2>1
  <2>5. /\ Sound(b, rules)
        /\ \A ns : Manned(a, ns) => Manned(b, ns)
        /\ \A d \in Cursor : b.cursors[d] = IF d = c /\ a.cursors[c].node_id = n
                                            THEN Free ELSE a.cursors[d]
    BY <2>3, <2>4, LeftIs
  <2>6. Spares(a, b) /\ Grows(a, b)
    BY <2>3, <2>4, LeftSpares
  <2>7. a \in MapStates /\ b \in MapStates
    BY <2>4, <2>5 DEF Sound
  <2>8. Spares(m, b)
    BY <2>4, <2>6, SparesChain
  <2>9. Grows(m, b)
    BY <2>4, <2>6, <2>7, <1>4, GrowsChain
  <2> QED BY <2>1, <2>5, <2>8, <2>9
<1>7. \A i \in Nat : i \in P
  <2> HIDE DEF Upon
  <2>1. 0 \in P
    BY <1>5
  <2>2. ASSUME NEW i \in Nat, i \in P PROVE i + 1 \in P
    <3>1. i + 1 <= L => i <= L
      BY <1>2
    <3> QED BY <3>1, <2>2, <1>6
  <2> HIDE DEF P
  <2> QED BY <2>1, <2>2, AllNaturals
<1>8. Upon(L)
  <2> HIDE DEF Upon
  <2>1. L <= L
    BY <1>2
  <2> QED BY <2>1, <1>2, <1>7
<1> QED BY <1>2, <1>8

\* Whoever is there when a cursor comes.
LEMMA AddCursorSpares ==
  ASSUME Sound(ms, rules), IsRules(rules), NEW n \in Node, NEW c \in Cursor,
         NEW t \in Team, ms.cursors[c] = Free,
         NEW k, k = cursor_enable(add_team(t), n, c, t)
  PROVE  /\ Enabled(ms) \subseteq Enabled(k)
         /\ Reasonable(rules) /\ ms.fault = "none" /\ Ample(ms)
              => k.fault = "none" /\ Ample(k) /\ Spared(ms, k)
<1> DEFINE added == add_team_internal(ms, rules, t)
           m == add_team(t)
           fs == [added.frags EXCEPT ![t] = 0]
           cs == [m.cursors EXCEPT ![c] = [node_id |-> n, team_color |-> t]]
<1>1. ms \in MapStates
  BY DEF Sound
<1>2. /\ m \in MapStates /\ m.cursors = ms.cursors
      /\ Reasonable(rules) /\ ms.fault = "none" /\ Ample(ms)
           => m.fault = "none" /\ Ample(m) /\ Spared(ms, m)
  <2>1. CASE ms.active[t]
    <3>1. m = ms
      BY <2>1 DEF add_team
    <3> QED BY <3>1, <1>1 DEF Spared
  <2>2. CASE ~ms.active[t]
    <3>1. /\ Sound(added, rules)
          /\ SameScore(ms, added)
          /\ Playing(ms) \subseteq Playing(added) /\ Playing(added) \subseteq Playing(ms) \cup {t}
          /\ ms.active[t] => added = ms
          /\ added.fault = "none" => t \in Playing(added)
      BY AddTeamIs
    <3>2. added \in MapStates
      BY <3>1 DEF Sound
    <3>3. m = [added EXCEPT !.frags = fs]
      BY <2>2, <3>2 DEF add_team, MapStates
    <3>4. ASSUME Reasonable(rules), ms.fault = "none"
          PROVE  added.fault = "none" /\ Spared(ms, added) /\ Enough(added)
      <4>1. PICK l : l = added
        OBVIOUS
      <4>2. l = add_team_internal(ms, rules, t)
        BY <4>1
      <4> HIDE DEF added
      <4>3. /\ l.fault = "none"
            /\ Spared(ms, l)
            /\ ~ms.active[t] => Enough(l)
        BY <3>4, <4>2, AddTeamEnds
      <4> QED BY <4>1, <4>3, <2>2
    <3> HIDE DEF added, m
    <3>5. fs \in [Team -> Int]
      <4>1. added.frags \in [Team -> Int]
        BY <3>2 DEF MapStates
      <4> QED BY <4>1
    <3> HIDE DEF fs
    <3>6. /\ m \in MapStates /\ m.active = added.active
          /\ m.fighters_per_team = added.fighters_per_team
          /\ m.cursors = added.cursors /\ m.fault = added.fault
      BY <3>2, <3>3, <3>5 DEF MapStates
    <3>7. \A i : Alive(m, i) <=> Alive(added, i)
      BY <3>6 DEF Alive
    <3>8. Enough(added) => Ample(m)
      BY <3>6 DEF Enough, Ample, active_fighters
    <3> QED BY <3>1, <3>4, <3>6, <3>7, <3>8 DEF SameScore, Spared
  <2> QED BY <2>1, <2>2
<1> HIDE DEF m
<1>3. k = IF m.cursors[c] # Free \/ Cardinality(Enabled(m)) >= MAX_NB_CURSORS THEN m
          ELSE [m EXCEPT !.cursors = cs]
  BY <1>2 DEF cursor_enable, MapStates, m
<1>4. CASE k = m
  BY <1>2, <1>4 DEF Enabled
<1>5. CASE k = [m EXCEPT !.cursors = cs]
  <2>1. \A d \in Cursor : d # c => cs[d] = m.cursors[d]
    BY <1>2 DEF MapStates
  <2> HIDE DEF cs
  <2>2. /\ k.active = m.active /\ k.fighters_per_team = m.fighters_per_team
        /\ k.cursors = cs /\ k.fault = m.fault
    BY <1>2, <1>5 DEF MapStates
  <2>3. (Ample(m) <=> Ample(k)) /\ \A i : Alive(k, i) <=> Alive(m, i)
    BY <2>2, SameArmies
  <2>4. Enabled(ms) \subseteq Enabled(k)
    BY <1>2, <2>1, <2>2 DEF Enabled
  <2> QED BY <1>2, <2>2, <2>3, <2>4 DEF Spared
<1> QED BY <1>3, <1>4, <1>5

----------------------------------------------------------------------------
(* The second invariant: nothing failed, and there are enough fighters.    *)

\* Besides, under rules that ask for nothing excessive nothing failed and there
\* are enough fighters.
Kept == Reasonable(rules) => ms.fault = "none" /\ Ample(ms)

\* A game that begins has neither fighters nor teams.
LEMMA InitKept == Init => Kept
<1> SUFFICES ASSUME Init PROVE Kept
  OBVIOUS
<1>1. /\ ms.fighters_per_team = NoFighters /\ ms.fault = "none"
      /\ \A t \in Team : ~ms.active[t]
  BY DEF Init, MapStateInit, Nobody
<1>2. active_fighters(ms) = 0
  BY <1>1, TotalZero DEF active_fighters
<1>3. Playing(ms) = {}
  BY <1>1 DEF Playing
<1> QED BY <1>1, <1>2, <1>3 DEF Kept, Ample

\* What do_move makes of the fighters leaves as many, and no fault.
LEMMA MovedKeeps ==
  ASSUME Inv, NEW f \in Moved(ms.fighters_per_team),
         NEW m, m = [ms EXCEPT !.fighters_per_team = f]
  PROVE  m.fault = ms.fault /\ (Ample(ms) <=> Ample(m))
<1> DEFINE old == ms.fighters_per_team
<1>1. ms \in MapStates
  BY DEF Inv, Sound
<1>2. old \in [Team -> Nat] /\ Total(old) \in Nat /\ active_fighters(ms) = Total(old)
  BY <1>1, FightersAre
<1>3. f \in [Team -> Nat] /\ Total(f) = Total(old)
  <2>1. CASE over
    BY <1>2, <2>1 DEF Moved
  <2>2. CASE ~over
    <3>1. f \in [Team -> 0 .. Total(old)] /\ Total(f) = Total(old)
      BY <2>2 DEF Moved
    <3>2. \A t \in Team : f[t] \in Nat
      BY <3>1, <1>2
    <3> QED BY <3>1, <3>2
  <2> QED BY <2>1, <2>2
<1>4. OnlyFighters(ms, m) /\ m.fighters_per_team = f
  BY <1>1, <1>3, ArmiesAre
<1>5. active_fighters(m) = active_fighters(ms)
  BY <1>2, <1>3, <1>4 DEF active_fighters
<1> QED BY <1>4, <1>5 DEF OnlyFighters, Ample, Enough, Playing

\* A round, from what do_move makes of the fighters to its end.
LEMMA RoundSpares ==
  ASSUME Inv, do_round, NEW k, k = ms'
  PROVE  \E m : /\ Sound(m, rules) /\ m.cursors = ms.cursors /\ m.fault = ms.fault
                /\ over => m = ms
                /\ Ample(ms) <=> Ample(m)
                /\ Spares(m, k)
                /\ IF rules.respawn_team THEN k.cursors = m.cursors ELSE Grows(m, k)
<1>1. IsRules(rules) /\ rounds \in Nat
  <2>1. IsRules(rules)
    BY GameStateAssumption DEF Inv, TypeOK
  <2>2. rounds \in 0 .. total_rounds
    BY DEF Inv, TypeOK
  <2> QED BY <2>1, <2>2
<1>2. PICK f \in Moved(ms.fighters_per_team) :
        ms' = Finished([ms EXCEPT !.fighters_per_team = f])
  BY DEF do_round
<1> DEFINE m == [ms EXCEPT !.fighters_per_team = f]
<1>3. /\ Sound(m, rules) /\ m.frags = ms.frags
      /\ Manned(ms, nodes) => Manned(m, nodes)
      /\ m.active = ms.active /\ m.cursors = ms.cursors
  BY MovedIs
<1>4. m.fault = ms.fault /\ (Ample(ms) <=> Ample(m))
  BY MovedKeeps
<1>5. over => m = ms
  <2>1. ms \in MapStates
    BY DEF Inv, Sound
  <2>2. over => f = ms.fighters_per_team
    BY DEF Moved
  <2> QED BY <2>1, <2>2 DEF MapStates
<1>6. k = Finished(m)
  BY <1>2
<1> HIDE DEF m
<1>7. /\ Spares(m, k)
      /\ IF rules.respawn_team THEN k.cursors = m.cursors ELSE Grows(m, k)
  BY <1>1, <1>3, <1>6, FinishedSpares
<1> QED BY <1>3, <1>4, <1>5, <1>7

\* A team that has a cursor then and had fighters keeps some, if the rules ask
\* for nothing excessive; and if a cursor left, those who stay have no less.
Merciful(m, k) ==
    /\ Reasonable(rules) => \A t \in Team : Alive(m, t) /\ Led(k, t) => Alive(k, t)
    /\ Cardinality(Enabled(k)) < Cardinality(Enabled(m)) /\ k.fault = "none" =>
         \A t \in Team : Led(k, t) => k.fighters_per_team[t] >= m.fighters_per_team[t]

\* Whoever stays when somebody leaves.
LEMMA LeavingIsMerciful ==
  ASSUME NEW m \in MapStates, NEW k \in MapStates, Spares(m, k), Grows(m, k),
         Reasonable(rules) => m.fault = "none" /\ Ample(m)
  PROVE  Merciful(m, k)
<1>1. /\ m.fighters_per_team \in [Team -> Nat]
      /\ k.fighters_per_team \in [Team -> Nat]
  BY FightersAre
<1>2. ASSUME NEW t \in Team, m.fighters_per_team[t] <= k.fighters_per_team[t]
      PROVE  k.fighters_per_team[t] >= m.fighters_per_team[t]
  <2>1. m.fighters_per_team[t] \in Nat /\ k.fighters_per_team[t] \in Nat
    BY <1>1
  <2> QED BY <2>1, <1>2
<1>3. k.fault = "none" =>
        \A t \in Team : Led(k, t) => k.fighters_per_team[t] >= m.fighters_per_team[t]
  BY <1>2 DEF Grows
<1> QED BY <1>3 DEF Spares, Merciful

\* Where no cursor leaves, it is enough that nobody dies.
LEMMA StayingIsMerciful ==
  ASSUME NEW m \in MapStates, NEW k \in MapStates, Enabled(m) \subseteq Enabled(k),
         Reasonable(rules) => \A t \in Team : Alive(m, t) /\ Led(k, t) => Alive(k, t)
  PROVE  Merciful(m, k)
<1>1. IsFiniteSet(Enabled(k))
  <2>1. Enabled(k) \subseteq Cursor
    BY DEF Enabled
  <2> QED BY <2>1, FS_Subset, MapStateAssumption
<1>2. /\ IsFiniteSet(Enabled(m)) /\ Cardinality(Enabled(m)) <= Cardinality(Enabled(k))
  BY <1>1, FS_Subset
<1>3. Cardinality(Enabled(m)) \in Nat /\ Cardinality(Enabled(k)) \in Nat
  BY <1>1, <1>2, FS_CardinalityType
<1>4. ~(Cardinality(Enabled(k)) < Cardinality(Enabled(m)))
  BY <1>2, <1>3
<1> QED BY <1>4 DEF Merciful

\* Every action keeps that, and the commands and what follows the end of a game
\* spare everybody.
LEMMA NextSpares ==
  ASSUME Inv, Kept, [Next]_vars
  PROVE  Kept' /\ (UNCHANGED clock => Merciful(ms, ms'))
<1>1. Sound(ms, rules) /\ ms \in MapStates
  BY DEF Inv, Sound
<1>2. IsRules(rules)
  BY GameStateAssumption DEF Inv, TypeOK
<1>3. Reasonable(rules) => ms.fault = "none" /\ Ample(ms)
  BY DEF Kept
<1>4. PICK k : k = ms'
  OBVIOUS
<1>5. k \in MapStates /\ rules' = rules
  <2>1. Inv'
    BY NextKeeps
  <2>2. k \in MapStates
    BY <2>1, <1>4 DEF Inv, Sound
  <2> QED BY <2>2 DEF Next, vars, register_node, unregister_node, add_cursor,
                      remove_cursor, do_round
<1>6. ASSUME Reasonable(rules) => k.fault = "none" /\ Ample(k)
      PROVE  Kept'
  BY <1>4, <1>5, <1>6 DEF Kept, Reasonable, Ample, Enough, active_fighters, Playing
<1>7. ASSUME Merciful(ms, k) PROVE Merciful(ms, ms')
  BY <1>4, <1>7
<1>8. ASSUME k = ms PROVE Kept' /\ Merciful(ms, ms')
  <2>1. Enabled(ms) \subseteq Enabled(k)
    BY <1>8
  <2>2. Reasonable(rules) => \A t \in Team : Alive(ms, t) /\ Led(k, t) => Alive(k, t)
    BY <1>8
  <2>3. Merciful(ms, k)
    BY <2>1, <2>2, <1>1, <1>5, StayingIsMerciful
  <2> QED BY <2>3, <1>3, <1>6, <1>7, <1>8
<1>9. ASSUME Spares(ms, k), Grows(ms, k) PROVE Kept' /\ Merciful(ms, ms')
  <2>1. Merciful(ms, k)
    BY <1>1, <1>3, <1>5, <1>9, LeavingIsMerciful
  <2>2. Reasonable(rules) => k.fault = "none" /\ Ample(k)
    BY <1>3, <1>9 DEF Spares
  <2> QED BY <2>1, <2>2, <1>6, <1>7
<1>10. CASE UNCHANGED vars
  <2>1. k = ms
    BY <1>4, <1>10 DEF vars
  <2> QED BY <2>1, <1>8
<1>11. ASSUME NEW n \in Node, register_node(n) PROVE Kept' /\ Merciful(ms, ms')
  <2>1. k = ms
    BY <1>4, <1>11 DEF register_node
  <2> QED BY <2>1, <1>8
<1>12. ASSUME NEW n \in Node, unregister_node(n) PROVE Kept' /\ Merciful(ms, ms')
  <2>1. PICK slots \in SetToSeqs({c \in Cursor : ms.cursors[c].node_id = n}) :
          ms' = AllLeft(ms, n, slots)
    BY <1>12 DEF unregister_node
  <2>2. k = AllLeft(ms, n, slots)
    BY <1>4, <2>1
  <2>3. Spares(ms, k) /\ Grows(ms, k)
    BY <1>1, <1>2, <2>2, AllLeftSpares
  <2> QED BY <2>3, <1>9
<1>13. ASSUME NEW a \in Ask, add_cursor(a[1], a[2], a[3])
       PROVE  Kept' /\ Merciful(ms, ms')
  <2>1. PICK n \in Node, c \in Cursor, t \in Team : n = a[1] /\ c = a[2] /\ t = a[3]
    BY GameStateAssumption
  <2>2. /\ ms.cursors[c] = Free /\ RealColor(n, t) # NO_TEAM
        /\ ms' = cursor_enable(add_team(RealColor(n, t)), n, c, RealColor(n, t))
    BY <1>13, <2>1 DEF add_cursor
  <2>3. PICK q \in Team : q = RealColor(n, t)
    BY <2>2, RealColorIs
  <2>4. k = cursor_enable(add_team(q), n, c, q)
    BY <1>4, <2>2, <2>3
  <2>5. /\ Enabled(ms) \subseteq Enabled(k)
        /\ Reasonable(rules) /\ ms.fault = "none" /\ Ample(ms)
             => k.fault = "none" /\ Ample(k) /\ Spared(ms, k)
    BY <1>1, <1>2, <2>2, <2>4, AddCursorSpares
  <2>6. Reasonable(rules) => \A i \in Team : Alive(ms, i) /\ Led(k, i) => Alive(k, i)
    BY <2>5, <1>3 DEF Spared
  <2>7. Merciful(ms, k)
    BY <2>5, <2>6, <1>1, <1>5, StayingIsMerciful
  <2> QED BY <2>5, <2>7, <1>3, <1>6, <1>7
<1>14. ASSUME NEW a \in Ask, remove_cursor(a[1], a[2])
       PROVE  Kept' /\ Merciful(ms, ms')
  <2>1. PICK n \in Node, c \in Cursor : n = a[1] /\ c = a[2]
    BY GameStateAssumption
  <2>2. k = Left(ms, n, c)
    BY <1>4, <1>14, <2>1 DEF remove_cursor
  <2>3. Spares(ms, k) /\ Grows(ms, k)
    BY <1>1, <1>2, <2>2, LeftSpares
  <2> QED BY <2>3, <1>9
<1>15. ASSUME do_round PROVE Kept' /\ (UNCHANGED clock => Merciful(ms, ms'))
  <2>1. PICK m : /\ Sound(m, rules) /\ m.cursors = ms.cursors /\ m.fault = ms.fault
                 /\ over => m = ms
                 /\ Ample(ms) <=> Ample(m)
                 /\ Spares(m, k)
                 /\ IF rules.respawn_team THEN k.cursors = m.cursors ELSE Grows(m, k)
    BY <1>4, <1>15, RoundSpares
  <2>2. Reasonable(rules) => k.fault = "none" /\ Ample(k)
    BY <1>3, <2>1 DEF Spares
  <2>3. ASSUME UNCHANGED clock PROVE over
    <3>1. rounds' = rounds /\ over' = over
      BY <2>3 DEF clock
    <3>2. rounds' = IF over' THEN rounds ELSE rounds + 1
      BY <1>15 DEF do_round
    <3>3. rounds \in Int
      <4>1. rounds \in 0 .. total_rounds
        BY DEF Inv, TypeOK
      <4> QED BY <4>1
    <3>4. over' \in BOOLEAN
      BY <1>15 DEF do_round
    <3>5. over'
      BY <3>1, <3>2, <3>3, <3>4
    <3> QED BY <3>1, <3>5
  <2>4. ASSUME UNCHANGED clock PROVE Merciful(ms, ms')
    <3>1. m = ms
      BY <2>1, <2>3, <2>4
    <3>2. Spares(ms, k)
      BY <2>1, <3>1
    <3>3. CASE rules.respawn_team
      <4>1. k.cursors = ms.cursors
        BY <2>1, <3>3
      <4>2. Enabled(ms) \subseteq Enabled(k)
        BY <4>1 DEF Enabled
      <4>3. Reasonable(rules) => \A t \in Team : Alive(ms, t) /\ Led(k, t) => Alive(k, t)
        BY <3>2, <1>3 DEF Spares
      <4>4. Merciful(ms, k)
        BY <4>2, <4>3, <1>1, <1>5, StayingIsMerciful
      <4> QED BY <4>4, <1>7
    <3>4. CASE ~rules.respawn_team
      <4>1. Grows(ms, k)
        BY <2>1, <3>1, <3>4
      <4> QED BY <4>1, <3>2, <1>9
    <3> QED BY <3>3, <3>4
  <2> QED BY <2>2, <2>4, <1>6
<1>16. CASE Next
  BY <1>11, <1>12, <1>13, <1>14, <1>15, <1>16 DEF Next
<1> QED BY <1>10, <1>16

\* Under rules that ask for nothing excessive no loop is endless and nothing is
\* divided by zero, whoever comes, goes, fights, dies and returns.
THEOREM BattleNeverFails == Spec => []NoFault
<1>1. Init => Inv /\ Kept
  BY InitEstablishes, InitKept
<1>2. Inv /\ Kept /\ [Next]_vars => (Inv /\ Kept)'
  BY NextKeeps, NextSpares
<1>3. Kept => NoFault
  BY DEF Kept, NoFault
<1> QED BY <1>1, <1>2, <1>3, PTL DEF Spec

\* Nobody dies of a command: neither those who make room for a team that comes
\* nor, under any rules, those who stay when somebody leaves, who lose nothing.
THEOREM NobodyDiesOfCommands == Spec => CommandsKillNobody
<1>1. Init => Inv /\ Kept
  BY InitEstablishes, InitKept
<1>2. Inv /\ Kept /\ [Next]_vars => (Inv /\ Kept)'
  BY NextKeeps, NextSpares
<1>3. ASSUME Inv, Kept, [Next]_vars
      PROVE  UNCHANGED clock =>
        /\ Reasonable(rules) =>
            \A t \in Team : Alive(ms, t) /\ Led(ms', t) => Alive(ms', t)
        /\ Cardinality(Enabled(ms')) < Cardinality(Enabled(ms)) /\ ms'.fault = "none" =>
            \A t \in Team : Led(ms', t) =>
                ms'.fighters_per_team[t] >= ms.fighters_per_team[t]
  BY <1>3, NextSpares DEF Merciful
<1> QED BY <1>1, <1>2, <1>3, PTL DEF Spec, CommandsKillNobody
=============================================================================
