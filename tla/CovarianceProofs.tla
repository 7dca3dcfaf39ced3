--------------------------- MODULE CovarianceProofs ---------------------------
(***************************************************************************)
(* The layout of the covariance is correct for every set of calibration      *)
(* variables, clones and features: each operation of StateHelper keeps a     *)
(* good layout good, and a handler only ever composes such operations.       *)
(***************************************************************************)
EXTENDS Covariance, TLAPS

\* The form of a layout, with the IMU at its head.
Form(L) ==
    /\ L = [vars |-> L.vars, id |-> L.id, rows |-> L.rows, cov |-> L.cov]
    /\ L.vars \subseteq Variables
    /\ Imu \in L.vars
    /\ L.rows \in Nat
    /\ L.id \in [Variables -> Int]
    /\ L.cov \in [Rows(L.rows) -> SUBSET (Variables \X Nat)]
    /\ L.id[Imu] = 0
    /\ \A v \in Variables \ L.vars : L.id[v] = -1

Good(L) == Form(L) /\ Inside(L) /\ Apart(L) /\ Covered(L) /\ About(L)

\* Rows that may be appended for the variable v.
Fitting(v, new) ==
    /\ new \in [Rows(Dim[v]) -> SUBSET (Variables \X Nat)]
    /\ \A k \in Rows(Dim[v]) : <<v, k>> \in new[k] /\ new[k] \subseteq Expected(v, k)

\* Every variable has rows, the IMU, the clones and the transformation as many as the
\* handlers assume.
LEMMA Dimensions ==
    /\ \A v \in Variables : Dim[v] \in Nat /\ Dim[v] > 0
    /\ Dim[Imu] = 15 /\ Dim[Trans] = 4
    /\ \A c \in Clones : Dim[c] = 6
<1>1. Dim[Imu] = 15 /\ Dim[Trans] = 4
  BY VariablesAssumption DEF Dim, Variables
<1>2. ASSUME NEW c \in Clones PROVE Dim[c] = 6
  BY VariablesAssumption DEF Dim, Variables, PoseDim
<1>3. ASSUME NEW v \in Variables PROVE Dim[v] \in Nat /\ Dim[v] > 0
  <2>1. CASE v \in CalibVars
    BY <2>1, VariablesAssumption DEF Dim, Variables
  <2>2. CASE v \in Clones
    BY <2>2, <1>2
  <2>3. CASE v \in {Imu, Trans}
    BY <2>3, <1>1
  <2>4. CASE v \in Landmarks
    BY <2>4, VariablesAssumption DEF Dim, Variables
  <2>5. QED
    BY <1>3, <2>1, <2>2, <2>3, <2>4 DEF Variables
<1>4. QED
  BY <1>1, <1>2, <1>3

\* The rows an estimator computes fit.
LEMMA ComputedFits ==
    ASSUME NEW v \in Variables PROVE Fitting(v, Computed(v))
<1>1. Dim[v] \in Nat
  BY Dimensions
<1>2. Computed(v) \in [Rows(Dim[v]) -> SUBSET (Variables \X Nat)]
  BY <1>1 DEF Computed, Rows
<1>3. QED
  BY <1>2 DEF Fitting, Computed, Expected

\* StateHelper::clone: what lies at the IMU's id is the IMU's pose, so the copy fits.
LEMMA CopiedFits ==
    ASSUME NEW L, Good(L), NEW c \in Clones PROVE Fitting(c, Copied(L, c))
<1>1. /\ c \in Variables /\ Imu \in Variables
      /\ Dim[c] = 6 /\ Dim[Imu] = 15
  BY Dimensions DEF Variables
<1>2. ASSUME NEW k \in Rows(6)
      PROVE  L.cov[L.id[Imu] + k] = {<<Imu, k>>}
  <2>1. k \in Rows(Dim[Imu]) /\ Imu \in L.vars
    BY <1>1 DEF Rows, Good, Form
  <2>2. Imu \notin Clones
    BY VariablesAssumption
  <2>3. QED
    BY <2>1, <2>2 DEF Good, About, Expected
<1>3. ASSUME NEW k \in Rows(6)
      PROVE  Copied(L, c)[k] = {<<c, k>>}
  BY <1>2 DEF Copied, PoseDim
<1>4. Copied(L, c) = [k \in Rows(6) |-> Copied(L, c)[k]]
  BY DEF Copied, PoseDim
<1>5. \A k \in Rows(6) : Copied(L, c)[k] \in SUBSET (Variables \X Nat)
  BY <1>1, <1>3 DEF Rows
<1>6. QED
  BY <1>1, <1>3, <1>4, <1>5 DEF Fitting, Expected

\* A variable appended at the end of the covariance.
LEMMA PushedGood ==
    ASSUME NEW L, Good(L), NEW v \in Variables \ L.vars, NEW new, Fitting(v, new)
    PROVE  /\ Good(Pushed(L, v, new))
           /\ Pushed(L, v, new).vars = L.vars \cup {v}
           /\ Pushed(L, v, new).id[v] + Dim[v] = Pushed(L, v, new).rows
<1> DEFINE P == Pushed(L, v, new)
<1>1. /\ P = [vars |-> P.vars, id |-> P.id, rows |-> P.rows, cov |-> P.cov]
      /\ P.vars = L.vars \cup {v}
      /\ P.id = [L.id EXCEPT ![v] = L.rows]
      /\ P.rows = L.rows + Dim[v]
      /\ P.cov = [i \in Rows(P.rows) |-> IF i < L.rows THEN L.cov[i] ELSE new[i - L.rows]]
  BY DEF Pushed
<1> HIDE DEF P
<1>2. /\ L.vars \subseteq Variables /\ Imu \in L.vars /\ L.rows \in Nat
      /\ L.id \in [Variables -> Int]
      /\ L.cov \in [Rows(L.rows) -> SUBSET (Variables \X Nat)]
      /\ L.id[Imu] = 0
      /\ \A u \in Variables \ L.vars : L.id[u] = -1
  BY DEF Good, Form
<1>3. \A u \in Variables : Dim[u] \in Nat /\ Dim[u] > 0
  BY Dimensions
<1>4. /\ \A u \in L.vars : u # v /\ P.id[u] = L.id[u]
      /\ P.id[v] = L.rows
  BY <1>1, <1>2
<1>5. /\ P.rows \in Nat
      /\ \A i \in Rows(L.rows) : i \in Rows(P.rows) /\ P.cov[i] = L.cov[i]
      /\ \A k \in Rows(Dim[v]) : L.rows + k \in Rows(P.rows) /\ P.cov[L.rows + k] = new[k]
  BY <1>1, <1>2, <1>3 DEF Rows
<1>6. Form(P)
  <2>1. P.cov \in [Rows(P.rows) -> SUBSET (Variables \X Nat)]
    <3>1. ASSUME NEW i \in Rows(P.rows)
          PROVE  (IF i < L.rows THEN L.cov[i] ELSE new[i - L.rows]) \in SUBSET (Variables \X Nat)
      <4>1. CASE i < L.rows
        BY <4>1, <1>2 DEF Rows
      <4>2. CASE ~ (i < L.rows)
        <5>1. i - L.rows \in Rows(Dim[v])
          BY <4>2, <1>1, <1>2, <1>3 DEF Rows
        <5>2. new \in [Rows(Dim[v]) -> SUBSET (Variables \X Nat)]
          BY DEF Fitting
        <5>3. QED
          BY <4>2, <5>1, <5>2
      <4>3. QED
        BY <4>1, <4>2
    <3>2. QED
      BY <3>1, <1>1
  <2>2. P.id \in [Variables -> Int]
    BY <1>1, <1>2
  <2>3. \A u \in Variables \ P.vars : P.id[u] = -1
    BY <1>1, <1>2
  <2>4. QED
    BY <1>1, <1>2, <1>4, <1>5, <2>1, <2>2, <2>3 DEF Form
<1>7. Inside(P)
  BY <1>1, <1>2, <1>3, <1>4 DEF Inside, Good
<1>8. Apart(P)
  <2>1. \A u \in L.vars : P.id[u] + Dim[u] <= P.id[v]
    BY <1>2, <1>3, <1>4 DEF Good, Inside
  <2>2. \A u, w \in L.vars : u # w => \/ P.id[u] + Dim[u] <= P.id[w]
                                     \/ P.id[w] + Dim[w] <= P.id[u]
    BY <1>4 DEF Good, Apart
  <2>3. QED
    BY <1>1, <2>1, <2>2 DEF Apart
<1>9. Covered(P)
  <2>1. ASSUME NEW i \in Rows(P.rows)
        PROVE  \E u \in P.vars : P.id[u] <= i /\ i < P.id[u] + Dim[u]
    <3>1. CASE i < L.rows
      <4>1. i \in Rows(L.rows)
        BY <3>1, <1>1, <1>2, <1>3 DEF Rows
      <4>2. PICK u \in L.vars : L.id[u] <= i /\ i < L.id[u] + Dim[u]
        BY <4>1 DEF Good, Covered
      <4>3. QED
        BY <4>2, <1>1, <1>4
    <3>2. CASE ~ (i < L.rows)
      BY <3>2, <1>1, <1>2, <1>3, <1>4 DEF Rows
    <3>3. QED
      BY <3>1, <3>2
  <2>2. QED
    BY <2>1 DEF Covered
<1>10. About(P)
  <2>1. ASSUME NEW u \in P.vars, NEW k \in Rows(Dim[u])
        PROVE  /\ <<u, k>> \in P.cov[P.id[u] + k]
               /\ P.cov[P.id[u] + k] \subseteq Expected(u, k)
    <3>1. CASE u = v
      BY <3>1, <1>4, <1>5 DEF Fitting
    <3>2. CASE u \in L.vars
      <4>1. L.id[u] + k \in Rows(L.rows)
        BY <3>2, <1>2, <1>3 DEF Good, Inside, Rows
      <4>2. P.cov[P.id[u] + k] = L.cov[L.id[u] + k]
        BY <3>2, <4>1, <1>4, <1>5
      <4>3. QED
        BY <3>2, <4>2 DEF Good, About
    <3>3. QED
      BY <3>1, <3>2, <1>1
  <2>2. QED
    BY <2>1 DEF About
<1>11. P.id[v] + Dim[v] = P.rows
  BY <1>1, <1>4
<1>12. QED
  BY <1>1, <1>6, <1>7, <1>8, <1>9, <1>10, <1>11 DEF P, Good

\* A variable other than the IMU taken out: the ids beyond move by as many rows as leave.
LEMMA MarginalizedGood ==
    ASSUME NEW L, Good(L), NEW m \in L.vars, m # Imu
    PROVE  /\ Good(Marginalized(L, m))
           /\ Marginalized(L, m).vars = L.vars \ {m}
<1> DEFINE M == Marginalized(L, m)
<1>1. /\ M = [vars |-> M.vars, id |-> M.id, rows |-> M.rows, cov |-> M.cov]
      /\ M.vars = L.vars \ {m}
      /\ M.id = [v \in Variables |->
                   IF v = m THEN -1
                   ELSE IF v \in L.vars /\ L.id[v] > L.id[m] THEN L.id[v] - Dim[m]
                   ELSE L.id[v]]
      /\ M.rows = L.rows - Dim[m]
      /\ M.cov = [i \in Rows(M.rows) |-> IF i < L.id[m] THEN L.cov[i] ELSE L.cov[i + Dim[m]]]
  BY DEF Marginalized
<1> HIDE DEF M
<1>2. /\ L.vars \subseteq Variables /\ Imu \in L.vars /\ L.rows \in Nat
      /\ L.id \in [Variables -> Int]
      /\ L.cov \in [Rows(L.rows) -> SUBSET (Variables \X Nat)]
      /\ L.id[Imu] = 0
      /\ \A u \in Variables \ L.vars : L.id[u] = -1
  BY DEF Good, Form
<1>3. \A u \in Variables : Dim[u] \in Nat /\ Dim[u] > 0
  BY Dimensions
<1>4. /\ m \in Variables /\ L.id[m] \in Nat /\ L.id[m] + Dim[m] <= L.rows
      /\ M.rows \in Nat
  BY <1>1, <1>2, <1>3 DEF Good, Inside
\* Each other variable lies before or behind the one that leaves.
<1>5. ASSUME NEW u \in M.vars
      PROVE  /\ u \in L.vars /\ u \in Variables /\ u # m
             /\ L.id[u] \in Nat /\ Dim[u] \in Nat /\ Dim[u] > 0
             /\ L.id[u] + Dim[u] <= L.rows
             /\ \/ L.id[u] + Dim[u] <= L.id[m] /\ M.id[u] = L.id[u]
                \/ L.id[u] >= L.id[m] + Dim[m] /\ M.id[u] = L.id[u] - Dim[m]
  <2>1. u \in L.vars /\ u \in Variables /\ u # m
    BY <1>1, <1>2
  <2>2. /\ L.id[u] \in Nat /\ Dim[u] \in Nat /\ Dim[u] > 0
        /\ L.id[u] + Dim[u] <= L.rows
    BY <2>1, <1>2, <1>3 DEF Good, Inside
  <2>3. L.id[u] + Dim[u] <= L.id[m] \/ L.id[m] + Dim[m] <= L.id[u]
    BY <2>1 DEF Good, Apart
  <2>4. M.id[u] = IF L.id[u] > L.id[m] THEN L.id[u] - Dim[m] ELSE L.id[u]
    BY <2>1, <1>1
  <2>5. QED
    BY <2>1, <2>2, <2>3, <2>4, <1>3, <1>4
<1>6. /\ \A i \in Rows(M.rows) : i < L.id[m] => i \in Rows(L.rows) /\ M.cov[i] = L.cov[i]
      /\ \A i \in Rows(M.rows) : i >= L.id[m] => /\ i + Dim[m] \in Rows(L.rows)
                                               /\ M.cov[i] = L.cov[i + Dim[m]]
  <2>1. Dim[m] \in Nat
    BY <1>3, <1>4
  <2>2. ASSUME NEW i \in Rows(M.rows)
        PROVE  /\ M.cov[i] = IF i < L.id[m] THEN L.cov[i] ELSE L.cov[i + Dim[m]]
               /\ i \in Nat /\ i + Dim[m] < L.rows
    BY <2>1, <1>1, <1>2, <1>4 DEF Rows
  <2>3. \A i \in Nat : i + Dim[m] < L.rows => i \in Rows(L.rows) /\ i + Dim[m] \in Rows(L.rows)
    BY <2>1, <1>2 DEF Rows
  <2>4. QED
    BY <2>2, <2>3, <1>4
<1>7. Form(M)
  <2>1. M.cov \in [Rows(M.rows) -> SUBSET (Variables \X Nat)]
    <3>1. \A i \in Rows(M.rows) : M.cov[i] \in SUBSET (Variables \X Nat)
      <4>1. ASSUME NEW i \in Rows(M.rows) PROVE M.cov[i] \in SUBSET (Variables \X Nat)
        <5>1. CASE i < L.id[m]
          BY <5>1, <1>2, <1>6
        <5>2. CASE i >= L.id[m]
          BY <5>2, <1>2, <1>6
        <5>3. QED
          BY <5>1, <5>2, <1>4 DEF Rows
      <4>2. QED
        BY <4>1
    <3>2. QED
      BY <3>1, <1>1
  <2>2. M.id \in [Variables -> Int]
    BY <1>1, <1>2, <1>3, <1>4
  <2>3. \A u \in Variables \ M.vars : M.id[u] = -1
    BY <1>1, <1>2
  <2>4. Imu \in M.vars /\ M.id[Imu] = 0
    <3>1. Imu \in M.vars
      BY <1>1, <1>2
    <3>2. QED
      BY <3>1, <1>2, <1>3, <1>4, <1>5
  <2>5. QED
    BY <1>1, <1>2, <1>4, <2>1, <2>2, <2>3, <2>4 DEF Form
<1>8. Inside(M)
  <2>1. ASSUME NEW u \in M.vars PROVE M.id[u] >= 0 /\ M.id[u] + Dim[u] <= M.rows
    <3>1. Dim[m] \in Nat /\ M.rows = L.rows - Dim[m]
      BY <1>1, <1>3, <1>4
    <3>2. QED
      BY <3>1, <1>2, <1>4, <1>5
  <2>2. QED
    BY <2>1 DEF Inside
<1>9. Apart(M)
  <2>1. ASSUME NEW u \in M.vars, NEW w \in M.vars, u # w
        PROVE  M.id[u] + Dim[u] <= M.id[w] \/ M.id[w] + Dim[w] <= M.id[u]
    <3>1. L.id[u] + Dim[u] <= L.id[w] \/ L.id[w] + Dim[w] <= L.id[u]
      BY <2>1, <1>5 DEF Good, Apart
    <3>2. QED
      BY <3>1, <1>3, <1>4, <1>5
  <2>2. QED
    BY <2>1 DEF Apart
<1>10. Covered(M)
  <2>1. ASSUME NEW i \in Rows(M.rows)
        PROVE  \E u \in M.vars : M.id[u] <= i /\ i < M.id[u] + Dim[u]
    <3> DEFINE old == IF i < L.id[m] THEN i ELSE i + Dim[m]
    <3>1. old \in Rows(L.rows) /\ i \in Nat
      BY <1>4, <1>6 DEF Rows
    <3>2. PICK u \in L.vars : L.id[u] <= old /\ old < L.id[u] + Dim[u]
      BY <3>1 DEF Good, Covered
    <3>3. u \in M.vars
      BY <3>1, <3>2, <1>1, <1>3, <1>4
    <3>4. M.id[u] <= i /\ i < M.id[u] + Dim[u]
      BY <3>1, <3>2, <3>3, <1>3, <1>4, <1>5
    <3>5. QED
      BY <3>3, <3>4
  <2>2. QED
    BY <2>1 DEF Covered
<1>11. About(M)
  <2>1. ASSUME NEW u \in M.vars, NEW k \in Rows(Dim[u])
        PROVE  /\ <<u, k>> \in M.cov[M.id[u] + k]
               /\ M.cov[M.id[u] + k] \subseteq Expected(u, k)
    <3>1. k \in Nat /\ k < Dim[u]
      BY <1>5 DEF Rows
    <3>2. M.id[u] + k \in Rows(M.rows)
      BY <3>1, <1>8, <1>4, <1>5, <1>3 DEF Inside, Rows
    <3>3. M.cov[M.id[u] + k] = L.cov[L.id[u] + k]
      <4>1. CASE L.id[u] + Dim[u] <= L.id[m] /\ M.id[u] = L.id[u]
        BY <4>1, <3>1, <3>2, <1>4, <1>5, <1>6
      <4>2. CASE L.id[u] >= L.id[m] + Dim[m] /\ M.id[u] = L.id[u] - Dim[m]
        <5>1. M.id[u] + k >= L.id[m] /\ M.id[u] + k + Dim[m] = L.id[u] + k
          BY <4>2, <3>1, <1>3, <1>4, <1>5
        <5>2. QED
          BY <5>1, <3>2, <1>6
      <4>3. QED
        BY <4>1, <4>2, <1>5
    <3>4. QED
      BY <3>3, <1>5 DEF Good, About
  <2>2. QED
    BY <2>1 DEF About
<1>12. QED
  BY <1>1, <1>7, <1>8, <1>9, <1>10, <1>11 DEF M, Good

\* variables.back() after a push_back is the variable just added.
LEMMA BackIsNew ==
    ASSUME NEW L, Good(L), NEW v \in Variables \ L.vars, NEW new, Fitting(v, new)
    PROVE  Back(Pushed(L, v, new)) = v
<1> DEFINE P == Pushed(L, v, new)
<1>1. /\ P.vars = L.vars \cup {v}
      /\ P.id = [L.id EXCEPT ![v] = L.rows]
  BY DEF Pushed
<1>2. /\ L.vars \subseteq Variables /\ L.rows \in Nat /\ L.id \in [Variables -> Int]
  BY DEF Good, Form
<1>3. \A w \in L.vars : w # v /\ P.id[w] < L.rows
  <2>1. \A w \in L.vars : w # v /\ P.id[w] = L.id[w]
    BY <1>1, <1>2
  <2>2. \A w \in L.vars : L.id[w] < L.rows
    BY <1>2, Dimensions DEF Good, Inside
  <2>3. QED
    BY <2>1, <2>2
<1>4. P.id[v] = L.rows
  BY <1>1, <1>2
<1>5. v \in P.vars /\ \A w \in P.vars : P.id[w] <= P.id[v]
  <2>1. \A w \in L.vars : P.id[w] \in Int
    BY <1>1, <1>2
  <2>2. QED
    BY <2>1, <1>1, <1>2, <1>3, <1>4
<1>6. \A u \in P.vars : (\A w \in P.vars : P.id[w] <= P.id[u]) => u = v
  <2>1. ASSUME NEW u \in P.vars, \A w \in P.vars : P.id[w] <= P.id[u], u # v
        PROVE  FALSE
    <3>1. u \in L.vars /\ v \in P.vars
      BY <2>1, <1>1
    <3>2. P.id[u] < L.rows /\ L.rows <= P.id[u] /\ P.id[u] \in Int
      BY <3>1, <2>1, <1>1, <1>2, <1>3, <1>4
    <3>3. QED
      BY <3>2, <1>2
  <2>2. QED
    BY <2>1
<1> HIDE DEF P
<1>7. Back(P) = v
  BY <1>5, <1>6 DEF Back
<1>8. QED
  BY <1>7 DEF P

\* What was added and is taken back leaves no trace.
LEMMA RevertedSame ==
    ASSUME NEW L, Good(L), NEW v \in Variables \ L.vars
    PROVE  Reverted(L, v) = L
<1> DEFINE P == Pushed(L, v, Computed(v))
           M == Marginalized(P, v)
<1>1. Reverted(L, v) = M
  BY BackIsNew, ComputedFits DEF Reverted
<1>2. /\ P.vars = L.vars \cup {v}
      /\ P.id = [L.id EXCEPT ![v] = L.rows]
      /\ P.rows = L.rows + Dim[v]
      /\ \A i \in Rows(L.rows + Dim[v]) : i < L.rows => P.cov[i] = L.cov[i]
  BY DEF Pushed
<1>3. /\ L.vars \subseteq Variables /\ L.rows \in Nat /\ L.id \in [Variables -> Int]
      /\ L.cov \in [Rows(L.rows) -> SUBSET (Variables \X Nat)]
      /\ L.id[v] = -1 /\ Dim[v] \in Nat
      /\ L = [vars |-> L.vars, id |-> L.id, rows |-> L.rows, cov |-> L.cov]
  BY Dimensions DEF Good, Form
<1> HIDE DEF P
<1>4. /\ M = [vars |-> M.vars, id |-> M.id, rows |-> M.rows, cov |-> M.cov]
      /\ M.vars = P.vars \ {v}
      /\ M.id = [u \in Variables |->
                   IF u = v THEN -1
                   ELSE IF u \in P.vars /\ P.id[u] > P.id[v] THEN P.id[u] - Dim[v]
                   ELSE P.id[u]]
      /\ M.rows = P.rows - Dim[v]
      /\ M.cov = [i \in Rows(M.rows) |-> IF i < P.id[v] THEN P.cov[i] ELSE P.cov[i + Dim[v]]]
  BY DEF Marginalized
<1> HIDE DEF M
<1>5. M.vars = L.vars /\ M.rows = L.rows
  BY <1>2, <1>3, <1>4
<1>6. M.id = L.id
  <2>1. ASSUME NEW u \in Variables PROVE M.id[u] = L.id[u]
    <3>1. CASE u = v
      BY <3>1, <1>3, <1>4
    <3>2. CASE u \in L.vars /\ u # v
      <4>1. P.id[u] = L.id[u] /\ P.id[v] = L.rows /\ L.id[u] \in Int
        BY <3>2, <1>2, <1>3
      <4>2. ~ (L.id[u] > L.rows)
        BY <3>2, <4>1, <1>3, Dimensions DEF Good, Inside
      <4>3. QED
        BY <3>2, <4>1, <4>2, <1>4
    <3>3. CASE u \notin L.vars /\ u # v
      BY <3>3, <1>2, <1>3, <1>4
    <3>4. QED
      BY <3>1, <3>2, <3>3
  <2>2. QED
    BY <2>1, <1>3, <1>4
<1>7. M.cov = L.cov
  <2>1. P.id[v] = L.rows
    BY <1>2, <1>3
  <2>2. \A i \in Rows(L.rows) : i < L.rows /\ i \in Rows(L.rows + Dim[v])
    BY <1>3 DEF Rows
  <2>3. \A i \in Rows(L.rows) : M.cov[i] = L.cov[i]
    BY <2>1, <2>2, <1>2, <1>4, <1>5
  <2>4. QED
    BY <2>3, <1>3, <1>4, <1>5
<1>8. QED
  BY <1>1, <1>3, <1>4, <1>5, <1>6, <1>7

\* The change of frame: the transformation is the last variable, so the ids of all
\* others stay and the overwritten rows are theirs.
LEMMA TransformedGood ==
    ASSUME NEW L, Good(L), Trans \in L.vars, L.id[Trans] + 4 = L.rows,
           NEW C \in SUBSET Clones, C \subseteq L.vars
    PROVE  /\ Good(Transformed(L, {Imu} \cup C))
           /\ Transformed(L, {Imu} \cup C).vars = L.vars \ {Trans}
<1> DEFINE poses == {Imu} \cup C
           T == Transformed(L, poses)
           M == Marginalized(L, Trans)
           Combined(i) == UNION {L.cov[j] : j \in {i} \cup EnuTerms(L, poses, i)}
<1>1. Trans # Imu /\ Imu \notin Clones /\ Trans \notin Clones
  BY VariablesAssumption
<1>2. Good(M) /\ M.vars = L.vars \ {Trans} /\ M.rows = L.rows - 4
  <2>1. M.rows = L.rows - 4
    BY Dimensions DEF Marginalized
  <2>2. QED
    BY <2>1, <1>1, MarginalizedGood
<1>3. /\ T = [vars |-> M.vars, id |-> M.id, rows |-> M.rows, cov |-> T.cov]
      /\ T.vars = M.vars /\ T.id = M.id /\ T.rows = M.rows
      /\ T.cov = [i \in Rows(M.rows) |-> {e \in Combined(i) : e[1] # Trans}]
  <2>1. T = [M EXCEPT !.cov = [i \in Rows(L.rows - 4) |-> {e \in Combined(i) : e[1] # Trans}]]
    BY Dimensions DEF Transformed
  <2>2. M = [vars |-> M.vars, id |-> M.id, rows |-> M.rows, cov |-> M.cov]
    BY DEF Marginalized
  <2> HIDE DEF M, T, Combined
  <2>3. QED
    BY <2>1, <2>2, <1>2
<1>4. /\ L.vars \subseteq Variables /\ Imu \in L.vars /\ L.rows \in Nat
      /\ L.id \in [Variables -> Int] /\ L.id[Imu] = 0
      /\ \A u \in Variables : Dim[u] \in Nat /\ Dim[u] > 0
      /\ Dim[Trans] = 4 /\ Dim[Imu] = 15 /\ \A c \in Clones : Dim[c] = 6
      /\ Trans \in Variables
  BY Dimensions DEF Good, Form
<1>5. ASSUME NEW u \in M.vars
      PROVE  /\ u \in L.vars /\ u # Trans /\ M.id[u] = L.id[u] /\ L.id[u] \in Nat
             /\ L.id[u] + Dim[u] <= M.rows
  <2>1. u \in L.vars /\ u # Trans /\ L.id[u] \in Int /\ L.id[Trans] \in Int /\ u \in Variables
    BY <1>2, <1>4
  <2>2. L.id[u] >= 0 /\ L.id[u] + Dim[u] <= L.rows
    BY <2>1 DEF Good, Inside
  <2>3. L.id[u] + Dim[u] <= L.id[Trans] \/ L.id[Trans] + Dim[Trans] <= L.id[u]
    BY <2>1 DEF Good, Apart
  <2>4. L.id[u] + Dim[u] <= L.id[Trans]
    BY <2>1, <2>2, <2>3, <1>4
  <2>5. M.id[u] = IF L.id[u] > L.id[Trans] THEN L.id[u] - Dim[Trans] ELSE L.id[u]
    BY <2>1 DEF Marginalized
  <2>6. QED
    BY <2>1, <2>2, <2>4, <2>5, <1>2, <1>4
\* The rows the Jacobian adds to are about the transformation and the IMU's position.
<1>6. /\ \A n \in 0 .. 3 : L.cov[L.id[Trans] + n] = {<<Trans, n>>}
      /\ \A n \in 0 .. 14 : L.cov[n] = {<<Imu, n>>}
  <2>1. ASSUME NEW n \in 0 .. 3 PROVE L.cov[L.id[Trans] + n] = {<<Trans, n>>}
    <3>1. n \in Rows(Dim[Trans])
      BY <1>4 DEF Rows
    <3>2. QED
      BY <3>1, <1>1, ZenonT(60) DEF Good, About, Expected
  <2>2. ASSUME NEW n \in 0 .. 14 PROVE L.cov[n] = {<<Imu, n>>}
    <3>1. n \in Rows(Dim[Imu]) /\ L.id[Imu] + n = n
      BY <1>4 DEF Rows
    <3>2. L.cov[L.id[Imu] + n] = {<<Imu, n>>}
      BY <3>1, <1>1, <1>4 DEF Good, About, Expected
    <3>3. QED
      BY <3>1, <3>2
  <2>3. QED
    BY <2>1, <2>2
\* At a row of u the Jacobian adds rows of the transformation and, for a pose, of the
\* IMU's position only.
<1>7. ASSUME NEW u \in M.vars, NEW k \in Rows(Dim[u]), NEW j \in EnuTerms(L, poses, L.id[u] + k)
      PROVE  \/ \E n \in 0 .. 3 : j = L.id[Trans] + n
             \/ u \in poses /\ k \in 3 .. 5 /\ j = k
  <2>1. /\ u \in L.vars /\ L.id[u] \in Nat /\ u \in Variables
        /\ k \in Nat /\ k < Dim[u] /\ L.id[Trans] \in Int
    BY <1>2, <1>4, <1>5 DEF Rows
  <2>2. ASSUME NEW w \in poses, L.id[w] <= L.id[u] + k, L.id[u] + k < L.id[w] + PoseDim
        PROVE  w = u
    <3>1. /\ w \in L.vars /\ w \in Variables /\ L.id[w] \in Int
          /\ Dim[w] \in Nat /\ PoseDim <= Dim[w]
      BY <1>4 DEF PoseDim
    <3>2. L.id[u] + Dim[u] <= L.id[w] \/ L.id[w] + Dim[w] <= L.id[u] \/ w = u
      BY <2>1, <3>1 DEF Good, Apart
    <3>3. PoseDim \in Nat /\ Dim[u] \in Nat
      BY <2>1, <1>4 DEF PoseDim
    <3>4. QED
      BY <2>1, <2>2, <3>1, <3>2, <3>3
  <2>3. \/ u \in poses /\ k < PoseDim /\ j \in PoseTerms(L, u, (L.id[u] + k) - L.id[u])
        \/ j = L.id[Trans]
    BY <1>7, <2>1, <2>2 DEF EnuTerms, PoseDim
  <2>4. CASE j = L.id[Trans]
    BY <2>1, <2>4
  <2>5. CASE u \in poses /\ k < PoseDim /\ j \in PoseTerms(L, u, (L.id[u] + k) - L.id[u])
    <3>1. (L.id[u] + k) - L.id[u] = k /\ k \in 0 .. 5
      BY <2>1, <2>5 DEF PoseDim
    <3>2. j = L.id[Trans] \/ (k >= 3 /\ (j = L.id[Trans] + k - 2 \/ j = k))
      BY <2>5, <3>1 DEF PoseTerms
    <3>3. CASE k >= 3 /\ j = L.id[Trans] + k - 2
      <4>1. k - 2 \in 0 .. 3 /\ j = L.id[Trans] + (k - 2)
        BY <3>1, <3>3, <2>1
      <4>2. QED
        BY <4>1
    <3>4. CASE k >= 3 /\ j = k
      BY <2>5, <3>1, <3>4
    <3>5. QED
      BY <3>2, <3>3, <3>4, <2>4
  <2>6. QED
    BY <2>3, <2>4, <2>5
<1>8. ASSUME NEW u \in M.vars, NEW k \in Rows(Dim[u])
      PROVE  /\ <<u, k>> \in T.cov[L.id[u] + k]
             /\ T.cov[L.id[u] + k] \subseteq Expected(u, k)
  <2> DEFINE i == L.id[u] + k
  <2>1. /\ i \in Rows(M.rows) /\ u \in L.vars /\ u # Trans
    <3>1. k \in Nat /\ k < Dim[u] /\ L.id[u] \in Nat /\ L.id[u] + Dim[u] <= M.rows
          /\ Dim[u] \in Nat /\ M.rows \in Int
      BY <1>2, <1>4, <1>5 DEF Rows
    <3>2. QED
      BY <3>1, <1>5 DEF Rows
  <2>2. <<u, k>> \in L.cov[i] /\ L.cov[i] \subseteq Expected(u, k)
    BY <2>1 DEF Good, About
  <2>3. T.cov[i] = {e \in Combined(i) : e[1] # Trans}
    BY <2>1, <1>3
  <2>4. ASSUME NEW e \in Combined(i), e[1] # Trans
        PROVE  e \in Expected(u, k)
    <3>1. PICK j \in {i} \cup EnuTerms(L, poses, i) : e \in L.cov[j]
      OBVIOUS
    <3>2. CASE j = i
      BY <3>1, <3>2, <2>2
    <3>3. CASE j \in EnuTerms(L, poses, i)
      <4>1. CASE \E n \in 0 .. 3 : j = L.id[Trans] + n
        BY <4>1, <3>1, <2>4, <1>6
      <4>2. CASE u \in poses /\ k \in 3 .. 5 /\ j = k
        <5>1. e = <<Imu, k>>
          <6>1. k \in 0 .. 14
            BY <4>2
          <6>2. QED
            BY <6>1, <4>2, <3>1, <1>6
        <5>2. QED
          BY <5>1, <4>2 DEF Expected
      <4>3. QED
        BY <4>1, <4>2, <3>3, <1>7
    <3>4. QED
      BY <3>1, <3>2, <3>3
  <2>5. <<u, k>> \in Combined(i)
    BY <2>2
  <2> HIDE DEF i, T, M
  <2>6. <<u, k>> \in T.cov[i] /\ T.cov[i] \subseteq Expected(u, k)
    BY <2>1, <2>3, <2>4, <2>5
  <2>7. QED
    BY <2>6 DEF i
<1>9. T.cov \in [Rows(M.rows) -> SUBSET (Variables \X Nat)]
  <2>1. ASSUME NEW i \in Rows(M.rows)
        PROVE  {e \in Combined(i) : e[1] # Trans} \in SUBSET (Variables \X Nat)
    <3>1. i \in Nat /\ i < M.rows
      BY <1>2, <1>4 DEF Rows
    <3>2. PICK u \in M.vars : M.id[u] <= i /\ i < M.id[u] + Dim[u]
      BY <1>2 DEF Good, Covered
    <3>3. /\ L.id[u] \in Nat /\ u \in Variables /\ Dim[u] \in Nat /\ M.id[u] = L.id[u]
      BY <1>2, <1>4, <1>5
    <3>4. i - L.id[u] \in Rows(Dim[u]) /\ i = L.id[u] + (i - L.id[u]) /\ i - L.id[u] \in Nat
      BY <3>1, <3>2, <3>3 DEF Rows
    <3>5. T.cov[i] \subseteq Expected(u, i - L.id[u])
      BY <3>4, <1>8
    <3>6. Expected(u, i - L.id[u]) \subseteq Variables \X Nat
      <4>1. Imu \in Variables
        BY <1>4
      <4>2. QED
        BY <4>1, <3>3, <3>4 DEF Expected
    <3>7. T.cov[i] = {e \in Combined(i) : e[1] # Trans}
      BY <1>3
    <3>8. QED
      BY <3>5, <3>6, <3>7
  <2> HIDE DEF Combined
  <2>2. QED
    BY <2>1, <1>3
<1> HIDE DEF T, M
<1>10. Form(T) /\ Inside(T) /\ Apart(T) /\ Covered(T)
  BY <1>2, <1>3, <1>9 DEF Good, Form, Inside, Apart, Covered
<1>11. About(T)
  <2>1. \A u \in T.vars : u \in M.vars /\ T.id[u] = L.id[u]
    BY <1>3, <1>5
  <2>2. QED
    BY <2>1, <1>8 DEF About
<1>12. QED
  BY <1>2, <1>3, <1>10, <1>11 DEF T, M, Good
-----------------------------------------------------------------------------
\* While try_initialization runs, the transformation is the last variable: it has just
\* been added, and until transform_state_to_ENU takes it out nothing else is.
TransLast == doing \in {"gnss slam", "transform"} => layout.id[Trans] + 4 = layout.rows

\* The maps of State hold what they are for.
MapTypes ==
    /\ clones \subseteq Clones
    /\ slam \subseteq Landmarks
    /\ marked \subseteq slam
    /\ gnss \in BOOLEAN
    /\ built \in 0 .. Len(Calibrated)
    /\ doing \in Handlers

IInv == Good(layout) /\ MapTypes /\ MapsMatch /\ TransLast

\* Another variable leaves before the transformation, which stays last.
LEMMA StaysLast ==
    ASSUME NEW L, Good(L), Trans \in L.vars, L.id[Trans] + 4 = L.rows,
           NEW m \in L.vars, m # Trans
    PROVE  Marginalized(L, m).id[Trans] + 4 = Marginalized(L, m).rows
<1>1. /\ m \in Variables /\ Trans \in Variables /\ L.id[m] \in Int /\ L.id[Trans] \in Int
      /\ Dim[m] \in Nat /\ Dim[m] > 0 /\ Dim[Trans] = 4 /\ L.rows \in Nat
  BY Dimensions DEF Good, Form
<1>2. L.id[m] + Dim[m] <= L.rows
  BY DEF Good, Inside
<1>3. L.id[m] + Dim[m] <= L.id[Trans] \/ L.id[Trans] + Dim[Trans] <= L.id[m]
  BY DEF Good, Apart
<1>4. L.id[Trans] > L.id[m]
  BY <1>1, <1>2, <1>3
<1>5. /\ Marginalized(L, m).id[Trans] = L.id[Trans] - Dim[m]
      /\ Marginalized(L, m).rows = L.rows - Dim[m]
  BY <1>1, <1>4 DEF Marginalized
<1>6. QED
  BY <1>1, <1>5

\* The constructor starts with the IMU alone.
LEMMA InitGood == Init => IInv
<1> SUFFICES ASSUME Init PROVE IInv
  OBVIOUS
<1>1. /\ layout = [vars |-> layout.vars, id |-> layout.id, rows |-> layout.rows, cov |-> layout.cov]
      /\ layout.vars = {Imu} /\ layout.rows = 15
      /\ layout.id = [v \in Variables |-> IF v = Imu THEN 0 ELSE -1]
      /\ layout.cov = Computed(Imu)
      /\ Imu \in Variables /\ Dim[Imu] = 15
  BY Dimensions DEF Init, Variables
<1>2. Fitting(Imu, Computed(Imu))
  BY <1>1, ComputedFits
<1>3. layout.id[Imu] = 0 /\ \A v \in Variables : v # Imu => layout.id[v] = -1
  BY <1>1
<1>4. Form(layout)
  BY <1>1, <1>2, <1>3 DEF Form, Fitting
<1>5. Inside(layout) /\ Apart(layout)
  BY <1>1, <1>3 DEF Inside, Apart
<1>6. Covered(layout)
  BY <1>1, <1>3 DEF Covered, Rows
<1>7. About(layout)
  <2>1. \A k \in Rows(15) : k \in Int /\ 0 + k = k
    BY DEF Rows
  <2>2. QED
    BY <2>1, <1>1, <1>2, <1>3 DEF About, Fitting
<1>8. MapTypes
  <2>1. Len(Calibrated) \in Nat
    BY VariablesAssumption
  <2>2. built \in 0 .. Len(Calibrated)
    BY <2>1 DEF Init
  <2>3. gnss \in BOOLEAN
    BY DEF Init
  <2>4. QED
    BY <2>2, <2>3 DEF Init, MapTypes, Handlers
<1>9. MapsMatch /\ TransLast
  BY <1>1, <1>3 DEF Init, MapsMatch, TransLast
<1>10. QED
  BY <1>4, <1>5, <1>6, <1>7, <1>8, <1>9 DEF IInv, Good

\* What the maps of State are not about is no variable of the filter.
LEMMA Outside ==
    ASSUME IInv
    PROVE  /\ \A c \in Clones \ clones : c \notin layout.vars
           /\ \A f \in Landmarks \ slam : f \notin layout.vars
           /\ doing \notin {"gnss slam", "transform"} => Trans \notin layout.vars
           /\ clones \subseteq layout.vars /\ slam \subseteq layout.vars
           /\ doing \in {"gnss slam", "transform"} => Trans \in layout.vars
<1>1. \A i \in 1 .. built : Calibrated[i] \in CalibVars
  <2>1. Calibrated \in Seq(CalibVars) /\ built \in 0 .. Len(Calibrated)
    BY VariablesAssumption DEF IInv, MapTypes
  <2>2. QED
    BY <2>1
<1>2. \A v \in layout.vars :
         \/ v = Imu \/ v \in CalibVars \/ v \in clones \/ v \in slam
         \/ v = Trans /\ doing \in {"gnss slam", "transform"}
  BY <1>1 DEF IInv, MapsMatch
<1>3. clones \subseteq Clones /\ slam \subseteq Landmarks
  BY DEF IInv, MapTypes
<1>4. QED
  BY <1>2, <1>3, VariablesAssumption DEF IInv, MapsMatch

\* Every step keeps the layout good: it is made of the operations above.
LEMMA Inductive == IInv /\ [Next]_vars => IInv'
<1> SUFFICES ASSUME IInv, [Next]_vars PROVE IInv'
  OBVIOUS
<1>1. Good(layout) /\ MapTypes /\ MapsMatch /\ TransLast
  BY DEF IInv
<1>2. /\ clones \subseteq Clones /\ slam \subseteq Landmarks /\ marked \subseteq slam
      /\ gnss \in BOOLEAN /\ built \in 0 .. Len(Calibrated) /\ Len(Calibrated) \in Nat
      /\ layout.vars \subseteq Variables
      /\ Clones \subseteq Variables /\ Landmarks \subseteq Variables /\ Trans \in Variables
  BY <1>1, VariablesAssumption DEF MapTypes, Good, Form, Variables
<1>3. CASE AddCalibration
  <2> DEFINE v == Calibrated[built + 1]
  <2>1. /\ doing = "constructor" /\ built' = built + 1
        /\ layout' = Pushed(layout, v, Computed(v))
        /\ UNCHANGED <<clones, slam, marked, gnss, doing>>
        /\ built + 1 \in 1 .. Len(Calibrated) /\ built' \in 0 .. Len(Calibrated)
    BY <1>2, <1>3 DEF AddCalibration
  <2>2. v \in CalibVars /\ v \in Variables
    BY <2>1, VariablesAssumption DEF CalibVars, Variables
  <2>3. v \notin layout.vars
    <3>1. \A i \in 1 .. built : Calibrated[i] # v
      <4>1. \A i \in 1 .. built : /\ i \in DOMAIN Calibrated /\ i # built + 1
                                  /\ built + 1 \in DOMAIN Calibrated
        BY <1>2, <2>1, VariablesAssumption
      <4>2. QED
        BY <4>1, VariablesAssumption
    <3>2. v # Imu /\ v \notin clones /\ v \notin slam
      BY <2>2, <1>2, VariablesAssumption
    <3>3. QED
      BY <3>1, <3>2, <2>1, <1>1 DEF MapsMatch
  <2>4. Good(layout') /\ layout'.vars = layout.vars \cup {v}
    BY <2>1, <2>2, <2>3, <1>1, PushedGood, ComputedFits
  <2>5. {Calibrated[i] : i \in 1 .. built'} = {Calibrated[i] : i \in 1 .. built} \cup {v}
    <3>1. 1 .. built' = (1 .. built) \cup {built + 1}
      BY <2>1, <1>2
    <3>2. QED
      BY <3>1
  <2> HIDE DEF v
  <2>6. MapsMatch'
    <3>1. layout'.vars = {Imu} \cup {Calibrated[i] : i \in 1 .. built'} \cup clones' \cup slam'
      BY <2>1, <2>4, <2>5, <1>1 DEF MapsMatch
    <3>2. QED
      BY <3>1, <2>1, <2>4 DEF MapsMatch, Good, Form
  <2>7. QED
    BY <2>1, <2>4, <2>6, <1>1 DEF IInv, MapTypes, TransLast
<1>4. CASE Constructed
  BY <1>4, <1>1 DEF Constructed, IInv, MapTypes, MapsMatch, TransLast, Handlers
<1>5. ASSUME NEW c \in Clones, AugmentClone(c) PROVE IInv'
  <2>1. /\ layout' = Pushed(layout, c, Copied(layout, c)) /\ clones' = clones \cup {c}
        /\ doing = "idle" /\ doing' = "clones" /\ c \notin clones
        /\ UNCHANGED <<slam, marked, gnss, built>>
    BY <1>5 DEF AugmentClone
  <2>2. c \in Variables \ layout.vars
    BY <2>1, <1>2, <1>5, Outside
  <2>3. Good(layout') /\ layout'.vars = layout.vars \cup {c}
    BY <2>1, <2>2, <1>1, PushedGood, CopiedFits
  <2>4. MapsMatch'
    BY <2>1, <2>3, <1>1 DEF MapsMatch, Good, Form
  <2>5. QED
    BY <2>1, <2>3, <2>4, <1>1 DEF IInv, MapTypes, TransLast, Handlers
<1>6. ASSUME NEW c \in Clones, MarginalizeOldClone(c) PROVE IInv'
  <2>1. /\ layout' = Marginalized(layout, c) /\ clones' = clones \ {c}
        /\ doing = "clones" /\ doing' = "clones" /\ c \in clones
        /\ UNCHANGED <<slam, marked, gnss, built>>
    BY <1>6 DEF MarginalizeOldClone
  <2>2. c \in layout.vars /\ c # Imu /\ c \notin slam /\ c \notin CalibVars
    BY <2>1, <1>2, <1>6, Outside, VariablesAssumption
  <2>3. Good(layout') /\ layout'.vars = layout.vars \ {c}
    BY <2>1, <2>2, <1>1, MarginalizedGood
  <2>4. c \notin {Calibrated[i] : i \in 1 .. built}
    BY <2>2, <1>2, VariablesAssumption
  <2>5. MapsMatch'
    BY <2>1, <2>2, <2>3, <2>4, <1>1 DEF MapsMatch, Good, Form
  <2>6. QED
    BY <2>1, <2>3, <2>5, <1>1 DEF IInv, MapTypes, TransLast
<1>7. CASE WindowShort
  BY <1>7, <1>1 DEF WindowShort, IInv, MapTypes, MapsMatch, TransLast, Handlers
<1>8. ASSUME NEW lost \in SUBSET slam, LoseTracks(lost) PROVE IInv'
  BY <1>8, <1>1 DEF LoseTracks, IInv, MapTypes, MapsMatch, TransLast, Handlers
<1>9. ASSUME NEW f \in Landmarks, MarginalizeSlam(f) PROVE IInv'
  <2>1. /\ layout' = Marginalized(layout, f) /\ slam' = slam \ {f} /\ marked' = marked \ {f}
        /\ doing \in {"camera slam", "gnss slam"} /\ doing' = doing /\ f \in slam
        /\ UNCHANGED <<clones, gnss, built>>
    BY <1>2, <1>9 DEF MarginalizeSlam
  <2>2. f \in layout.vars /\ f # Imu /\ f # Trans /\ f \notin clones /\ f \notin CalibVars
    BY <2>1, <1>2, <1>9, Outside, VariablesAssumption
  <2>3. Good(layout') /\ layout'.vars = layout.vars \ {f}
    BY <2>1, <2>2, <1>1, MarginalizedGood
  <2>4. f \notin {Calibrated[i] : i \in 1 .. built}
    BY <2>2, <1>2, VariablesAssumption
  <2>5. MapsMatch'
    <3> DEFINE extra == IF doing \in {"gnss slam", "transform"} THEN {Trans} ELSE {}
    <3>1. f \notin extra
      BY <2>2
    <3> HIDE DEF extra
    <3>2. layout.vars = {Imu} \cup {Calibrated[i] : i \in 1 .. built} \cup clones \cup slam \cup extra
      BY <1>1 DEF MapsMatch, extra
    <3>3. layout.vars \ {f} = {Imu} \cup {Calibrated[i] : i \in 1 .. built} \cup clones
                             \cup (slam \ {f}) \cup extra
      BY <3>1, <3>2, <2>2, <2>4
    <3>4. QED
      BY <3>3, <2>1, <2>3 DEF MapsMatch, Good, Form, extra
  <2>6. TransLast'
    BY <2>1, <2>2, <1>1, Outside, StaysLast DEF TransLast
  <2>7. QED
    BY <2>1, <2>3, <2>5, <2>6, <1>1 DEF IInv, MapTypes
<1>10. CASE SlamMarginalized
  BY <1>10, <1>1 DEF SlamMarginalized, IInv, MapTypes, MapsMatch, TransLast, Handlers
<1>11. ASSUME NEW f \in Landmarks, SlamInit(f) PROVE IInv'
  <2>1. /\ layout' = Pushed(layout, f, Computed(f)) /\ slam' = slam \cup {f}
        /\ doing = "camera update" /\ doing' = doing /\ f \notin slam
        /\ UNCHANGED <<clones, marked, gnss, built>>
    BY <1>11 DEF SlamInit
  <2>2. f \in Variables \ layout.vars
    BY <2>1, <1>2, <1>11, Outside
  <2>3. Good(layout') /\ layout'.vars = layout.vars \cup {f}
    BY <2>1, <2>2, <1>1, PushedGood, ComputedFits
  <2>4. MapsMatch'
    BY <2>1, <2>3, <1>1 DEF MapsMatch, Good, Form
  <2>5. QED
    BY <2>1, <2>3, <2>4, <1>1 DEF IInv, MapTypes, TransLast
<1>12. ASSUME NEW f \in Landmarks, SlamInitReverted(f) PROVE IInv'
  <2>1. layout' = layout
    BY <1>1, <1>2, <1>12, Outside, RevertedSame DEF SlamInitReverted
  <2>2. QED
    BY <2>1, <1>1, <1>12 DEF SlamInitReverted, IInv, MapTypes, MapsMatch, TransLast
<1>13. CASE CameraUpdated
  BY <1>13, <1>1 DEF CameraUpdated, IInv, MapTypes, MapsMatch, TransLast, Handlers
<1>14. CASE GnssInit
  <2>1. /\ layout' = Pushed(layout, Trans, Computed(Trans)) /\ marked' = slam
        /\ doing = "idle" /\ doing' = "gnss slam"
        /\ UNCHANGED <<clones, slam, gnss, built>>
    BY <1>14 DEF GnssInit
  <2>2. Trans \in Variables \ layout.vars
    BY <2>1, <1>2, Outside
  <2>3. /\ Good(layout') /\ layout'.vars = layout.vars \cup {Trans}
        /\ layout'.id[Trans] + Dim[Trans] = layout'.rows
    BY <2>1, <2>2, <1>1, PushedGood, ComputedFits
  <2>4. MapsMatch'
    BY <2>1, <2>3, <1>1 DEF MapsMatch, Good, Form
  <2>5. QED
    BY <2>1, <2>3, <2>4, <1>1, Dimensions DEF IInv, MapTypes, TransLast, Handlers
<1>15. CASE GnssInitReverted
  <2>1. layout' = layout
    BY <1>1, <1>2, <1>15, Outside, RevertedSame DEF GnssInitReverted
  <2>2. QED
    BY <2>1, <1>1, <1>15 DEF GnssInitReverted, IInv, MapTypes, MapsMatch, TransLast
<1>16. CASE TransformToEnu
  <2>1. /\ layout' = Transformed(layout, {Imu} \cup clones) /\ gnss' = TRUE
        /\ doing = "transform" /\ doing' = "clones"
        /\ UNCHANGED <<clones, slam, marked, built>>
    BY <1>16 DEF TransformToEnu
  <2>2. Trans \in layout.vars /\ clones \subseteq layout.vars /\ layout.id[Trans] + 4 = layout.rows
    BY <2>1, <1>1, Outside DEF TransLast
  <2>3. Good(layout') /\ layout'.vars = layout.vars \ {Trans}
    BY <2>1, <2>2, <1>1, <1>2, TransformedGood
  <2>4. Trans \notin {Imu} \cup {Calibrated[i] : i \in 1 .. built} \cup clones \cup slam
    BY <1>2, VariablesAssumption
  <2>5. MapsMatch'
    BY <2>1, <2>3, <2>4, <1>1, ZenonT(60) DEF MapsMatch, Good, Form
  <2>6. QED
    BY <2>1, <2>3, <2>5, <1>1 DEF IInv, MapTypes, TransLast, Handlers
<1>17. CASE UNCHANGED vars
  BY <1>17, <1>1 DEF vars, IInv, MapTypes, MapsMatch, TransLast
<1>18. QED
  BY <1>3, <1>4, <1>5, <1>6, <1>7, <1>8, <1>9, <1>10, <1>11, <1>12, <1>13, <1>14, <1>15,
     <1>16, <1>17 DEF Next

\* The strengthened invariant holds in every state.
THEOREM CovarianceInvariance == Spec => []IInv
<1>1. QED
  BY InitGood, Inductive, PTL DEF Spec

\* The state of the filter has its types: no variable has an id beyond the covariance
\* (State.cpp's constructor, all operations of StateHelper).
THEOREM CovTypeCorrect == Spec => []CovTypeOK
<1>1. IInv => CovTypeOK
  <2> SUFFICES ASSUME IInv PROVE CovTypeOK
    OBVIOUS
  <2>1. Good(layout) /\ MapTypes
    BY DEF IInv
  <2>2. /\ layout.vars \subseteq Variables /\ layout.rows \in Nat
        /\ layout.id \in [Variables -> Int]
        /\ layout.cov \in [Rows(layout.rows) -> SUBSET (Variables \X Nat)]
    BY <2>1 DEF Good, Form
  <2>3. ASSUME NEW v \in Variables PROVE layout.id[v] \in -1 .. layout.rows - 1
    <3>1. CASE v \in layout.vars
      BY <3>1, <2>1, <2>2, Dimensions DEF Good, Inside
    <3>2. CASE v \notin layout.vars
      BY <3>2, <2>1, <2>2 DEF Good, Form
    <3>3. QED
      BY <3>1, <3>2
  <2>4. layout.id \in [Variables -> -1 .. layout.rows - 1]
    BY <2>2, <2>3
  <2>5. QED
    BY <2>1, <2>2, <2>4 DEF MapTypes, CovTypeOK
<1>2. QED
  BY <1>1, CovarianceInvariance, PTL

\* Ids, sizes and rows agree after any sequence of StateHelper's operations that the
\* handlers make, for any calibration, any number of clones and features.
THEOREM LayoutAlwaysCorrect == Spec => []LayoutCorrect
<1>1. IInv => LayoutCorrect
  BY DEF IInv, Good, LayoutCorrect
<1>2. QED
  BY <1>1, CovarianceInvariance, PTL

\* The maps of State and the filter's variables never part.
THEOREM MapsAlwaysMatch == Spec => []MapsMatch
<1>1. IInv => MapsMatch
  BY DEF IInv
<1>2. QED
  BY <1>1, CovarianceInvariance, PTL

\* A failed StateHelper::initialize leaves no trace: the variable at the back is the one
\* it has added, and taking it out restores every id and every row.
THEOREM RevertLeavesNothing == Spec => RevertedUnchanged
<1>1. ASSUME IInv, [Next]_vars
      PROVE  [(\E f \in Landmarks : SlamInitReverted(f)) \/ GnssInitReverted
              => layout' = layout]_vars
  <2>1. Good(layout) /\ Landmarks \subseteq Variables /\ Trans \in Variables
    BY <1>1 DEF IInv, Variables
  <2>2. ASSUME NEW f \in Landmarks, SlamInitReverted(f) PROVE layout' = layout
    BY <1>1, <2>1, <2>2, Outside, RevertedSame DEF SlamInitReverted
  <2>3. ASSUME GnssInitReverted PROVE layout' = layout
    BY <1>1, <2>1, <2>3, Outside, RevertedSame DEF GnssInitReverted
  <2>4. QED
    BY <2>2, <2>3
<1>2. QED
  BY <1>1, CovarianceInvariance, PTL DEF Spec, RevertedUnchanged
=============================================================================
