------------------------- MODULE SettlementProofs -------------------------
(***************************************************************************)
(* Theorems about Settlement for all charges, tenants, fees, numbers of    *)
(* workers and faults: the split of a charge, the types, the safety        *)
(* properties from one inductive invariant, how often a charge is credited,*)
(* the refinement of ChargePromise, and what the balance rows and the      *)
(* stored splits add up to.                                                *)
(***************************************************************************)
EXTENDS Settlement, SequenceTheorems, FiniteSetTheorems, WellFoundedInduction,
        TLAPS

-----------------------------------------------------------------------------
(* What NetAmountForCharge guarantees for every amount and every fee.      *)

LEMMA ComputedFeeInt ==
    ASSUME NEW gross \in Int, NEW fee \in FeeConfig
    PROVE  ComputedFee(gross, fee) \in Int
<1>1. fee.percentageBPS \in Int /\ fee.fixedCentavos \in Int
    BY DEF FeeConfig, FeeConfigSet
<1>2. gross * fee.percentageBPS \in Int
    BY <1>1
<1>3. (gross * fee.percentageBPS) \div 10000 \in Int
    BY <1>2
<1>4. QED
    BY <1>1, <1>3 DEF ComputedFee

LEMMA SplitType ==
    ASSUME NEW gross \in Nat, NEW openpayFee \in Nat, NEW fee \in FeeConfig
    PROVE  NetAmountForCharge(gross, openpayFee, fee) \in
              [gross : Nat, openpayFee : Nat, platformFee : Int, net : Int]
<1>1. ComputedFee(gross, fee) \in Int
    BY ComputedFeeInt
<1>2. QED
    BY <1>1 DEF NetAmountForCharge, PlatformFee, NetAmount

(* Every split accounts for the whole amount that the member paid, under   *)
(* both fee types: no centavo is lost or invented by the rounding.         *)
THEOREM SplitConserves ==
    ASSUME NEW gross \in Int, NEW openpayFee \in Int, NEW fee \in FeeConfig
    PROVE  Conserves(NetAmountForCharge(gross, openpayFee, fee))
<1>1. ComputedFee(gross, fee) \in Int
    BY ComputedFeeInt
<1>2. QED
    BY <1>1 DEF Conserves, NetAmountForCharge, PlatformFee, NetAmount

(* Which splits the payments table stores: under the inclusive type those  *)
(* whose constant fee covers OpenPay's and does not exceed the charge,     *)
(* under the added type those where both fees fit into the charge.         *)
THEOREM AcceptedSplits ==
    ASSUME NEW gross \in Nat, NEW openpayFee \in Nat, NEW fee \in FeeConfig
    PROVE  RowAccepted(NetAmountForCharge(gross, openpayFee, fee)) <=>
              LET computed == ComputedFee(gross, fee)
              IN  IF fee.feeType = "inclusive"
                  THEN openpayFee <= computed /\ computed <= gross
                  ELSE 0 <= computed /\ openpayFee + computed <= gross
<1>1. ComputedFee(gross, fee) \in Int
    BY ComputedFeeInt
<1>2. QED
    BY <1>1 DEF RowAccepted, NetAmountForCharge, PlatformFee, NetAmount

(* The percentage part grows by at most one centavo with the charge.       *)
LEMMA FloorStep ==
    ASSUME NEW x \in Nat, NEW b \in Nat, b <= 10000
    PROVE  (x + b) \div 10000 <= x \div 10000 + 1
OBVIOUS

(* A fee of at most 100 % is monotone: a member who pays one centavo more  *)
(* never leaves the tenant with less.                                      *)
THEOREM NetMonotone ==
    ASSUME NEW gross \in Nat, NEW openpayFee \in Nat, NEW fee \in FeeConfig,
           FeeValid(fee), fee.percentageBPS <= 10000
    PROVE  NetAmount(gross, openpayFee, fee)
              <= NetAmount(gross + 1, openpayFee, fee)
<1> DEFINE b == fee.percentageBPS
           x == gross * b
<1>1. b \in Nat /\ fee.fixedCentavos \in Int
    BY DEF FeeConfig, FeeConfigSet, FeeValid
<1>2. x \in Nat /\ (gross + 1) * b = x + b
    BY <1>1
<1>3. (x + b) \div 10000 <= x \div 10000 + 1
    BY <1>1, <1>2, FloorStep
<1>4. ComputedFee(gross + 1, fee) <= ComputedFee(gross, fee) + 1
    <2>1. ComputedFee(gross + 1, fee) = (x + b) \div 10000 + fee.fixedCentavos
        BY <1>2 DEF ComputedFee
    <2>2. ComputedFee(gross, fee) = x \div 10000 + fee.fixedCentavos
        BY DEF ComputedFee
    <2>3. x \div 10000 \in Int /\ (x + b) \div 10000 \in Int
        BY <1>1, <1>2
    <2> HIDE DEF x, b
    <2>4. QED
        BY <1>1, <1>3, <2>1, <2>2, <2>3
<1>5. /\ ComputedFee(gross, fee) \in Int
      /\ ComputedFee(gross + 1, fee) \in Int
    BY ComputedFeeInt
<1>6. QED
    BY <1>4, <1>5 DEF NetAmount

(* The binary product that floatToCentavos rounds never moves an amount by *)
(* more than half a centavo, and never a whole number of centavos at all:  *)
(* what the member paid and what the service settles differ only where     *)
(* OpenPay reports fractions of a centavo.                                 *)
THEOREM RoundingIsNearest ==
    ASSUME NEW millipesos \in Nat
    PROVE  /\ \A c \in FloatToCentavos(millipesos) :
                 c \in Nat /\ 10 * c - millipesos \in -5 .. 5
           /\ \A k \in Nat : FloatToCentavos(10 * k) = {k}
<1>1. ASSUME NEW c \in FloatToCentavos(millipesos)
      PROVE  c \in Nat /\ 10 * c - millipesos \in -5 .. 5
    <2>1. PICK noise \in -1 .. 1 : c = (100 * millipesos + noise + 500) \div 1000
        BY DEF FloatToCentavos
    <2>2. noise \in Int /\ -1 =< noise /\ noise =< 1
        OBVIOUS
    <2>3. /\ (100 * millipesos + noise + 500) \div 1000 \in Nat
          /\ 10 * ((100 * millipesos + noise + 500) \div 1000) - millipesos
               \in -5 .. 5
        BY <2>2, SMT
    <2>4. QED
        BY <2>1, <2>3
<1>2. ASSUME NEW k \in Nat
      PROVE  FloatToCentavos(10 * k) = {k}
    <2>1. \A noise \in -1 .. 1 : (100 * (10 * k) + noise + 500) \div 1000 = k
        BY SMT
    <2>2. -1 .. 1 # {}
        OBVIOUS
    <2>3. QED
        BY <2>1, <2>2 DEF FloatToCentavos
<1>3. QED
    BY <1>1, <1>2

(* The integer division of NetAmountForCharge only ever cuts the fraction  *)
(* of a centavo off the percentage: the service never takes more than the  *)
(* fee agreed, and less than one centavo under it.                         *)
THEOREM PercentageIsCut ==
    ASSUME NEW gross \in Nat, NEW fee \in FeeConfig, FeeValid(fee)
    PROVE  LET cut == gross * fee.percentageBPS
                         - 10000 * (ComputedFee(gross, fee) - fee.fixedCentavos)
           IN  0 <= cut /\ cut < 10000
<1>1. fee.percentageBPS \in Int /\ fee.fixedCentavos \in Int
    BY DEF FeeConfig, FeeConfigSet
<1>2. PICK exact \in Int : exact = gross * fee.percentageBPS
    BY <1>1
<1>3. /\ 0 <= exact - 10000 * (exact \div 10000)
      /\ exact - 10000 * (exact \div 10000) < 10000
    BY SMT
<1>4. ComputedFee(gross, fee) - fee.fixedCentavos = exact \div 10000
    BY <1>1, <1>2 DEF ComputedFee
<1>5. QED
    BY <1>2, <1>3, <1>4

-----------------------------------------------------------------------------
(* Sums over finite sets.  The library's induction schemas are out of the  *)
(* provers' reach; that a family of finite sets has a smallest member is   *)
(* not, and does as well.                                                  *)

LEMMA SmallestSet ==
    ASSUME NEW S, IsFiniteSet(S), NEW F \in SUBSET SUBSET S, F # {}
    PROVE  \E T \in F : \A U \in SUBSET T : U # T => U \notin F
<1>1. IsWellFoundedOn(StrictSubsetOrdering(S), FiniteSubsetsOf(S))
    BY FS_StrictSubsetOrderingWellFounded
<1>2. F \subseteq FiniteSubsetsOf(S)
    BY FS_Subset DEF FiniteSubsetsOf
<1>3. \E T \in F : \A U \in F : ~(<<U, T>> \in StrictSubsetOrdering(S))
    BY <1>1, <1>2, WFMin
<1>4. QED
    BY <1>3 DEF StrictSubsetOrdering

Chosen(S) == CHOOSE x \in S : TRUE

(* The sums over all parts of S, as SumFunctionOnSet computes them.        *)
IsTable(f, S, table) ==
    table = [s \in SUBSET S |->
                IF s = {} THEN 0 ELSE f[Chosen(s)] + table[s \ {Chosen(s)}]]
Table(f, S) == CHOOSE table : IsTable(f, S, table)

LEMMA SumIsTable ==
    ASSUME NEW f, NEW S
    PROVE  SumFunctionOnSet(f, S) = Table(f, S)[S]
BY DEF SumFunctionOnSet, FoldFunctionOnSet, MapThenFoldSet, Chosen, IsTable, Table

LEMMA ChosenIn ==
    ASSUME NEW S, S # {}
    PROVE  Chosen(S) \in S
BY DEF Chosen

LEMMA TableEntry ==
    ASSUME NEW f, NEW S, NEW table, IsTable(f, S, table), NEW s \in SUBSET S
    PROVE  table[s] = IF s = {} THEN 0 ELSE f[Chosen(s)] + table[s \ {Chosen(s)}]
BY DEF IsTable

LEMMA TablesAgree ==
    ASSUME NEW f, NEW S, NEW T, IsFiniteSet(S), NEW table, NEW other,
           IsTable(f, S, table), IsTable(f, T, other)
    PROVE  \A s \in SUBSET S : s \in SUBSET T => table[s] = other[s]
<1> DEFINE F == {s \in SUBSET S : s \in SUBSET T /\ table[s] # other[s]}
<1>0. F \in SUBSET SUBSET S
    OBVIOUS
<1>1. SUFFICES ASSUME F # {}
               PROVE  FALSE
    OBVIOUS
<1> HIDE DEF F
<1>2. PICK s \in F : \A u \in SUBSET s : u # s => u \notin F
    BY <1>0, <1>1, SmallestSet
<1> USE DEF F
<1>3. s \in SUBSET S /\ s \in SUBSET T /\ table[s] # other[s]
    OBVIOUS
<1>4. s # {}
    BY <1>3, TableEntry
<1>5. PICK r \in SUBSET s : r = s \ {Chosen(s)}
    OBVIOUS
<1>6. r # s
    BY <1>4, <1>5, ChosenIn
<1>7. table[r] = other[r]
    BY <1>2, <1>3, <1>6
<1>8. table[s] = f[Chosen(s)] + table[r] /\ other[s] = f[Chosen(s)] + other[r]
    BY <1>3, <1>4, <1>5, TableEntry
<1>9. QED
    BY <1>3, <1>7, <1>8

LEMMA TableExists ==
    ASSUME NEW f, NEW S, IsFiniteSet(S)
    PROVE  IsTable(f, S, Table(f, S))
<1> DEFINE F == {T \in SUBSET S : ~IsTable(f, T, Table(f, T))}
<1>0. F \in SUBSET SUBSET S
    OBVIOUS
<1>1. SUFFICES ASSUME F # {}
               PROVE  FALSE
    OBVIOUS
<1> HIDE DEF F
<1>2. PICK T \in F : \A U \in SUBSET T : U # T => U \notin F
    BY <1>0, <1>1, SmallestSet
<1> USE DEF F
<1>3. ASSUME NEW U \in SUBSET T, U # T
      PROVE  IsTable(f, U, Table(f, U)) /\ IsFiniteSet(U)
    BY <1>2, <1>3, FS_Subset
<1> DEFINE h == [s \in SUBSET T |->
                    IF s = {} THEN 0
                    ELSE f[Chosen(s)] + Table(f, s \ {Chosen(s)})[s \ {Chosen(s)}]]
<1>4. ASSUME NEW s \in SUBSET T, s # {}
      PROVE  h[s \ {Chosen(s)}] = Table(f, s \ {Chosen(s)})[s \ {Chosen(s)}]
    <2> HIDE DEF F, h
    <2>0. PICK x \in s : x = Chosen(s)
        BY <1>4, ChosenIn
    <2>1. PICK r \in SUBSET T : r = s \ {x}
        OBVIOUS
    <2> x \in T /\ x \notin r
        BY <2>1
    <2>2. IsTable(f, r, Table(f, r)) /\ IsFiniteSet(r)
        BY <1>3, <2>1
    <2>3. CASE r = {}
        BY <2>0, <2>1, <2>2, <2>3, TableEntry DEF h
    <2>4. CASE r # {}
        <3>0. PICK y \in r : y = Chosen(r)
            BY <2>4, ChosenIn
        <3>1. PICK q \in SUBSET r : q = r \ {y}
            OBVIOUS
        <3> q \in SUBSET T /\ x \notin q
            BY <3>1
        <3>2. IsTable(f, q, Table(f, q)) /\ IsFiniteSet(q)
            BY <1>3, <3>1
        <3>3. q \in SUBSET q /\ q \in SUBSET r
            BY <3>1
        <3>4. Table(f, q)[q] = Table(f, r)[q]
            BY <2>2, <3>2, <3>3, TablesAgree
        <3>5. Table(f, r)[r] = f[Chosen(r)] + Table(f, r)[q]
            BY <2>2, <2>4, <3>0, <3>1, TableEntry
        <3>6. h[r] = f[Chosen(r)] + Table(f, q)[q]
            BY <2>4, <3>0, <3>1 DEF h
        <3>7. QED
            BY <2>0, <2>1, <3>4, <3>5, <3>6
    <2>5. QED
        BY <2>3, <2>4
<1>5. IsTable(f, T, h)
    BY <1>4 DEF IsTable
<1> HIDE DEF h
<1>6. IsTable(f, T, Table(f, T))
    BY <1>5 DEF Table
<1>7. QED
    BY <1>6

LEMMA SumOfNone ==
    ASSUME NEW f
    PROVE  SumFunctionOnSet(f, {}) = 0
BY FS_EmptySet, TableExists, TableEntry, SumIsTable

LEMMA SumChosen ==
    ASSUME NEW f, NEW S, IsFiniteSet(S), S # {}
    PROVE  SumFunctionOnSet(f, S) =
               f[Chosen(S)] + SumFunctionOnSet(f, S \ {Chosen(S)})
<1>1. PICK r \in SUBSET S : r = S \ {Chosen(S)}
    OBVIOUS
<1>2. IsFiniteSet(r)
    BY FS_Subset
<1>3. IsTable(f, S, Table(f, S)) /\ IsTable(f, r, Table(f, r))
    BY <1>2, TableExists
<1>4. Table(f, S)[r] = Table(f, r)[r]
    BY <1>2, <1>3, TablesAgree
<1>5. Table(f, S)[S] = f[Chosen(S)] + Table(f, S)[r]
    BY <1>1, <1>3, TableEntry
<1>6. QED
    BY <1>1, <1>4, <1>5, SumIsTable

LEMMA SumType ==
    ASSUME NEW f, NEW S, IsFiniteSet(S), \A x \in S : f[x] \in Int
    PROVE  SumFunctionOnSet(f, S) \in Int
<1> DEFINE F == {T \in SUBSET S : SumFunctionOnSet(f, T) \notin Int}
<1>0. F \in SUBSET SUBSET S
    OBVIOUS
<1>1. SUFFICES ASSUME F # {}
               PROVE  FALSE
    OBVIOUS
<1> HIDE DEF F
<1>2. PICK T \in F : \A U \in SUBSET T : U # T => U \notin F
    BY <1>0, <1>1, SmallestSet
<1> USE DEF F
<1>3. T \in SUBSET S /\ SumFunctionOnSet(f, T) \notin Int /\ IsFiniteSet(T)
    BY FS_Subset
<1>4. T # {}
    BY <1>3, SumOfNone
<1>5. PICK r \in SUBSET T : r = T \ {Chosen(T)}
    OBVIOUS
<1>6. r # T /\ Chosen(T) \in S
    BY <1>3, <1>4, <1>5, ChosenIn
<1>7. SumFunctionOnSet(f, r) \in Int
    BY <1>2, <1>3, <1>6
<1>8. SumFunctionOnSet(f, T) = f[Chosen(T)] + SumFunctionOnSet(f, r)
    BY <1>3, <1>4, <1>5, SumChosen
<1>9. f[Chosen(T)] \in Int
    BY <1>6
<1>10. QED
    BY <1>3, <1>7, <1>8, <1>9

(* It does not matter which element is taken first.                        *)
LEMMA SumTake ==
    ASSUME NEW f, NEW S, IsFiniteSet(S), \A x \in S : f[x] \in Int, NEW y \in S
    PROVE  SumFunctionOnSet(f, S) = f[y] + SumFunctionOnSet(f, S \ {y})
<1> DEFINE F == {T \in SUBSET S :
                    \E x \in T : SumFunctionOnSet(f, T)
                                     # f[x] + SumFunctionOnSet(f, T \ {x})}
<1>0. F \in SUBSET SUBSET S
    OBVIOUS
<1>1. SUFFICES ASSUME F # {}
               PROVE  FALSE
    OBVIOUS
<1> HIDE DEF F
<1>2. PICK T \in F : \A U \in SUBSET T : U # T => U \notin F
    BY <1>0, <1>1, SmallestSet
<1> USE DEF F
<1>3. T \in SUBSET S /\ IsFiniteSet(T)
    BY FS_Subset
<1>4. PICK x \in T : SumFunctionOnSet(f, T) # f[x] + SumFunctionOnSet(f, T \ {x})
    BY <1>2
<1>5. PICK c \in T : c = Chosen(T)
    BY <1>4, ChosenIn
<1>6. SumFunctionOnSet(f, T) = f[c] + SumFunctionOnSet(f, T \ {c})
    BY <1>3, <1>4, <1>5, SumChosen
<1>7. x # c
    BY <1>4, <1>6
<1>8. SumFunctionOnSet(f, T \ {c}) = f[x] + SumFunctionOnSet(f, (T \ {c}) \ {x})
    BY <1>2, <1>3, <1>7
<1>9. SumFunctionOnSet(f, T \ {x}) = f[c] + SumFunctionOnSet(f, (T \ {x}) \ {c})
    BY <1>2, <1>3, <1>4, <1>7
<1>10. PICK q \in SUBSET S : q = (T \ {c}) \ {x} /\ q = (T \ {x}) \ {c}
    BY <1>3
<1>11. IsFiniteSet(q) /\ \A z \in q : f[z] \in Int
    BY FS_Subset
<1>12. SumFunctionOnSet(f, q) \in Int /\ f[x] \in Int /\ f[c] \in Int
    BY <1>3, <1>11, SumType
<1>13. f[x] + (f[c] + SumFunctionOnSet(f, q)) = f[c] + (f[x] + SumFunctionOnSet(f, q))
    BY <1>12
<1>14. QED
    BY <1>4, <1>6, <1>8, <1>9, <1>10, <1>13

(* Sums compare as their terms do.                                         *)
LEMMA SumMonotone ==
    ASSUME NEW f, NEW g, NEW S, IsFiniteSet(S),
           \A x \in S : f[x] \in Int /\ g[x] \in Int /\ f[x] <= g[x]
    PROVE  SumFunctionOnSet(f, S) <= SumFunctionOnSet(g, S)
<1> DEFINE F == {T \in SUBSET S : ~(SumFunctionOnSet(f, T) <= SumFunctionOnSet(g, T))}
<1>0. F \in SUBSET SUBSET S
    OBVIOUS
<1>1. SUFFICES ASSUME F # {}
               PROVE  FALSE
    OBVIOUS
<1> HIDE DEF F
<1>2. PICK T \in F : \A U \in SUBSET T : U # T => U \notin F
    BY <1>0, <1>1, SmallestSet
<1> USE DEF F
<1>3. T \in SUBSET S /\ IsFiniteSet(T)
    BY FS_Subset
<1>4. T # {}
    <2>1. SUFFICES ASSUME T = {}
                   PROVE  FALSE
        OBVIOUS
    <2>2. SumFunctionOnSet(f, T) = 0 /\ SumFunctionOnSet(g, T) = 0
        BY <2>1, SumOfNone
    <2>3. QED
        BY <1>2, <2>2
<1>5. PICK c \in T : c = Chosen(T)
    BY <1>4, ChosenIn
<1>6. /\ SumFunctionOnSet(f, T) = f[c] + SumFunctionOnSet(f, T \ {c})
      /\ SumFunctionOnSet(g, T) = g[c] + SumFunctionOnSet(g, T \ {c})
    BY <1>3, <1>4, <1>5, SumChosen
<1>7. SumFunctionOnSet(f, T \ {c}) <= SumFunctionOnSet(g, T \ {c})
    BY <1>2, <1>3
<1>8. PICK q \in SUBSET S : q = T \ {c}
    BY <1>3
<1>9. IsFiniteSet(q) /\ \A x \in q : f[x] \in Int /\ g[x] \in Int
    BY FS_Subset
<1>10. SumFunctionOnSet(f, q) \in Int /\ SumFunctionOnSet(g, q) \in Int
    BY <1>9, SumType
<1>11. f[c] \in Int /\ g[c] \in Int /\ f[c] <= g[c]
    BY <1>3
<1>12. QED
    BY <1>2, <1>6, <1>7, <1>8, <1>10, <1>11

LEMMA SumEqual ==
    ASSUME NEW f, NEW g, NEW S, IsFiniteSet(S),
           \A x \in S : f[x] \in Int /\ f[x] = g[x]
    PROVE  SumFunctionOnSet(f, S) = SumFunctionOnSet(g, S)
<1>1. /\ SumFunctionOnSet(f, S) \in Int /\ SumFunctionOnSet(g, S) \in Int
      /\ SumFunctionOnSet(f, S) <= SumFunctionOnSet(g, S)
      /\ SumFunctionOnSet(g, S) <= SumFunctionOnSet(f, S)
    BY SumType, SumMonotone
<1>2. QED
    BY <1>1

LEMMA SumOfZeros ==
    ASSUME NEW f, NEW S, IsFiniteSet(S), \A x \in S : f[x] = 0
    PROVE  SumFunctionOnSet(f, S) = 0
<1> DEFINE F == {T \in SUBSET S : SumFunctionOnSet(f, T) # 0}
<1>0. F \in SUBSET SUBSET S
    OBVIOUS
<1>1. SUFFICES ASSUME F # {}
               PROVE  FALSE
    OBVIOUS
<1> HIDE DEF F
<1>2. PICK T \in F : \A U \in SUBSET T : U # T => U \notin F
    BY <1>0, <1>1, SmallestSet
<1> USE DEF F
<1>3. T \in SUBSET S /\ SumFunctionOnSet(f, T) # 0 /\ IsFiniteSet(T)
    BY FS_Subset
<1>4. T # {}
    BY <1>3, SumOfNone
<1>5. PICK c \in T : c = Chosen(T)
    BY <1>4, ChosenIn
<1>6. SumFunctionOnSet(f, T) = f[c] + SumFunctionOnSet(f, T \ {c})
    BY <1>3, <1>4, <1>5, SumChosen
<1>7. SumFunctionOnSet(f, T \ {c}) = 0 /\ f[c] = 0
    BY <1>2, <1>3
<1>8. QED
    BY <1>3, <1>6, <1>7

(* One term changes.                                                       *)
LEMMA SumChange ==
    ASSUME NEW f, NEW g, NEW S, IsFiniteSet(S), NEW y \in S,
           \A x \in S : f[x] \in Int /\ g[x] \in Int,
           \A x \in S \ {y} : f[x] = g[x]
    PROVE  SumFunctionOnSet(g, S) = SumFunctionOnSet(f, S) + (g[y] - f[y])
<1>1. IsFiniteSet(S \ {y})
    BY FS_Subset
<1>2. SumFunctionOnSet(f, S \ {y}) = SumFunctionOnSet(g, S \ {y})
    BY <1>1, SumEqual
<1>3. /\ SumFunctionOnSet(f, S) = f[y] + SumFunctionOnSet(f, S \ {y})
      /\ SumFunctionOnSet(g, S) = g[y] + SumFunctionOnSet(g, S \ {y})
    BY SumTake
<1>4. SumFunctionOnSet(f, S \ {y}) \in Int /\ f[y] \in Int /\ g[y] \in Int
    BY <1>1, SumType
<1>5. QED
    BY <1>2, <1>3, <1>4

-----------------------------------------------------------------------------

USE SettlementAssumption

-----------------------------------------------------------------------------
(* The statements on rows.                                                 *)

LEMMA CreditUpdateType ==
    ASSUME NEW rows \in Seq(BalanceRow), NEW gross \in Nat, NEW net \in Nat
    PROVE  CreditUpdateRows(rows, gross, net) \in Seq(BalanceRow)
<1>1. DOMAIN rows = 1 .. Len(rows) /\ Len(rows) \in Nat
    OBVIOUS
<1>2. \A i \in 1 .. Len(rows) : rows[i] \in BalanceRow
    BY <1>1
<1>3. \A i \in 1 .. Len(rows) :
          /\ rows[i].available + net \in Nat
          /\ Greatest(0, rows[i].pending - gross) \in Nat
    BY <1>2 DEF BalanceRow, Greatest
<1>4. CreditUpdateRows(rows, gross, net) \in [1 .. Len(rows) -> BalanceRow]
    BY <1>1, <1>3 DEF CreditUpdateRows, BalanceRow
<1>5. QED
    BY <1>1, <1>4, SeqDef

LEMMA CreditInsertType ==
    ASSUME NEW rows \in Seq(BalanceRow), NEW net \in Nat
    PROVE  CreditInsertRow(rows, net) \in Seq(BalanceRow)
BY DEF CreditInsertRow, BalanceRow

LEMMA PaymentRowTypes ==
    /\ NoPayment \in PaymentRow
    /\ \A gross \in Nat, status \in PaymentStatus :
          CreateRow(gross, status) \in PaymentRow
    /\ \A row \in PaymentRow, status \in PaymentStatus :
          UpdateStatusRow(row, status) \in PaymentRow
    /\ \A fees \in [gross : Nat, openpayFee : Nat, platformFee : Int, net : Int] :
          RowAccepted(fees) => SettleRow(fees) \in PaymentRow
BY DEF NoPayment, PaymentRow, PaymentStatus, CreateRow, UpdateStatusRow,
       RowAccepted, SettleRow

-----------------------------------------------------------------------------
(* What a request holds at each of its statements; TypeOK is inductive     *)
(* only together with it, for a credit must not carry a negative amount.   *)

RequestOK(h) ==
    /\ h.pc = "idle" <=> h.event = NoEvent
    /\ h.pc \in {"tenant", "settle"} => h.event.status = "completed"
    /\ h.pc = "status" => h.event.status # "completed"
    /\ h.pc = "settle" => Conserves(h.fees)
    /\ h.pc \in {"status", "credit", "insert"} => RowAccepted(h.fees)

HandlerOK == \A w \in Workers : RequestOK(handler[w])

Typed == TypeOK /\ HandlerOK

LEMMA InitTyped == Init => Typed
BY PaymentRowTypes
   DEF Init, Typed, TypeOK, HandlerOK, RequestOK, Handler, Idle, NoEvent, NoFees,
       ProviderStatus, Statement

LEMMA HandlerFrame == HandlerOK /\ UNCHANGED handler => HandlerOK'
BY DEF HandlerOK, RequestOK, Conserves, RowAccepted

(* One request changes, the others stay as they are.                       *)
LEMMA RequestStep ==
    ASSUME Typed, NEW w \in Workers, NEW h \in Handler, RequestOK(h),
           handler' = [handler EXCEPT ![w] = h]
    PROVE  handler' \in [Workers -> Handler] /\ HandlerOK'
<1>1. handler' \in [Workers -> Handler]
    BY DEF Typed, TypeOK
<1>2. SUFFICES ASSUME NEW v \in Workers PROVE RequestOK(handler[v])'
    BY <1>1 DEF HandlerOK
<1>3. handler'[v] = IF v = w THEN h ELSE handler[v]
    BY DEF Typed, TypeOK
<1>4. RequestOK(handler[v])
    BY DEF Typed, HandlerOK
<1>5. QED
    BY <1>3, <1>4 DEF RequestOK, Conserves, RowAccepted

LEMMA ChargeStepTyped ==
    ASSUME Typed, NEW c \in Charges, ChargeStep(c)
    PROVE  Typed'
<1> USE DEF Typed, TypeOK, Event, EventFor, Announced, Notify,
            ProviderStatus, database, observed, Fault
<1>1. CASE ProviderResolves(c)
    BY <1>1, HandlerFrame DEF ProviderResolves, PaymentStatus
<1>2. CASE RedeemCharges(c)
    BY <1>2, HandlerFrame DEF RedeemCharges, PaymentStatus
<1>3. CASE RedeemRecords(c)
    BY <1>3, PaymentRowTypes, HandlerFrame DEF RedeemRecords, PaymentStatus
<1>4. CASE RedeemLosesRecord(c)
    BY <1>4, HandlerFrame DEF RedeemLosesRecord
<1>5. CASE RefundAtProvider(c)
    BY <1>5, HandlerFrame DEF RefundAtProvider, PaymentStatus
<1>6. CASE RefundStores(c)
    BY <1>6, PaymentRowTypes, HandlerFrame DEF RefundStores, PaymentStatus
<1>7. CASE RefundStoreFails(c)
    BY <1>7, HandlerFrame DEF RefundStoreFails
<1>8. QED
    BY <1>1, <1>2, <1>3, <1>4, <1>5, <1>6, <1>7 DEF ChargeStep

LEMMA AdminStepTyped ==
    ASSUME Typed, NEW t \in Tenants, DeleteTenant(t) \/ UpdateTenantFee(t)
    PROVE  Typed'
<1> USE DEF Typed, TypeOK, observed
<1>1. CASE DeleteTenant(t)
    BY <1>1, HandlerFrame DEF DeleteTenant
<1>2. CASE UpdateTenantFee(t)
    BY <1>2, HandlerFrame DEF UpdateTenantFee
<1>3. QED
    BY <1>1, <1>2

LEMMA DeliverTyped ==
    ASSUME Typed, NEW w \in Workers, NEW e \in outbox, Deliver(w, e)
    PROVE  Typed'
<1> USE DEF Typed, TypeOK, database, observed, Fault
<1>1. e \in Event /\ e # NoEvent
    BY DEF Deliver, Event, NoEvent
<1> DEFINE h == [pc |-> "find", event |-> e, fees |-> NoFees]
<1>2. h \in Handler /\ RequestOK(h)
    BY <1>1 DEF Handler, Statement, NoFees, RequestOK
<1>3. handler' = [handler EXCEPT ![w] = h]
    BY DEF Deliver
<1> HIDE DEF h
<1>4. handler' \in [Workers -> Handler] /\ HandlerOK'
    BY <1>2, <1>3, RequestStep
<1>5. QED
    BY <1>4 DEF Deliver

LEMMA BusyHandler ==
    ASSUME Typed, NEW w \in Workers, handler[w].pc # "idle"
    PROVE  /\ handler[w].pc \in Statement
           /\ handler[w].event \in Event
           /\ handler[w].fees \in
                 [gross : Nat, openpayFee : Nat, platformFee : Int, net : Int]
           /\ ChargeAt(w) \in Charges
           /\ handler[w].event.status \in Announced
           /\ TenantAt(w) \in Tenants
           /\ RequestOK(handler[w])
<1>1. handler[w] \in Handler /\ RequestOK(handler[w])
    BY DEF Typed, TypeOK, HandlerOK
<1>2. handler[w].event # NoEvent
    BY <1>1 DEF RequestOK
<1>3. handler[w].event \in Event
    BY <1>1, <1>2 DEF Handler
<1>4. QED
    BY <1>1, <1>3 DEF Handler, Event, ChargeAt, TenantAt

LEMMA AnswerTyped ==
    ASSUME Typed, NEW w \in Workers, Answer(w)
    PROVE  handler' \in [Workers -> Handler] /\ HandlerOK'
<1>1. Idle \in Handler /\ RequestOK(Idle)
    BY DEF Idle, Handler, NoFees, RequestOK
<1>2. QED
    BY <1>1, RequestStep DEF Answer

(* A request that moves on to a statement, with the amounts it needs.      *)
LEMMA ProceedTyped ==
    ASSUME Typed, NEW w \in Workers, handler[w].pc # "idle",
           NEW pc \in Statement,
           NEW fees \in
              [gross : Nat, openpayFee : Nat, platformFee : Int, net : Int],
           pc \in {"tenant", "settle"} => IsSuccess(w),
           pc = "status" => ~IsSuccess(w),
           pc = "settle" => Conserves(fees),
           pc \in {"status", "credit", "insert"} => RowAccepted(fees),
           Proceed(w, pc, fees)
    PROVE  handler' \in [Workers -> Handler] /\ HandlerOK'
<1> DEFINE h == [pc |-> pc, event |-> handler[w].event, fees |-> fees]
<1>1. h.event \in Event /\ h.event # NoEvent
    BY BusyHandler DEF RequestOK
<1>2. h \in Handler
    BY <1>1 DEF Handler
<1>3. RequestOK(h)
    BY <1>1 DEF RequestOK, IsSuccess, Statement
<1>4. handler' = [handler EXCEPT ![w] = h]
    BY DEF Proceed
<1> HIDE DEF h
<1>5. QED
    BY <1>2, <1>3, <1>4, RequestStep

LEMMA HandlerStepBusy ==
    ASSUME NEW w, HandlerStep(w) \/ HandlerFault(w)
    PROVE  handler[w].pc # "idle"
BY DEF HandlerStep, FindPayment, PaymentNotFound, ReadTenant, TenantNotFound,
       Settle, SettleRejected, StoreStatus, CreditUpdate, CreditMissesRow,
       CreditInsert, PublishAndAnswer,
       HandlerFault, CreditFails, PublishFails, AnswerLost, Abort

LEMMA HandlerStepTyped ==
    ASSUME Typed, NEW w \in Workers, HandlerStep(w)
    PROVE  Typed'
<1> USE DEF database, observed
<1>0. /\ handler[w].pc # "idle"
      /\ handler[w].fees \in
            [gross : Nat, openpayFee : Nat, platformFee : Int, net : Int]
      /\ ChargeAt(w) \in Charges
      /\ handler[w].event.status \in Announced
      /\ TenantAt(w) \in Tenants
      /\ RequestOK(handler[w])
    BY HandlerStepBusy, BusyHandler
<1>1. CASE FindPayment(w)
    <2>1. CASE IsSuccess(w)
        <3>1. Goto(w, "tenant")
            BY <1>1, <2>1 DEF FindPayment
        <3>2. handler' \in [Workers -> Handler] /\ HandlerOK'
            BY <1>0, <2>1, <3>1, ProceedTyped DEF Goto, Statement
        <3>3. QED
            BY <1>1, <3>2 DEF FindPayment, Typed, TypeOK
    <2>2. CASE ~IsSuccess(w)
        <3> DEFINE fees == [NoFees EXCEPT !.gross = payments[ChargeAt(w)].gross]
        <3>1. Proceed(w, "status", fees)
            BY <1>1, <2>2 DEF FindPayment
        <3>2. payments[ChargeAt(w)].gross \in Nat
            BY <1>0 DEF Typed, TypeOK, PaymentRow
        <3>3. /\ fees \in
                    [gross : Nat, openpayFee : Nat, platformFee : Int, net : Int]
              /\ RowAccepted(fees)
            BY <3>2 DEF NoFees, RowAccepted
        <3> HIDE DEF fees
        <3>4. handler' \in [Workers -> Handler] /\ HandlerOK'
            BY <1>0, <2>2, <3>1, <3>3, ProceedTyped DEF Statement
        <3>5. QED
            BY <1>1, <3>4 DEF FindPayment, Typed, TypeOK
    <2>3. QED
        BY <2>1, <2>2
<1>2. CASE PaymentNotFound(w)
    BY <1>2, AnswerTyped DEF PaymentNotFound, Typed, TypeOK
<1>3. CASE ReadTenant(w)
    <2> DEFINE fees == NetAmountForCharge(Gross[ChargeAt(w)], OpenpayFee[ChargeAt(w)],
                                          feeOf[TenantAt(w)])
    <2>1. /\ feeOf[TenantAt(w)] \in FeeConfig
          /\ Gross[ChargeAt(w)] \in Nat
          /\ OpenpayFee[ChargeAt(w)] \in Nat
        BY <1>0 DEF Typed, TypeOK
    <2>2. /\ fees \in [gross : Nat, openpayFee : Nat, platformFee : Int, net : Int]
          /\ Conserves(fees)
        <3>1. fees \in
                 [gross : Nat, openpayFee : Nat, platformFee : Int, net : Int]
            BY <2>1, SplitType
        <3>2. Conserves(fees)
            BY <2>1, SplitConserves
        <3>3. QED
            BY <3>1, <3>2
    <2>3. Proceed(w, "settle", fees) /\ IsSuccess(w)
        BY <1>0, <1>3 DEF ReadTenant, RequestOK, IsSuccess
    <2> HIDE DEF fees
    <2>4. handler' \in [Workers -> Handler] /\ HandlerOK'
        BY <1>0, <2>2, <2>3, ProceedTyped DEF Statement
    <2>5. QED
        BY <1>3, <2>4 DEF ReadTenant, Typed, TypeOK
<1>4. CASE TenantNotFound(w)
    BY <1>4, AnswerTyped DEF TenantNotFound, Typed, TypeOK
<1>5. CASE Settle(w)
    <2>1. handler' \in [Workers -> Handler] /\ HandlerOK'
        BY <1>0, <1>5, ProceedTyped DEF Settle, Goto, Statement
    <2>2. payments' \in [Charges -> PaymentRow]
        BY <1>0, <1>5, PaymentRowTypes DEF Settle, Typed, TypeOK
    <2>3. QED
        BY <1>5, <2>1, <2>2 DEF Settle, Typed, TypeOK
<1>6. CASE SettleRejected(w)
    BY <1>6, AnswerTyped DEF SettleRejected, Typed, TypeOK
<1>7. CASE StoreStatus(w)
    <2> DEFINE pc == IF handler[w].fees.gross > 0 THEN "credit" ELSE "publish"
    <2>1. Proceed(w, pc, handler[w].fees) /\ RowAccepted(handler[w].fees)
        BY <1>0, <1>7 DEF StoreStatus, Goto, RequestOK
    <2>2. pc \in {"credit", "publish"}
        OBVIOUS
    <2> HIDE DEF pc
    <2>3. handler' \in [Workers -> Handler] /\ HandlerOK'
        BY <1>0, <2>1, <2>2, ProceedTyped DEF Statement
    <2>4. payments' \in [Charges -> PaymentRow]
        BY <1>0, <1>7, PaymentRowTypes
           DEF StoreStatus, Typed, TypeOK, Announced, PaymentStatus
    <2>5. QED
        BY <1>7, <2>3, <2>4 DEF StoreStatus, Typed, TypeOK
<1>8. CASE CreditUpdate(w) \/ CreditInsert(w)
    <2>1. handler[w].fees.net \in Nat /\ handler[w].fees.gross \in Nat
        BY <1>0, <1>8 DEF CreditUpdate, CreditInsert, RequestOK, RowAccepted
    <2>2. balances' \in [Tenants -> Seq(BalanceRow)]
        <3>1. CASE CreditUpdate(w)
            BY <1>0, <2>1, <3>1, CreditUpdateType DEF CreditUpdate, Typed, TypeOK
        <3>2. CASE CreditInsert(w)
            BY <1>0, <2>1, <3>2, CreditInsertType DEF CreditInsert, Typed, TypeOK
        <3>3. QED
            BY <1>8, <3>1, <3>2
    <2>3. credits' \in [Charges -> Nat] /\ credited' \in [Tenants -> Nat]
        <3>1. Observe(w)
            BY <1>8 DEF CreditUpdate, CreditInsert
        <3>2. credited' \in [Tenants -> Nat]
            <4>1. PICK net \in Nat : net = handler[w].fees.net
                BY <2>1
            <4>2. credited' = [credited EXCEPT ![TenantAt(w)] = @ + net]
                BY <3>1, <4>1 DEF Observe
            <4>3. credited \in [Tenants -> Nat]
                BY <1>0 DEF Typed, TypeOK
            <4>4. credited' = [t \in Tenants |->
                                 IF t = TenantAt(w) THEN credited[t] + net ELSE credited[t]]
                BY <4>2, <4>3
            <4>5. ASSUME NEW t \in Tenants
                  PROVE  (IF t = TenantAt(w) THEN credited[t] + net ELSE credited[t]) \in Nat
                BY <4>3
            <4>6. QED
                BY <4>4, <4>5
        <3>3. credits' \in [Charges -> Nat]
            <4>1. \/ credits' = [credits EXCEPT ![ChargeAt(w)] = @ + 1]
                  \/ credits' = credits
                BY <3>1 DEF Observe
            <4>2. credits \in [Charges -> Nat]
                BY <1>0 DEF Typed, TypeOK
            <4>3. QED
                BY <4>1, <4>2
        <3>4. QED
            BY <3>2, <3>3
    <2>4. handler' \in [Workers -> Handler] /\ HandlerOK'
        BY <1>0, <1>8, ProceedTyped DEF CreditUpdate, CreditInsert, Goto, Statement
    <2>5. QED
        BY <1>8, <2>2, <2>3, <2>4 DEF CreditUpdate, CreditInsert, Typed, TypeOK
<1>9. CASE CreditMissesRow(w)
    <2>1. handler' \in [Workers -> Handler] /\ HandlerOK'
        BY <1>0, <1>9, ProceedTyped DEF CreditMissesRow, Goto, Statement, RequestOK
    <2>2. QED
        BY <1>9, <2>1 DEF CreditMissesRow, Typed, TypeOK
<1>10. CASE PublishAndAnswer(w)
    <2>1. published' \in [Charges -> SUBSET PaymentStatus]
        BY <1>0, <1>10 DEF PublishAndAnswer, PublishEvent, Typed, TypeOK, Announced,
                           PaymentStatus
    <2>2. QED
        BY <1>10, <2>1, AnswerTyped DEF PublishAndAnswer, Typed, TypeOK
<1>11. QED
    BY <1>1, <1>2, <1>3, <1>4, <1>5, <1>6, <1>7, <1>8, <1>9, <1>10 DEF HandlerStep

LEMMA HandlerFaultTyped ==
    ASSUME Typed, NEW w \in Workers, HandlerFault(w)
    PROVE  Typed'
<1> USE DEF database, observed, Fault
<1>0. /\ handler[w].pc # "idle"
      /\ handler[w].fees \in
            [gross : Nat, openpayFee : Nat, platformFee : Int, net : Int]
      /\ ChargeAt(w) \in Charges
      /\ handler[w].event.status \in Announced
    BY HandlerStepBusy, BusyHandler
<1>1. CASE CreditFails(w)
    <2>1. handler' \in [Workers -> Handler] /\ HandlerOK'
        BY <1>0, <1>1, ProceedTyped DEF CreditFails, Goto, Statement
    <2>2. critical' \subseteq Charges
        BY <1>0, <1>1 DEF CreditFails, Typed, TypeOK
    <2>3. faults' \in 0 .. MaxFaults
        BY <1>1, SettlementAssumption DEF CreditFails, Typed, TypeOK
    <2>4. UNCHANGED <<provider, outbox, payments, balances, active, feeOf,
                      redeem, refunding, published, credits, credited>>
        BY <1>1 DEF CreditFails
    <2>5. QED
        BY <2>1, <2>2, <2>3, <2>4 DEF Typed, TypeOK
<1>2. CASE PublishFails(w) \/ AnswerLost(w) \/ Abort(w)
    <2>1. handler' \in [Workers -> Handler] /\ HandlerOK'
        BY <1>2, AnswerTyped DEF PublishFails, AnswerLost, Abort
    <2>2. published' \in [Charges -> SUBSET PaymentStatus]
        <3>1. \/ PublishEvent(w)
              \/ UNCHANGED published
            BY <1>2 DEF PublishFails, AnswerLost, Abort
        <3>2. published \in [Charges -> SUBSET PaymentStatus]
            BY DEF Typed, TypeOK
        <3>3. handler[w].event.status \in PaymentStatus
            BY <1>0 DEF Announced, PaymentStatus
        <3>4. CASE PublishEvent(w)
            BY <1>0, <3>2, <3>3, <3>4 DEF PublishEvent
        <3>5. CASE UNCHANGED published
            BY <3>2, <3>5
        <3>6. QED
            BY <3>1, <3>4, <3>5
    <2>3. QED
        BY <1>2, <2>1, <2>2 DEF PublishFails, AnswerLost, Abort, Typed, TypeOK
<1>3. QED
    BY <1>1, <1>2 DEF HandlerFault

LEMMA StepTyped == Typed /\ [Next]_vars => Typed'
<1> SUFFICES ASSUME Typed, [Next]_vars PROVE Typed'
    OBVIOUS
<1>1. CASE Next
    BY <1>1, ChargeStepTyped, AdminStepTyped, HandlerStepTyped, HandlerFaultTyped,
       DeliverTyped
       DEF Next
<1>2. CASE UNCHANGED vars
    BY <1>2, HandlerFrame DEF vars, database, observed, Typed, TypeOK
<1>3. QED
    BY <1>1, <1>2

(* Every variable keeps its type; in particular no balance and no stored   *)
(* split is ever negative, whatever fees the administrator sets, because a *)
(* split that the table refuses is never credited.                         *)
THEOREM TypeInvariant == Spec => []TypeOK
<1>1. Spec => []Typed
    BY InitTyped, StepTyped, PTL DEF Spec
<1>2. QED
    BY <1>1, PTL DEF Typed

HIDE SettlementAssumption

-----------------------------------------------------------------------------
(* The inductive invariant.                                                *)

(* What an event announces has happened at OpenPay and is not undone,      *)
(* except that captured money may be given back.                           *)
EventTrue(e) ==
    IF e.status = "completed" THEN provider[e.charge] \in Captured
                              ELSE provider[e.charge] = e.status

EventsTrue == \A e \in outbox : EventTrue(e)

(* Where a redemption stands, and what that means for OpenPay and the row. *)
RedemptionsOK ==
    \A c \in Charges :
        /\ redeem[c] = "idle" <=> provider[c] = "none"
        /\ redeem[c] = "completed" => provider[c] \in Captured
        /\ payments[c].status # "none" <=> redeem[c] = "recorded"
        /\ c \in refunding =>
              provider[c] = "refunded" /\ payments[c].status # "none"

(* What a request h has achieved by the time it reaches a statement.       *)
Achieved(h) ==
    /\ h.pc # "idle" => EventTrue(h.event)
    /\ h.pc \notin {"idle", "find"} => payments[h.event.charge].status # "none"
    /\ h.event.status = "completed" =>
          /\ h.pc \in {"credit", "insert", "publish"} => Settled(h.event.charge)
          /\ h.pc = "publish" => Accounted(h.event.charge)

RequestsOK == \A w \in Workers : Achieved(handler[w])

IInv ==
    /\ Typed
    /\ EventsTrue
    /\ RedemptionsOK
    /\ RequestsOK
    /\ StatusNeverAheadOfProvider
    /\ CreditedIsSettled
    /\ AckedSuccessIsAccounted

-----------------------------------------------------------------------------
(* What no step undoes.                                                    *)

Stable ==
    /\ \A c \in Charges, status \in Announced :
          EventTrue(EventFor(c, status)) => EventTrue(EventFor(c, status))'
    /\ \A c \in Charges :
          /\ payments[c].status # "none" => payments'[c].status # "none"
          /\ Settled(c) => Settled(c)'
          /\ Accounted(c) => Accounted(c)'

LEMMA ChargeStepStable ==
    ASSUME IInv, NEW c \in Charges, ChargeStep(c)
    PROVE  Stable
<1> USE DEF database, observed
<1>0. /\ provider \in [Charges -> ProviderStatus]
      /\ payments \in [Charges -> PaymentRow]
    BY DEF IInv, Typed, TypeOK
<1> USE <1>0 DEF EventTrue, EventFor, Announced, Captured, Accounted
<1>1. CASE ProviderResolves(c)
    BY <1>1 DEF ProviderResolves, Stable, Settled
<1>2. CASE RedeemCharges(c)
    <2>1. provider[c] = "none"
        BY <1>2 DEF RedeemCharges, IInv, RedemptionsOK
    <2>2. QED
        BY <1>2, <2>1 DEF RedeemCharges, Stable, Settled
<1>3. CASE RedeemRecords(c)
    <2>1. payments[c].status = "none"
        BY <1>3 DEF RedeemRecords, IInv, RedemptionsOK
    <2>2. \A d \in Charges : d # c => payments'[d] = payments[d]
        BY <1>3 DEF RedeemRecords
    <2>3. QED
        BY <1>3, <2>1, <2>2 DEF RedeemRecords, Stable, Settled, Conserves
<1>4. CASE RedeemLosesRecord(c)
    BY <1>4 DEF RedeemLosesRecord, Stable, Settled
<1>5. CASE RefundAtProvider(c)
    BY <1>5 DEF RefundAtProvider, Stable, Settled
<1>6. CASE RefundStores(c)
    <2>1. payments' = [payments EXCEPT ![c] = [@ EXCEPT !.status = "refunded"]]
        BY <1>6 DEF RefundStores, UpdateStatusRow
    <2>2. \A d \in Charges :
             /\ payments[d].status # "none" => payments'[d].status # "none"
             /\ Conserves(payments[d]) => Conserves(payments'[d])
        BY <2>1 DEF PaymentRow, Conserves
    <2>3. QED
        BY <1>6, <2>2 DEF RefundStores, Stable, Settled, Conserves
<1>7. CASE RefundStoreFails(c)
    BY <1>7 DEF RefundStoreFails, Stable, Settled
<1>8. QED
    BY <1>1, <1>2, <1>3, <1>4, <1>5, <1>6, <1>7 DEF ChargeStep

LEMMA HandlerStepStable ==
    ASSUME IInv, NEW w \in Workers, HandlerStep(w) \/ HandlerFault(w)
    PROVE  Stable
<1> USE DEF database, observed
<1>0. /\ provider \in [Charges -> ProviderStatus]
      /\ payments \in [Charges -> PaymentRow]
      /\ credits \in [Charges -> Nat]
      /\ handler[w].event.status \in Announced
      /\ ChargeAt(w) \in Charges
      /\ RequestOK(handler[w])
    BY HandlerStepBusy, BusyHandler DEF IInv, Typed, TypeOK
<1> DEFINE c == ChargeAt(w)
<1>1. provider' = provider
    BY DEF HandlerStep, FindPayment, PaymentNotFound, ReadTenant, TenantNotFound,
           Settle, SettleRejected, StoreStatus, CreditUpdate, CreditMissesRow,
           CreditInsert, PublishAndAnswer,
           HandlerFault, CreditFails, PublishFails, AnswerLost, Abort
<1>2. CASE Settle(w)
    <2>1. payments' = [payments EXCEPT ![c] = SettleRow(handler[w].fees)]
        BY <1>2 DEF Settle
    <2>2. Conserves(handler[w].fees)
        BY <1>0, <1>2 DEF Settle, RequestOK
    <2>3. \A d \in Charges :
             /\ payments[d].status # "none" => payments'[d].status # "none"
             /\ Conserves(payments[d]) => Conserves(payments'[d])
        BY <1>0, <2>1, <2>2 DEF SettleRow, Conserves
    <2>4. UNCHANGED <<credits, critical>>
        BY <1>2 DEF Settle
    <2>5. QED
        BY <1>1, <2>3, <2>4 DEF Stable, Settled, Conserves, Accounted, EventTrue
<1>3. CASE StoreStatus(w)
    <2>1. payments' = [payments EXCEPT ![c] =
                          [@ EXCEPT !.status = handler[w].event.status]]
        BY <1>3 DEF StoreStatus, UpdateStatusRow
    <2>2. \A d \in Charges :
             /\ payments[d].status # "none" => payments'[d].status # "none"
             /\ Conserves(payments[d]) => Conserves(payments'[d])
        BY <1>0, <2>1 DEF PaymentRow, Conserves, Announced
    <2>3. UNCHANGED <<credits, critical>>
        BY <1>3 DEF StoreStatus
    <2>4. QED
        BY <1>1, <2>2, <2>3 DEF Stable, Settled, Conserves, Accounted, EventTrue
<1>4. CASE CreditUpdate(w) \/ CreditInsert(w)
    <2>1. \/ credits' = credits
          \/ credits' = [credits EXCEPT ![c] = @ + 1]
        BY <1>4 DEF CreditUpdate, CreditInsert, Observe
    <2>2. \A d \in Charges : credits[d] > 0 => credits'[d] > 0
        BY <1>0, <2>1
    <2>3. UNCHANGED <<payments, critical>>
        BY <1>4 DEF CreditUpdate, CreditInsert
    <2>4. QED
        BY <1>1, <2>2, <2>3 DEF Stable, Settled, Conserves, Accounted, EventTrue
<1>5. CASE CreditFails(w)
    <2>1. critical \subseteq critical' /\ UNCHANGED <<payments, credits>>
        BY <1>5 DEF CreditFails
    <2>2. QED
        BY <1>1, <2>1 DEF Stable, Settled, Conserves, Accounted, EventTrue
<1>6. CASE ~ (\/ Settle(w) \/ StoreStatus(w) \/ CreditUpdate(w) \/ CreditInsert(w)
              \/ CreditFails(w))
    <2>1. UNCHANGED <<payments, credits, critical>>
        BY <1>6 DEF HandlerStep, FindPayment, PaymentNotFound, ReadTenant,
                    TenantNotFound, SettleRejected, CreditMissesRow,
                    PublishAndAnswer, HandlerFault, PublishFails, AnswerLost, Abort
    <2>2. QED
        BY <1>1, <2>1 DEF Stable, Settled, Conserves, Accounted, EventTrue
<1>7. QED
    BY <1>2, <1>3, <1>4, <1>5, <1>6

LEMMA StepStable ==
    ASSUME IInv, [Next]_vars
    PROVE  Stable
<1>1. CASE \E c \in Charges : ChargeStep(c)
    BY <1>1, ChargeStepStable
<1>2. CASE \E w \in Workers : HandlerStep(w) \/ HandlerFault(w)
    BY <1>2, HandlerStepStable
<1>3. CASE \/ \E t \in Tenants : DeleteTenant(t) \/ UpdateTenantFee(t)
           \/ \E w \in Workers, e \in outbox : Deliver(w, e)
           \/ UNCHANGED vars
    <2>1. UNCHANGED <<provider, payments, credits, critical>>
        BY <1>3 DEF DeleteTenant, UpdateTenantFee, Deliver, vars, database, observed
    <2>2. QED
        BY <2>1 DEF Stable, Settled, Conserves, Accounted, EventTrue
<1>4. QED
    BY <1>1, <1>2, <1>3 DEF Next

-----------------------------------------------------------------------------
(* The parts of the invariant, one after the other.                        *)

(* An event enters the outbox only with the status that it announces.      *)
LEMMA EventsStep ==
    ASSUME IInv, [Next]_vars
    PROVE  EventsTrue'
<1>1. SUFFICES ASSUME NEW e \in outbox' PROVE EventTrue(e)'
    BY DEF EventsTrue
<1>2. CASE e \in outbox
    <2>1. /\ e = EventFor(e.charge, e.status)
          /\ e.charge \in Charges /\ e.status \in Announced
        BY <1>2 DEF IInv, Typed, TypeOK, Event, EventFor
    <2>2. EventTrue(e)
        BY <1>2 DEF IInv, EventsTrue
    <2>3. EventTrue(EventFor(e.charge, e.status))'
        BY <2>1, <2>2, StepStable DEF Stable
    <2>4. QED
        BY <2>1, <2>3 DEF EventTrue, EventFor
<1>3. CASE e \notin outbox
    <2>1. PICK c \in Charges : ChargeStep(c)
        BY <1>3
           DEF Next, DeleteTenant, UpdateTenantFee, Deliver, vars, database,
               HandlerStep, FindPayment, PaymentNotFound, ReadTenant,
               TenantNotFound, Settle, SettleRejected, StoreStatus, CreditUpdate,
               CreditMissesRow, CreditInsert, PublishAndAnswer,
               HandlerFault, CreditFails, PublishFails, AnswerLost, Abort
    <2>2. \E to \in ProviderStatus :
             /\ provider' = [provider EXCEPT ![c] = to]
             /\ e = EventFor(c, to)
        BY <1>3, <2>1
           DEF ChargeStep, ProviderResolves, RedeemCharges, RedeemRecords,
               RedeemLosesRecord, RefundAtProvider, RefundStores, RefundStoreFails,
               Notify, ProviderStatus, Announced, PaymentStatus
    <2>3. provider \in [Charges -> ProviderStatus]
        BY DEF IInv, Typed, TypeOK
    <2>4. QED
        BY <2>2, <2>3 DEF EventTrue, EventFor, Captured
<1>4. QED
    BY <1>2, <1>3

LEMMA RedemptionsStep ==
    ASSUME IInv, [Next]_vars
    PROVE  RedemptionsOK'
<1>0. /\ provider \in [Charges -> ProviderStatus]
      /\ payments \in [Charges -> PaymentRow]
      /\ redeem \in [Charges ->
            {"idle", "in_progress", "completed", "recorded", "lost"}]
      /\ RedemptionsOK
    BY DEF IInv, Typed, TypeOK
<1>1. CASE \E c \in Charges : ChargeStep(c)
    <2>1. PICK c \in Charges : ChargeStep(c)
        BY <1>1
    <2> USE <1>0 DEF RedemptionsOK, Captured, database, observed
    <2>2. CASE ProviderResolves(c)
        BY <2>2 DEF ProviderResolves, Announced
    <2>3. CASE RedeemCharges(c)
        BY <2>3 DEF RedeemCharges
    <2>4. CASE RedeemRecords(c)
        BY <2>4 DEF RedeemRecords, CreateRow
    <2>5. CASE RedeemLosesRecord(c)
        BY <2>5 DEF RedeemLosesRecord
    <2>6. CASE RefundAtProvider(c)
        BY <2>6 DEF RefundAtProvider
    <2>7. CASE RefundStores(c)
        BY <2>7 DEF RefundStores, UpdateStatusRow, PaymentRow
    <2>8. CASE RefundStoreFails(c)
        BY <2>8 DEF RefundStoreFails
    <2>9. QED
        BY <2>1, <2>2, <2>3, <2>4, <2>5, <2>6, <2>7, <2>8 DEF ChargeStep
<1>2. CASE \E w \in Workers : Settle(w) \/ StoreStatus(w)
    <2>1. PICK w \in Workers : Settle(w) \/ StoreStatus(w)
        BY <1>2
    <2>2. /\ ChargeAt(w) \in Charges
          /\ handler[w].event.status \in Announced
          /\ payments[ChargeAt(w)].status # "none"
        BY <2>1, BusyHandler
           DEF Settle, StoreStatus, IInv, RequestsOK, Achieved, ChargeAt
    <2>3. \A c \in Charges :
             payments'[c].status # "none" <=> payments[c].status # "none"
        BY <1>0, <2>1, <2>2
           DEF Settle, StoreStatus, SettleRow, UpdateStatusRow, PaymentRow, Announced
    <2>4. QED
        BY <1>0, <2>1, <2>3 DEF Settle, StoreStatus, RedemptionsOK
<1>3. CASE UNCHANGED <<provider, payments, redeem, refunding>>
    BY <1>0, <1>3 DEF RedemptionsOK
<1>4. QED
    BY <1>1, <1>2, <1>3
       DEF Next, DeleteTenant, UpdateTenantFee, Deliver, vars, database,
           HandlerStep, FindPayment, PaymentNotFound, ReadTenant,
           TenantNotFound, SettleRejected, CreditUpdate,
           CreditMissesRow, CreditInsert, PublishAndAnswer,
           HandlerFault, CreditFails, PublishFails, AnswerLost, Abort

(* What a request has achieved, no step takes away.                        *)
LEMMA AchievedStable ==
    ASSUME Stable, NEW h, h.pc # "idle" => h.event \in Event,
           h.event.status = "completed" => h.pc # "idle",
           Achieved(h)
    PROVE  Achieved(h)'
<1>1. CASE h.pc = "idle"
    BY <1>1 DEF Achieved
<1>2. CASE h.pc # "idle"
    <2>1. /\ h.event = EventFor(h.event.charge, h.event.status)
          /\ h.event.charge \in Charges /\ h.event.status \in Announced
        BY <1>2 DEF Event, EventFor
    <2>2. EventTrue(h.event)'
        BY <1>2, <2>1 DEF Achieved, Stable, EventTrue, EventFor
    <2>3. QED
        BY <1>2, <2>1, <2>2 DEF Achieved, Stable
<1>3. QED
    BY <1>1, <1>2

(* The request that takes a step has achieved what its next statement asks.*)
LEMMA ProceedAchieved ==
    ASSUME IInv, NEW w \in Workers, HandlerStep(w) \/ HandlerFault(w)
    PROVE  /\ \A v \in Workers : v # w => handler'[v] = handler[v]
           /\ Achieved(handler[w])'
<1> USE DEF database, observed
<1>0. /\ handler \in [Workers -> Handler]
      /\ payments \in [Charges -> PaymentRow]
      /\ credits \in [Charges -> Nat]
      /\ handler[w].pc # "idle"
      /\ handler[w].event \in Event
      /\ ChargeAt(w) \in Charges
      /\ handler[w].event.status \in Announced
      /\ RequestOK(handler[w])
      /\ Achieved(handler[w])
    BY HandlerStepBusy, BusyHandler DEF IInv, RequestsOK, Typed, TypeOK
<1>1. PICK h : h = handler'[w]
    OBVIOUS
<1>2. PICK e : e = handler[w].event
    OBVIOUS
<1>3. /\ e.charge = ChargeAt(w)
      /\ EventTrue(e)'
    <2>1. /\ e = EventFor(e.charge, e.status)
          /\ e.charge \in Charges /\ e.status \in Announced
        BY <1>0, <1>2 DEF Event, EventFor
    <2>2. EventTrue(e)
        BY <1>0, <1>2 DEF Achieved
    <2>3. EventTrue(EventFor(e.charge, e.status))'
        BY <2>1, <2>2, HandlerStepStable DEF Stable
    <2>4. QED
        BY <1>2, <2>1, <2>3 DEF EventTrue, EventFor, ChargeAt
<1>4. /\ \A v \in Workers : v # w => handler'[v] = handler[v]
      /\ Achieved(h)'
    <2>1. CASE Answer(w)
        <3>1. h.pc = "idle" /\ h.event.status # "completed"
            BY <1>0, <1>1, <2>1 DEF Answer, Idle, NoEvent
        <3>2. QED
            BY <1>0, <2>1, <3>1 DEF Answer, Achieved
    <2>2. ASSUME NEW pc, NEW fees, Proceed(w, pc, fees)
          PROVE  /\ h.pc = pc /\ h.event = e
                 /\ \A v \in Workers : v # w => handler'[v] = handler[v]
        BY <1>0, <1>1, <1>2, <2>2 DEF Proceed
    <2>3. CASE FindPayment(w) \/ ReadTenant(w) \/ CreditMissesRow(w)
        <3>1. /\ h.pc \in {"tenant", "status", "settle", "insert"}
              /\ h.event = e
              /\ h.pc = "insert" => handler[w].pc = "credit"
              /\ \A v \in Workers : v # w => handler'[v] = handler[v]
            BY <2>2, <2>3 DEF FindPayment, ReadTenant, CreditMissesRow, Goto
        <3>2. /\ payments[e.charge].status # "none"
              /\ payments' = payments
            BY <1>0, <1>2, <1>3, <2>3
               DEF FindPayment, ReadTenant, CreditMissesRow, Achieved
        <3>3. h.pc = "insert" /\ e.status = "completed" => Settled(e.charge)
            BY <1>0, <1>2, <3>1 DEF Achieved
        <3>4. QED
            BY <1>3, <3>1, <3>2, <3>3 DEF Achieved, Settled, Conserves
    <2>4. CASE Settle(w)
        <3>1. /\ h.pc = "credit" /\ h.event = e
              /\ \A v \in Workers : v # w => handler'[v] = handler[v]
            BY <2>2, <2>4 DEF Settle, Goto
        <3>2. /\ payments' = [payments EXCEPT ![e.charge] =
                                 SettleRow(handler[w].fees)]
              /\ Conserves(handler[w].fees)
            BY <1>0, <1>3, <2>4 DEF Settle, RequestOK
        <3>3. payments'[e.charge].status # "none" /\ Settled(e.charge)'
            BY <1>0, <1>3, <3>2 DEF SettleRow, Settled, Conserves
        <3>4. QED
            BY <1>3, <3>1, <3>3 DEF Achieved
    <2>5. CASE StoreStatus(w)
        <3>1. /\ h.event = e
              /\ \A v \in Workers : v # w => handler'[v] = handler[v]
            BY <2>2, <2>5 DEF StoreStatus, Goto
        <3>2. e.status # "completed"
            BY <1>0, <1>2, <2>5 DEF StoreStatus, RequestOK
        <3>3. payments'[e.charge].status # "none"
            BY <1>0, <1>2, <1>3, <2>5
               DEF StoreStatus, UpdateStatusRow, PaymentRow, Announced
        <3>4. QED
            BY <1>3, <3>1, <3>2, <3>3 DEF Achieved
    <2>6. CASE CreditUpdate(w) \/ CreditInsert(w) \/ CreditFails(w)
        <3>1. /\ h.pc = "publish" /\ h.event = e
              /\ \A v \in Workers : v # w => handler'[v] = handler[v]
            BY <2>2, <2>6 DEF CreditUpdate, CreditInsert, CreditFails, Goto
        <3>2. /\ handler[w].pc \in {"credit", "insert"}
              /\ payments' = payments
            BY <2>6 DEF CreditUpdate, CreditInsert, CreditFails
        <3>3. /\ payments[e.charge].status # "none"
              /\ e.status = "completed" => Settled(e.charge)
            BY <1>0, <1>2, <3>2 DEF Achieved
        <3>4. e.status = "completed" => Accounted(e.charge)'
            <4>1. CASE CreditUpdate(w) \/ CreditInsert(w)
                BY <1>0, <1>2, <1>3, <4>1
                   DEF CreditUpdate, CreditInsert, Observe, IsSuccess, Accounted
            <4>2. CASE CreditFails(w)
                BY <1>2, <1>3, <4>2 DEF CreditFails, IsSuccess, Accounted
            <4>3. QED
                BY <2>6, <4>1, <4>2
        <3>5. QED
            BY <1>3, <3>1, <3>2, <3>3, <3>4 DEF Achieved, Settled, Conserves
    <2>7. QED
        BY <2>1, <2>3, <2>4, <2>5, <2>6
           DEF HandlerStep, PaymentNotFound, TenantNotFound, SettleRejected,
               PublishAndAnswer, HandlerFault, PublishFails, AnswerLost, Abort
<1>5. QED
    BY <1>1, <1>4 DEF Achieved, EventTrue, Settled, Accounted, Conserves

LEMMA RequestsStep ==
    ASSUME IInv, [Next]_vars
    PROVE  RequestsOK'
<1>0. /\ handler \in [Workers -> Handler]
      /\ \A v \in Workers : RequestOK(handler[v]) /\ Achieved(handler[v])
    BY DEF IInv, RequestsOK, Typed, TypeOK, HandlerOK
<1>1. \A v \in Workers : Achieved(handler[v])'  \/ handler'[v] # handler[v]
    <2>1. SUFFICES ASSUME NEW v \in Workers, handler'[v] = handler[v]
                   PROVE  Achieved(handler[v])'
        OBVIOUS
    <2>2. PICK h : h = handler[v]
        OBVIOUS
    <2>3. /\ h.pc # "idle" => h.event \in Event
          /\ h.event.status = "completed" => h.pc # "idle"
        BY <1>0, <2>2 DEF Handler, RequestOK, NoEvent
    <2>4. Achieved(h)'
        BY <1>0, <2>2, <2>3, StepStable, AchievedStable
    <2>5. QED
        BY <2>1, <2>2, <2>4 DEF Achieved, EventTrue, Settled, Accounted, Conserves
<1>2. CASE \E w \in Workers : HandlerStep(w) \/ HandlerFault(w)
    <2>1. PICK w \in Workers : HandlerStep(w) \/ HandlerFault(w)
        BY <1>2
    <2>2. \A v \in Workers : v # w => handler'[v] = handler[v]
        BY <2>1, ProceedAchieved
    <2>3. Achieved(handler[w])'
        BY <2>1, ProceedAchieved
    <2>4. QED
        BY <1>1, <2>2, <2>3 DEF RequestsOK
<1>3. CASE \E w \in Workers, e \in outbox : Deliver(w, e)
    <2>1. PICK w \in Workers, e \in outbox : Deliver(w, e)
        BY <1>3
    <2>2. \A v \in Workers : v # w => handler'[v] = handler[v]
        BY <1>0, <2>1 DEF Deliver
    <2>3. EventTrue(e) /\ UNCHANGED provider
        BY <2>1 DEF Deliver, IInv, EventsTrue
    <2>4. Achieved(handler[w])'
        BY <1>0, <2>1, <2>3 DEF Deliver, Achieved, EventTrue
    <2>5. QED
        BY <1>1, <2>2, <2>4 DEF RequestsOK
<1>4. CASE UNCHANGED handler
    BY <1>1, <1>4 DEF RequestsOK
<1>5. QED
    BY <1>2, <1>3, <1>4
       DEF Next, ChargeStep, ProviderResolves, RedeemCharges, RedeemRecords,
           RedeemLosesRecord, RefundAtProvider, RefundStores, RefundStoreFails,
           DeleteTenant, UpdateTenantFee, vars

(* The stored status follows OpenPay: the webhook and the refund store only*)
(* what an event or an answer said, the redemption what OpenPay answered.  *)
LEMMA StatusStep ==
    ASSUME IInv, [Next]_vars
    PROVE  StatusNeverAheadOfProvider'
<1>0. /\ provider \in [Charges -> ProviderStatus]
      /\ payments \in [Charges -> PaymentRow]
      /\ StatusNeverAheadOfProvider
      /\ RedemptionsOK
    BY DEF IInv, Typed, TypeOK
<1>1. CASE \E c \in Charges : ChargeStep(c)
    <2>1. PICK c \in Charges : ChargeStep(c)
        BY <1>1
    <2> USE <1>0
        DEF StatusNeverAheadOfProvider, RedemptionsOK, Captured, database, observed
    <2>2. CASE ProviderResolves(c)
        BY <2>2 DEF ProviderResolves, Announced
    <2>3. CASE RedeemCharges(c)
        BY <2>3 DEF RedeemCharges
    <2>4. CASE RedeemRecords(c)
        BY <2>4 DEF RedeemRecords, CreateRow
    <2>5. CASE RedeemLosesRecord(c) \/ RefundStoreFails(c)
        BY <2>5 DEF RedeemLosesRecord, RefundStoreFails
    <2>6. CASE RefundAtProvider(c)
        BY <2>6 DEF RefundAtProvider
    <2>7. CASE RefundStores(c)
        BY <2>7 DEF RefundStores, UpdateStatusRow, PaymentRow
    <2>8. QED
        BY <2>1, <2>2, <2>3, <2>4, <2>5, <2>6, <2>7 DEF ChargeStep
<1>2. CASE \E w \in Workers : Settle(w) \/ StoreStatus(w)
    <2>1. PICK w \in Workers : Settle(w) \/ StoreStatus(w)
        BY <1>2
    <2>2. /\ ChargeAt(w) \in Charges
          /\ EventTrue(handler[w].event)
          /\ handler[w].pc = "settle" => handler[w].event.status = "completed"
        BY <2>1, BusyHandler
           DEF Settle, StoreStatus, IInv, RequestsOK, Achieved, RequestOK
    <2>3. CASE Settle(w)
        BY <1>0, <2>2, <2>3
           DEF Settle, SettleRow, EventTrue, ChargeAt, StatusNeverAheadOfProvider
    <2>4. CASE StoreStatus(w)
        BY <1>0, <2>2, <2>4
           DEF StoreStatus, UpdateStatusRow, EventTrue, ChargeAt, PaymentRow,
               StatusNeverAheadOfProvider
    <2>5. QED
        BY <2>1, <2>3, <2>4
<1>3. CASE UNCHANGED <<provider, payments>>
    BY <1>0, <1>3 DEF StatusNeverAheadOfProvider
<1>4. QED
    BY <1>1, <1>2, <1>3
       DEF Next, DeleteTenant, UpdateTenantFee, Deliver, vars, database,
           HandlerStep, FindPayment, PaymentNotFound, ReadTenant,
           TenantNotFound, SettleRejected, CreditUpdate,
           CreditMissesRow, CreditInsert, PublishAndAnswer,
           HandlerFault, CreditFails, PublishFails, AnswerLost, Abort

(* Only a request that has settled the payment credits it.                 *)
LEMMA CreditedStep ==
    ASSUME IInv, [Next]_vars
    PROVE  CreditedIsSettled'
<1>0. SUFFICES ASSUME NEW c \in Charges, credits'[c] > 0
               PROVE  Settled(c)' /\ provider'[c] \in Captured
    BY DEF CreditedIsSettled
<1>1. Stable /\ credits \in [Charges -> Nat]
    BY StepStable DEF IInv, Typed, TypeOK
<1>2. provider[c] \in Captured => provider'[c] \in Captured
    BY <1>1 DEF Stable, EventTrue, EventFor, Announced
<1>3. CASE credits[c] > 0
    BY <1>1, <1>2, <1>3 DEF IInv, CreditedIsSettled, Stable
<1>4. CASE ~ (credits[c] > 0)
    <2>1. credits' # credits
        BY <1>0, <1>4
    <2>2. PICK w \in Workers : CreditUpdate(w) \/ CreditInsert(w)
        BY <2>1
           DEF Next, ChargeStep, ProviderResolves, RedeemCharges, RedeemRecords,
               RedeemLosesRecord, RefundAtProvider, RefundStores, RefundStoreFails,
               DeleteTenant, UpdateTenantFee, Deliver, vars, observed,
               HandlerStep, FindPayment, PaymentNotFound, ReadTenant,
               TenantNotFound, Settle, SettleRejected, StoreStatus,
               CreditMissesRow, PublishAndAnswer,
               HandlerFault, CreditFails, PublishFails, AnswerLost, Abort
    <2>3. handler[w].event.status = "completed" /\ c = ChargeAt(w)
        BY <1>0, <1>1, <1>4, <2>1, <2>2, BusyHandler
           DEF CreditUpdate, CreditInsert, Observe, IsSuccess, IInv
    <2>4. Settled(c) /\ provider[c] \in Captured
        BY <2>2, <2>3
           DEF CreditUpdate, CreditInsert, IInv, RequestsOK, Achieved, EventTrue,
               ChargeAt
    <2>5. QED
        BY <1>1, <1>2, <2>4 DEF Stable
<1>5. QED
    BY <1>3, <1>4

(* An event leaves the outbox only when a request has reached its end.     *)
LEMMA AckedStep ==
    ASSUME IInv, [Next]_vars
    PROVE  AckedSuccessIsAccounted'
<1>0. SUFFICES ASSUME NEW c \in Charges, provider'[c] \in Captured,
                      Success(c) \notin outbox'
               PROVE  Settled(c)' /\ Accounted(c)'
    BY DEF AckedSuccessIsAccounted, Success, EventFor, Accounted
<1>1. Stable /\ provider \in [Charges -> ProviderStatus]
    BY StepStable DEF IInv, Typed, TypeOK
<1>2. CASE provider[c] \in Captured /\ Success(c) \notin outbox
    <2>1. Settled(c) /\ Accounted(c)
        BY <1>2 DEF IInv, AckedSuccessIsAccounted, Accounted
    <2>2. QED
        BY <1>1, <2>1 DEF Stable
<1>3. CASE provider[c] \notin Captured
    <2>1. PICK d \in Charges :
             ProviderResolves(d) \/ RedeemCharges(d) \/ RefundAtProvider(d)
        BY <1>0, <1>3
           DEF Next, ChargeStep, RedeemRecords, RedeemLosesRecord, RefundStores,
               RefundStoreFails, DeleteTenant, UpdateTenantFee, Deliver, vars,
               HandlerStep, FindPayment, PaymentNotFound, ReadTenant,
               TenantNotFound, Settle, SettleRejected, StoreStatus, CreditUpdate,
               CreditMissesRow, CreditInsert, PublishAndAnswer,
               HandlerFault, CreditFails, PublishFails, AnswerLost, Abort
    <2>2. d = c /\ Success(c) \in outbox'
        BY <1>0, <1>1, <1>3, <2>1
           DEF ProviderResolves, RedeemCharges, RefundAtProvider, Notify, Announced,
               Captured, Success
    <2>3. QED
        BY <1>0, <2>2
<1>4. CASE Success(c) \in outbox
    <2>1. PICK w \in Workers :
             handler[w].pc = "publish" /\ outbox' = outbox \ {handler[w].event}
        BY <1>0, <1>4
           DEF Next, ChargeStep, ProviderResolves, RedeemCharges, RedeemRecords,
               RedeemLosesRecord, RefundAtProvider, RefundStores, RefundStoreFails,
               Notify, DeleteTenant, UpdateTenantFee, Deliver, vars,
               HandlerStep, FindPayment, PaymentNotFound, ReadTenant,
               TenantNotFound, Settle, SettleRejected, StoreStatus, CreditUpdate,
               CreditMissesRow, CreditInsert, PublishAndAnswer,
               HandlerFault, CreditFails, PublishFails, AnswerLost, Abort
    <2>2. handler[w].event = Success(c)
        BY <1>0, <1>4, <2>1
    <2>3. Settled(c) /\ Accounted(c)
        BY <2>1, <2>2 DEF IInv, RequestsOK, Achieved, Success, EventFor
    <2>4. QED
        BY <1>1, <2>3 DEF Stable
<1>5. QED
    BY <1>2, <1>3, <1>4

-----------------------------------------------------------------------------
LEMMA InitIInv == Init => IInv
<1> SUFFICES ASSUME Init PROVE IInv
    OBVIOUS
<1>1. Typed
    BY InitTyped
<1>2. EventsTrue /\ RedemptionsOK /\ StatusNeverAheadOfProvider
      /\ AckedSuccessIsAccounted
    BY DEF Init, EventsTrue, RedemptionsOK, StatusNeverAheadOfProvider, NoPayment,
           AckedSuccessIsAccounted, Captured
<1>3. RequestsOK
    BY DEF Init, RequestsOK, Achieved, Idle, NoEvent
<1>4. CreditedIsSettled
    BY DEF Init, CreditedIsSettled
<1>5. QED
    BY <1>1, <1>2, <1>3, <1>4 DEF IInv

LEMMA NextIInv == IInv /\ [Next]_vars => IInv'
<1> SUFFICES ASSUME IInv, [Next]_vars PROVE IInv'
    OBVIOUS
<1>1. Typed'
    BY StepTyped DEF IInv
<1>2. QED
    BY <1>1, EventsStep, RedemptionsStep, RequestsStep, StatusStep, CreditedStep,
       AckedStep
       DEF IInv

LEMMA Inductive == Spec => []IInv
BY InitIInv, NextIInv, PTL DEF Spec

(* A notification of a captured charge is answered 200 only once the split *)
(* is stored and the credit made or logged for reconciliation, whatever    *)
(* requests overlap and wherever they fail.                                *)
THEOREM AckedIsAccounted == Spec => []AckedSuccessIsAccounted
BY Inductive, PTL DEF IInv

(* No money that OpenPay did not capture is ever credited, nor any whose   *)
(* split is not stored.                                                    *)
THEOREM CreditsAreSettled == Spec => []CreditedIsSettled
BY Inductive, PTL DEF IInv

(* The stored status is never one the charge has not had at OpenPay.       *)
THEOREM StatusFollowsProvider == Spec => []StatusNeverAheadOfProvider
BY Inductive, PTL DEF IInv

(* A step that changes a settled payment changes its status only, or is    *)
(* another settlement: the redemption never writes the row again.          *)
LEMMA SplitStep ==
    ASSUME IInv, [Next]_vars, NEW c \in Charges, Settled(c)
    PROVE  \/ payments'[c] = [payments[c] EXCEPT !.status = payments'[c].status]
           \/ payments'[c].status = "completed" /\ Settled(c)'
<1>0. /\ payments \in [Charges -> PaymentRow]
      /\ Settled(c)'
    BY StepStable DEF IInv, Typed, TypeOK, Stable
<1>1. CASE \E d \in Charges : RedeemRecords(d)
    BY <1>0, <1>1 DEF RedeemRecords, IInv, RedemptionsOK, Settled, PaymentRow
<1>2. CASE \E d \in Charges : RefundStores(d)
    <2>1. PICK d \in Charges :
             payments' = [payments EXCEPT ![d] = [@ EXCEPT !.status = "refunded"]]
        BY <1>2 DEF RefundStores, UpdateStatusRow
    <2>2. QED
        BY <1>0, <2>1 DEF PaymentRow
<1>3. CASE \E w \in Workers : StoreStatus(w)
    <2>1. PICK w \in Workers : StoreStatus(w)
        BY <1>3
    <2>2. payments' = [payments EXCEPT ![ChargeAt(w)] =
                          [@ EXCEPT !.status = handler[w].event.status]]
        BY <2>1 DEF StoreStatus, UpdateStatusRow
    <2>3. QED
        BY <1>0, <2>2 DEF PaymentRow
<1>4. CASE \E w \in Workers : Settle(w)
    <2>1. PICK w \in Workers :
             payments' = [payments EXCEPT ![ChargeAt(w)] = SettleRow(handler[w].fees)]
        BY <1>4 DEF Settle
    <2>2. QED
        BY <1>0, <2>1 DEF SettleRow, PaymentRow
<1>5. CASE UNCHANGED payments
    BY <1>0, <1>5 DEF PaymentRow
<1>6. QED
    BY <1>1, <1>2, <1>3, <1>4, <1>5
       DEF Next, ChargeStep, ProviderResolves, RedeemCharges, RedeemLosesRecord,
           RefundAtProvider, RefundStoreFails, DeleteTenant, UpdateTenantFee,
           Deliver, vars, database, HandlerStep, FindPayment, PaymentNotFound,
           ReadTenant, TenantNotFound, SettleRejected, CreditUpdate,
           CreditMissesRow, CreditInsert, PublishAndAnswer,
           HandlerFault, CreditFails, PublishFails, AnswerLost, Abort

(* The amounts of a settled payment survive refunds, chargebacks and late  *)
(* notifications; only handleChargeSucceeded writes them anew.             *)
THEOREM SplitsSurvive == Spec => SplitSurvives
<1>1. IInv /\ [Next]_vars =>
         [\A c \in Charges :
             Settled(c) =>
                \/ payments'[c] = [payments[c] EXCEPT !.status = payments'[c].status]
                \/ payments'[c].status = "completed" /\ Settled(c)']_payments
    BY SplitStep
<1>2. QED
    BY Inductive, <1>1, PTL DEF Spec, SplitSurvives
-----------------------------------------------------------------------------
(* How often a charge can be credited, counted against the faults, for any *)
(* number of charges, requests in progress and faults.                     *)

(* Requests that may still credit the charge.                              *)
Pending(c) ==
    {w \in Workers : handler[w].event = Success(c) /\ handler[w].pc # "publish"}

(* OpenPay will start one more such request without any fault.             *)
Owed(c) ==
    \/ provider[c] \notin Captured
    \/ Success(c) \in outbox /\ Serving(Success(c)) = {}

Outstanding(c) == Cardinality(Pending(c)) + (IF Owed(c) THEN 1 ELSE 0)

CreditBudget == \A c \in Charges : credits[c] + Outstanding(c) <= 1 + faults

CInv == IInv /\ CreditBudget

-----------------------------------------------------------------------------
LEMMA PendingFinite ==
    ASSUME NEW c \in Charges
    PROVE  /\ IsFiniteSet(Pending(c))
           /\ Cardinality(Pending(c)) \in Nat
<1>1. Pending(c) \subseteq Workers
    BY DEF Pending
<1>2. IsFiniteSet(Pending(c))
    BY <1>1, FS_Subset, SettlementAssumption
<1>3. QED
    BY <1>2, FS_CardinalityType

(* Captured stays captured, and OpenPay announces it once.                 *)
LEMMA OwedShrinks ==
    ASSUME IInv, NEW d \in Charges, ChargeStep(d), NEW c \in Charges
    PROVE  /\ Pending(c)' = Pending(c)
           /\ Owed(c)' => Owed(c)
           /\ credits' = credits /\ faults' \in Nat /\ faults <= faults'
<1> USE DEF database, observed, Fault
<1>1. /\ UNCHANGED <<handler, credits>>
      /\ provider \in [Charges -> ProviderStatus]
      /\ faults \in Nat
    BY DEF ChargeStep, ProviderResolves, RedeemCharges, RedeemRecords,
           RedeemLosesRecord, RefundAtProvider, RefundStores, RefundStoreFails,
           IInv, Typed, TypeOK
<1>2. Pending(c)' = Pending(c) /\ Serving(Success(c))' = Serving(Success(c))
    BY <1>1 DEF Pending, Serving
<1>3. faults' \in Nat /\ faults <= faults'
    BY <1>1
       DEF ChargeStep, ProviderResolves, RedeemCharges, RedeemRecords,
           RedeemLosesRecord, RefundAtProvider, RefundStores, RefundStoreFails
<1>4. provider[c] \in Captured =>
         /\ provider'[c] \in Captured
         /\ Success(c) \in outbox' => Success(c) \in outbox
    BY <1>1
       DEF ChargeStep, ProviderResolves, RedeemCharges, RedeemRecords,
           RedeemLosesRecord, RefundAtProvider, RefundStores, RefundStoreFails,
           Notify, Announced, Captured, Success, EventFor, IInv, RedemptionsOK
<1>5. QED
    BY <1>1, <1>2, <1>3, <1>4 DEF Owed

(* A delivery: owed already, or paid for by a fault.                       *)
LEMMA DeliverBudget ==
    ASSUME CInv, NEW w \in Workers, NEW e \in outbox, Deliver(w, e),
           NEW c \in Charges
    PROVE  (credits[c] + Outstanding(c) <= 1 + faults)'
<1>0. /\ handler \in [Workers -> Handler]
      /\ credits[c] \in Nat /\ faults \in Nat
      /\ credits[c] + Outstanding(c) <= 1 + faults
      /\ handler[w].event = NoEvent
      /\ NoEvent # Success(c)
    BY SettlementAssumption
       DEF Deliver, CInv, CreditBudget, IInv, Typed, TypeOK, HandlerOK, RequestOK,
           NoEvent, Success, EventFor
<1>1. /\ handler' = [handler EXCEPT ![w] =
                        [pc |-> "find", event |-> e, fees |-> NoFees]]
      /\ UNCHANGED <<provider, outbox, credits>>
      /\ IF Serving(e) = {} THEN faults' = faults ELSE faults' = faults + 1
    BY DEF Deliver, observed, Fault
<1>2. PICK P, Q : P = Pending(c) /\ Q = Pending(c)'
    OBVIOUS
<1>3. IsFiniteSet(P) /\ Cardinality(P) \in Nat
    BY <1>2, PendingFinite
<1>4. CASE e # Success(c)
    <2>1. Q = P
        BY <1>0, <1>1, <1>2, <1>4 DEF Pending
    <2>2. Serving(Success(c))' = Serving(Success(c))
        BY <1>0, <1>1, <1>4 DEF Serving
    <2>3. Owed(c)' <=> Owed(c)
        BY <1>1, <2>2 DEF Owed
    <2>4. QED
        BY <1>0, <1>1, <1>2, <1>3, <2>1, <2>3 DEF Outstanding
<1>5. CASE e = Success(c)
    <2>1. Q = P \cup {w} /\ w \notin P
        BY <1>0, <1>1, <1>2, <1>5 DEF Pending
    <2>2. Cardinality(Q) = Cardinality(P) + 1
        BY <1>3, <2>1, FS_AddElement
    <2>3. w \in Serving(Success(c))'
        BY <1>0, <1>1, <1>5 DEF Serving
    <2>4. provider[c] \in Captured
        BY <1>5 DEF CInv, IInv, EventsTrue, EventTrue, Success, EventFor
    <2>5. ~Owed(c)'
        BY <1>1, <2>3, <2>4 DEF Owed
    <2>6. Serving(e) = {} => Owed(c)
        BY <1>5 DEF Owed
    <2>7. QED
        BY <1>0, <1>1, <1>2, <1>3, <2>2, <2>5, <2>6 DEF Outstanding
<1>6. QED
    BY <1>4, <1>5

(* A step of a request: a credit spends the place of the request, an end   *)
(* without a 200 gives it back to OpenPay.                                 *)
LEMMA HandlerBudget ==
    ASSUME CInv, NEW w \in Workers, HandlerStep(w) \/ HandlerFault(w),
           NEW c \in Charges
    PROVE  (credits[c] + Outstanding(c) <= 1 + faults)'
<1> USE DEF database, observed, Fault
<1>0. /\ handler \in [Workers -> Handler]
      /\ credits \in [Charges -> Nat] /\ faults \in Nat
      /\ credits[c] + Outstanding(c) <= 1 + faults
      /\ handler[w].pc # "idle"
      /\ handler[w].event \in Event
      /\ NoEvent # Success(c)
    BY SettlementAssumption, HandlerStepBusy, BusyHandler
       DEF CInv, CreditBudget, IInv, Typed, TypeOK, NoEvent, Success, EventFor
<1>1. UNCHANGED provider
    BY DEF HandlerStep, FindPayment, PaymentNotFound, ReadTenant, TenantNotFound,
           Settle, SettleRejected, StoreStatus, CreditUpdate, CreditMissesRow,
           CreditInsert, PublishAndAnswer,
           HandlerFault, CreditFails, PublishFails, AnswerLost, Abort
<1>2. PICK P, Q : P = Pending(c) /\ Q = Pending(c)'
    OBVIOUS
<1>3. IsFiniteSet(P) /\ Cardinality(P) \in Nat
    BY <1>2, PendingFinite
<1>4. ASSUME NEW pc, NEW fees, Proceed(w, pc, fees)
      PROVE  handler' = [handler EXCEPT ![w] =
                [pc |-> pc, event |-> handler[w].event, fees |-> fees]]
    BY <1>4 DEF Proceed
<1>5. CASE handler[w].event # Success(c)
    <2>1. credits'[c] = credits[c]
        <3>1. ~ (IsSuccess(w) /\ ChargeAt(w) = c)
            BY <1>0, <1>5 DEF IsSuccess, ChargeAt, Success, EventFor, Event
        <3>2. \/ credits' = credits
              \/ IsSuccess(w) /\ credits' = [credits EXCEPT ![ChargeAt(w)] = @ + 1]
            BY DEF HandlerStep, FindPayment, PaymentNotFound, ReadTenant,
                   TenantNotFound, Settle, SettleRejected, StoreStatus,
                   CreditUpdate, CreditMissesRow, CreditInsert, PublishAndAnswer,
                   HandlerFault, CreditFails, PublishFails, AnswerLost, Abort,
                   Observe
        <3>3. QED
            BY <1>0, <3>1, <3>2
    <2>2. /\ \A v \in Workers : v # w => handler'[v] = handler[v]
          /\ handler'[w].event # Success(c)
        BY <1>0, <1>4, <1>5
           DEF HandlerStep, FindPayment, PaymentNotFound, ReadTenant,
               TenantNotFound, Settle, SettleRejected, StoreStatus,
               CreditUpdate, CreditMissesRow, CreditInsert, PublishAndAnswer,
               HandlerFault, CreditFails, PublishFails, AnswerLost, Abort,
               Goto, Answer, Idle
    <2>3. Q = P /\ Serving(Success(c))' = Serving(Success(c))
        BY <1>2, <1>5, <2>2 DEF Pending, Serving
    <2>4. outbox' \in {outbox, outbox \ {handler[w].event}}
        BY DEF HandlerStep, FindPayment, PaymentNotFound, ReadTenant,
               TenantNotFound, Settle, SettleRejected, StoreStatus,
               CreditUpdate, CreditMissesRow, CreditInsert, PublishAndAnswer,
               HandlerFault, CreditFails, PublishFails, AnswerLost, Abort
    <2>5. Owed(c)' <=> Owed(c)
        BY <1>1, <1>5, <2>3, <2>4 DEF Owed
    <2>6. faults' \in {faults, faults + 1}
        BY DEF HandlerStep, FindPayment, PaymentNotFound, ReadTenant,
               TenantNotFound, Settle, SettleRejected, StoreStatus,
               CreditUpdate, CreditMissesRow, CreditInsert, PublishAndAnswer,
               HandlerFault, CreditFails, PublishFails, AnswerLost, Abort
    <2>7. QED
        BY <1>0, <1>2, <1>3, <2>1, <2>3, <2>5, <2>6 DEF Outstanding
<1>6. CASE handler[w].event = Success(c)
    <2>1. provider[c] \in Captured /\ w \in Serving(Success(c))
        BY <1>0, <1>6
           DEF CInv, IInv, RequestsOK, Achieved, EventTrue, Success, EventFor, Serving
    <2>2. ~Owed(c)
        BY <2>1 DEF Owed
    <2>3. IsSuccess(w) /\ ChargeAt(w) = c
        BY <1>6 DEF IsSuccess, ChargeAt, Success, EventFor
    <2>4. credits[c] + Cardinality(P) <= 1 + faults
        <3>1. Outstanding(c) = Cardinality(P)
            BY <1>2, <1>3, <2>2 DEF Outstanding
        <3>2. QED
            BY <1>0, <3>1
    <2>5. /\ Cardinality(P \ {w}) \in Nat
          /\ Cardinality(P \ {w}) =
                IF handler[w].pc # "publish" THEN Cardinality(P) - 1
                                             ELSE Cardinality(P)
        <3>1. w \in P <=> handler[w].pc # "publish"
            BY <1>2, <1>6 DEF Pending
        <3>2. IsFiniteSet(P \ {w})
            BY <1>3, FS_RemoveElement
        <3>3. QED
            BY <1>3, <3>1, <3>2, FS_RemoveElement, FS_CardinalityType
    <2>6. CASE Answer(w)
        <3>1. Q = P \ {w}
            BY <1>0, <1>2, <2>6 DEF Pending, Answer, Idle
        <3>2. CASE PaymentNotFound(w) \/ TenantNotFound(w) \/ SettleRejected(w)
            <4>1. UNCHANGED <<credits, faults>> /\ handler[w].pc # "publish"
                BY <3>2 DEF PaymentNotFound, TenantNotFound, SettleRejected
            <4>2. QED
                BY <1>0, <1>2, <1>3, <2>4, <2>5, <3>1, <4>1 DEF Outstanding
        <3>3. CASE PublishAndAnswer(w) \/ PublishFails(w)
            <4>1. /\ UNCHANGED credits
                  /\ faults' \in {faults, faults + 1}
                  /\ outbox' = outbox \ {Success(c)}
                BY <1>6, <3>3 DEF PublishAndAnswer, PublishFails
            <4>2. ~Owed(c)'
                BY <1>1, <2>1, <4>1 DEF Owed
            <4>3. QED
                BY <1>0, <1>2, <1>3, <2>4, <2>5, <3>1, <4>1, <4>2 DEF Outstanding
        <3>4. CASE AnswerLost(w) \/ Abort(w)
            <4>1. UNCHANGED credits /\ faults' = faults + 1
                BY <3>4 DEF AnswerLost, Abort
            <4>2. QED
                BY <1>0, <1>2, <1>3, <2>4, <2>5, <3>1, <4>1 DEF Outstanding
        <3>5. CASE /\ ~ (PaymentNotFound(w) \/ TenantNotFound(w) \/ SettleRejected(w))
                   /\ ~ (PublishAndAnswer(w) \/ PublishFails(w))
                   /\ ~ (AnswerLost(w) \/ Abort(w))
            <4>1. \E pc \in Statement : \E fees : Proceed(w, pc, fees)
                BY <3>5
                   DEF HandlerStep, FindPayment, ReadTenant, Settle, StoreStatus,
                       CreditUpdate, CreditMissesRow, CreditInsert,
                       HandlerFault, CreditFails, Goto, Statement
            <4>2. QED
                BY <1>0, <2>6, <4>1 DEF Answer, Proceed, Idle, Statement
        <3>6. QED
            BY <3>2, <3>3, <3>4, <3>5
    <2>7. ASSUME NEW pc, NEW fees, Proceed(w, pc, fees)
          PROVE  /\ Q = IF pc = "publish" THEN P \ {w} ELSE P \cup {w}
                 /\ w \in Serving(Success(c))'
        BY <1>0, <1>2, <1>4, <1>6, <2>7 DEF Pending, Serving
    <2>8. CASE \/ FindPayment(w) \/ ReadTenant(w) \/ Settle(w)
               \/ CreditMissesRow(w)
        <3>1. /\ Q = P \cup {w}
              /\ w \in Serving(Success(c))'
            BY <2>3, <2>7, <2>8
               DEF FindPayment, ReadTenant, Settle, CreditMissesRow, Goto
        <3>2. UNCHANGED <<credits, faults>> /\ handler[w].pc # "publish"
            BY <2>8 DEF FindPayment, ReadTenant, Settle, CreditMissesRow
        <3>3. w \in P
            BY <1>2, <1>6, <3>2 DEF Pending
        <3>4. Q = P /\ ~Owed(c)'
            BY <1>1, <2>1, <3>1, <3>3 DEF Owed
        <3>5. QED
            BY <1>0, <1>2, <1>3, <2>4, <3>2, <3>4 DEF Outstanding
    <2>9. CASE CreditUpdate(w) \/ CreditInsert(w) \/ CreditFails(w)
        <3>1. /\ Q = P \ {w}
              /\ w \in Serving(Success(c))'
            BY <2>7, <2>9 DEF CreditUpdate, CreditInsert, CreditFails, Goto
        <3>2. /\ handler[w].pc # "publish"
              /\ credits'[c] \in {credits[c], credits[c] + 1}
              /\ faults' \in {faults, faults + 1}
            BY <1>0, <2>3, <2>9
               DEF CreditUpdate, CreditInsert, CreditFails, Observe
        <3>3. ~Owed(c)'
            BY <1>1, <2>1, <3>1 DEF Owed
        <3>4. QED
            BY <1>0, <1>2, <1>3, <2>4, <2>5, <3>1, <3>2, <3>3 DEF Outstanding
    <2>10. ~StoreStatus(w)
        BY <2>3 DEF StoreStatus, CInv, IInv, Typed, HandlerOK, RequestOK, IsSuccess
    <2>11. QED
        BY <2>6, <2>8, <2>9, <2>10
           DEF HandlerStep, PaymentNotFound, TenantNotFound, SettleRejected,
               PublishAndAnswer, HandlerFault, PublishFails, AnswerLost, Abort
<1>7. QED
    BY <1>5, <1>6

LEMMA BudgetStep == CInv /\ [Next]_vars => CreditBudget'
<1> SUFFICES ASSUME CInv, [Next]_vars, NEW c \in Charges
             PROVE  (credits[c] + Outstanding(c) <= 1 + faults)'
    BY DEF CreditBudget
<1>0. /\ credits[c] + Outstanding(c) <= 1 + faults
      /\ credits[c] \in Nat /\ faults \in Nat
      /\ Cardinality(Pending(c)) \in Nat
    BY PendingFinite, SettlementAssumption DEF CInv, CreditBudget, IInv, Typed, TypeOK
<1>1. CASE \E d \in Charges : ChargeStep(d)
    <2>1. PICK d \in Charges : ChargeStep(d)
        BY <1>1
    <2>2. /\ Pending(c)' = Pending(c)
          /\ Owed(c)' => Owed(c)
          /\ credits' = credits /\ faults' \in Nat /\ faults <= faults'
        BY <2>1, OwedShrinks DEF CInv
    <2>3. QED
        BY <1>0, <2>2 DEF Outstanding
<1>2. CASE \E w \in Workers : HandlerStep(w) \/ HandlerFault(w)
    BY <1>2, HandlerBudget
<1>3. CASE \E w \in Workers, e \in outbox : Deliver(w, e)
    BY <1>3, DeliverBudget
<1>4. CASE \/ \E t \in Tenants : DeleteTenant(t) \/ UpdateTenantFee(t)
           \/ UNCHANGED vars
    <2>1. UNCHANGED <<provider, outbox, handler, credits, faults>>
        BY <1>4 DEF DeleteTenant, UpdateTenantFee, vars, observed
    <2>2. Pending(c)' = Pending(c) /\ (Owed(c)' <=> Owed(c))
        BY <2>1 DEF Pending, Owed, Serving
    <2>3. QED
        BY <1>0, <2>1, <2>2 DEF Outstanding
<1>5. QED
    BY <1>1, <1>2, <1>3, <1>4 DEF Next

LEMMA BudgetInit == Init => CreditBudget
<1> SUFFICES ASSUME Init, NEW c \in Charges
             PROVE  credits[c] + Outstanding(c) <= 1 + faults
    BY DEF CreditBudget
<1>1. Pending(c) = {}
    BY SettlementAssumption DEF Init, Pending, Idle, NoEvent, Success, EventFor
<1>2. QED
    BY <1>1, FS_EmptySet DEF Init, Outstanding

(* A charge is never credited more often than once and once for each fault *)
(* (a crash, a lost answer, a delivery repeated before its answer): without*)
(* faults CreditSettlement runs once per charge, though nothing in the     *)
(* handler checks for it.                                                  *)
THEOREM CreditsBounded == Spec => []CreditsBoundedByFaults
<1>1. Spec => []CInv
    <2>1. Init => CInv
        BY InitIInv, BudgetInit DEF CInv
    <2>2. CInv /\ [Next]_vars => CInv'
        BY NextIInv, BudgetStep DEF CInv
    <2>3. QED
        BY <2>1, <2>2, PTL DEF Spec
<1>2. CInv => CreditsBoundedByFaults
    <2> SUFFICES ASSUME CInv, NEW c \in Charges PROVE credits[c] <= 1 + faults
        BY DEF CreditsBoundedByFaults
    <2>1. /\ credits[c] \in Nat /\ faults \in Nat
          /\ Cardinality(Pending(c)) \in Nat
        BY PendingFinite, SettlementAssumption DEF CInv, IInv, Typed, TypeOK
    <2>2. QED
        BY <2>1 DEF CInv, CreditBudget, Outstanding
<1>3. QED
    BY <1>1, <1>2, PTL
-----------------------------------------------------------------------------
(* Settlement implements ChargePromise.                                    *)

(* The stages of ChargePromise as Settlement keeps them.                   *)
CapturedSet == {c \in Charges : provider[c] \in Captured}
SettledSet == {c \in Charges : Settled(c)}
AccountedSet == {c \in Charges : Accounted(c)}
AcknowledgedSet == {c \in CapturedSet : Success(c) \notin outbox}

Stages == <<CapturedSet, SettledSet, AccountedSet, AcknowledgedSet>>

(* At most one stage grows, by one charge that has reached the stage before.*)
StageStep ==
    \/ UNCHANGED Stages
    \/ \E c \in Charges :
          \/ /\ c \notin CapturedSet
             /\ CapturedSet' = CapturedSet \cup {c}
             /\ UNCHANGED <<SettledSet, AccountedSet, AcknowledgedSet>>
          \/ /\ c \in CapturedSet \ SettledSet
             /\ SettledSet' = SettledSet \cup {c}
             /\ UNCHANGED <<CapturedSet, AccountedSet, AcknowledgedSet>>
          \/ /\ c \in SettledSet \ AccountedSet
             /\ AccountedSet' = AccountedSet \cup {c}
             /\ UNCHANGED <<CapturedSet, SettledSet, AcknowledgedSet>>
          \/ /\ c \in AccountedSet \ AcknowledgedSet
             /\ AcknowledgedSet' = AcknowledgedSet \cup {c}
             /\ UNCHANGED <<CapturedSet, SettledSet, AccountedSet>>

LEMMA ChargeStepRefines ==
    ASSUME IInv, NEW c \in Charges, ChargeStep(c)
    PROVE  StageStep
<1> USE DEF database, observed, StageStep, Stages
<1>0. /\ provider \in [Charges -> ProviderStatus]
      /\ payments \in [Charges -> PaymentRow]
    BY DEF IInv, Typed, TypeOK
<1>1. CASE ProviderResolves(c) \/ RedeemCharges(c) \/ RefundAtProvider(c)
    <2>1. PICK to : /\ provider' = [provider EXCEPT ![c] = to]
                    /\ Notify(c, to)
                    /\ to \in Captured =>
                          provider[c] \in Captured \/ to = "completed"
                    /\ to \notin Captured => provider[c] \notin Captured
                    /\ to = "completed" => provider[c] \notin Captured
        BY <1>0, <1>1
           DEF ProviderResolves, RedeemCharges, RefundAtProvider, IInv,
               RedemptionsOK, Captured, Announced
    <2>2. UNCHANGED <<payments, credits, critical>>
        BY <1>1 DEF ProviderResolves, RedeemCharges, RefundAtProvider
    <2>3. UNCHANGED <<SettledSet, AccountedSet>>
        BY <2>2 DEF SettledSet, AccountedSet, Settled, Accounted, Conserves
    <2>4. CapturedSet' =
             IF to \in Captured THEN CapturedSet \cup {c} ELSE CapturedSet
        BY <1>0, <2>1 DEF CapturedSet
    <2>5. \A d \in Charges : d # c =>
             (Success(d) \in outbox' <=> Success(d) \in outbox)
        BY <2>1 DEF Notify, Success, EventFor
    <2>6. Success(c) \in outbox' <=> Success(c) \in outbox \/ to = "completed"
        BY <2>1 DEF Notify, Success, EventFor, Announced
    <2>7. AcknowledgedSet' = AcknowledgedSet
        <3>1. \A d \in Charges :
                 /\ provider'[d] \in Captured /\ Success(d) \notin outbox' <=>
                    provider[d] \in Captured /\ Success(d) \notin outbox
            BY <1>0, <2>1, <2>5, <2>6
        <3>2. QED
            BY <3>1 DEF AcknowledgedSet, CapturedSet, Success, EventFor
    <2>8. QED
        BY <2>3, <2>4, <2>7
<1>2. CASE RedeemRecords(c)
    <2>1. /\ payments' = [payments EXCEPT ![c] = CreateRow(Gross[c], redeem[c])]
          /\ Gross[c] \in Nat \ {0}
          /\ payments[c].status = "none"
        BY <1>2, SettlementAssumption DEF RedeemRecords, IInv, RedemptionsOK
    <2>2. ~Settled(c) /\ ~Settled(c)'
        BY <1>0, <2>1 DEF Settled, CreateRow, Conserves
    <2>3. \A d \in Charges : d # c => payments'[d] = payments[d]
        BY <1>0, <2>1
    <2>4. \A d \in Charges : Settled(d)' <=> Settled(d)
        BY <2>2, <2>3 DEF Settled, Conserves
    <2>5. UNCHANGED <<provider, outbox, credits, critical>>
        BY <1>2 DEF RedeemRecords
    <2>6. QED
        BY <2>4, <2>5
           DEF CapturedSet, SettledSet, AccountedSet, AcknowledgedSet, Accounted,
               Success, EventFor
<1>3. CASE RefundStores(c)
    <2>1. payments' = [payments EXCEPT ![c] = [@ EXCEPT !.status = "refunded"]]
        BY <1>3 DEF RefundStores, UpdateStatusRow
    <2>2. payments[c].status # "none"
        BY <1>3 DEF RefundStores, IInv, RedemptionsOK
    <2>3. \A d \in Charges : Settled(d)' <=> Settled(d)
        BY <1>0, <2>1, <2>2 DEF Settled, Conserves, PaymentRow
    <2>4. UNCHANGED <<provider, outbox, credits, critical>>
        BY <1>3 DEF RefundStores
    <2>5. QED
        BY <2>3, <2>4
           DEF CapturedSet, SettledSet, AccountedSet, AcknowledgedSet, Accounted,
               Success, EventFor
<1>4. CASE RedeemLosesRecord(c) \/ RefundStoreFails(c)
    <2>1. UNCHANGED <<provider, outbox, payments, credits, critical>>
        BY <1>4 DEF RedeemLosesRecord, RefundStoreFails
    <2>2. QED
        BY <2>1
           DEF CapturedSet, SettledSet, AccountedSet, AcknowledgedSet, Settled,
               Conserves, Accounted, Success, EventFor
<1>5. QED
    BY <1>1, <1>2, <1>3, <1>4 DEF ChargeStep

LEMMA HandlerStepRefines ==
    ASSUME IInv, NEW w \in Workers, HandlerStep(w) \/ HandlerFault(w)
    PROVE  StageStep
<1> USE DEF database, observed
<1>0. /\ payments \in [Charges -> PaymentRow]
      /\ credits \in [Charges -> Nat]
      /\ handler[w].pc # "idle"
      /\ handler[w].event \in Event
      /\ ChargeAt(w) \in Charges
      /\ handler[w].event.status \in Announced
      /\ RequestOK(handler[w])
      /\ Achieved(handler[w])
    BY HandlerStepBusy, BusyHandler DEF IInv, RequestsOK, Typed, TypeOK
<1>c. PICK c : c = ChargeAt(w)
    OBVIOUS
<1>1. CASE Settle(w)
    <2>1. /\ payments' = [payments EXCEPT ![c] = SettleRow(handler[w].fees)]
          /\ Conserves(handler[w].fees)
          /\ UNCHANGED <<provider, outbox, credits, critical>>
        BY <1>0, <1>c, <1>1 DEF Settle, RequestOK
    <2>2. Settled(c)' /\ \A d \in Charges : d # c => (Settled(d)' <=> Settled(d))
        BY <1>0, <1>c, <2>1 DEF Settled, SettleRow, Conserves
    <2>3. c \in CapturedSet
        BY <1>0, <1>c, <1>1 DEF Settle, RequestOK, Achieved, EventTrue, CapturedSet, ChargeAt
    <2>4. SettledSet' = SettledSet \cup {c}
        BY <1>0, <1>c, <2>2 DEF SettledSet
    <2>5. UNCHANGED <<CapturedSet, AccountedSet, AcknowledgedSet>>
        BY <2>1 DEF CapturedSet, AccountedSet, AcknowledgedSet, Accounted, Success,
                    EventFor
    <2>6. QED
        BY <2>3, <2>4, <2>5 DEF StageStep, Stages, CapturedSet
<1>2. CASE StoreStatus(w)
    <2>1. /\ payments' = [payments EXCEPT ![c] =
                            [@ EXCEPT !.status = handler[w].event.status]]
          /\ payments[c].status # "none"
          /\ UNCHANGED <<provider, outbox, credits, critical>>
        BY <1>0, <1>c, <1>2 DEF StoreStatus, UpdateStatusRow, Achieved, ChargeAt
    <2>2. \A d \in Charges : Settled(d)' <=> Settled(d)
        BY <1>0, <1>c, <2>1 DEF Settled, Conserves, PaymentRow, Announced
    <2>3. QED
        BY <2>1, <2>2
           DEF StageStep, Stages, CapturedSet, SettledSet, AccountedSet,
               AcknowledgedSet, Accounted, Success, EventFor
<1>3. CASE CreditUpdate(w) \/ CreditInsert(w) \/ CreditFails(w)
    <2>1. /\ UNCHANGED <<provider, outbox, payments>>
          /\ handler[w].pc \in {"credit", "insert"}
        BY <1>3 DEF CreditUpdate, CreditInsert, CreditFails
    <2>2. UNCHANGED <<CapturedSet, SettledSet, AcknowledgedSet>>
        BY <2>1 DEF CapturedSet, SettledSet, AcknowledgedSet, Settled, Conserves,
                    Success, EventFor
    <2>3. CASE IsSuccess(w)
        <3>1. c \in SettledSet
            BY <1>0, <1>c, <2>1, <2>3 DEF Achieved, IsSuccess, SettledSet, ChargeAt
        <3>2. \A d \in Charges : Accounted(d)' <=> Accounted(d) \/ d = c
            <4>1. CASE CreditUpdate(w) \/ CreditInsert(w)
                BY <1>0, <1>c, <2>3, <4>1 DEF CreditUpdate, CreditInsert, Observe, Accounted
            <4>2. CASE CreditFails(w)
                BY <1>c, <2>3, <4>2 DEF CreditFails, Accounted
            <4>3. QED
                BY <1>3, <4>1, <4>2
        <3>3. AccountedSet' = AccountedSet \cup {c}
            BY <1>0, <1>c, <3>2 DEF AccountedSet
        <3>4. QED
            BY <2>2, <3>1, <3>3 DEF StageStep, Stages, SettledSet
    <2>4. CASE ~IsSuccess(w)
        <3>1. UNCHANGED <<credits, critical>>
            BY <1>3, <2>4 DEF CreditUpdate, CreditInsert, CreditFails, Observe
        <3>2. QED
            BY <2>2, <3>1 DEF StageStep, Stages, AccountedSet, Accounted
    <2>5. QED
        BY <2>3, <2>4
<1>4. CASE PublishAndAnswer(w) \/ PublishFails(w)
    <2>1. /\ outbox' = outbox \ {handler[w].event}
          /\ handler[w].pc = "publish"
          /\ UNCHANGED <<provider, payments, credits, critical>>
        BY <1>4 DEF PublishAndAnswer, PublishFails
    <2>2. UNCHANGED <<CapturedSet, SettledSet, AccountedSet>>
        BY <2>1 DEF CapturedSet, SettledSet, AccountedSet, Settled, Conserves,
                    Accounted
    <2>3. CASE handler[w].event = Success(c)
        <3>1. /\ c \in AccountedSet /\ c \in CapturedSet
            BY <1>0, <1>c, <2>1, <2>3
               DEF Achieved, EventTrue, Success, EventFor, AccountedSet, CapturedSet
        <3>2. \A d \in Charges : Success(d) \in outbox' <=> Success(d) \in outbox /\ d # c
            BY <1>0, <1>c, <2>1, <2>3 DEF Success, EventFor
        <3>3. AcknowledgedSet' = AcknowledgedSet \cup {c}
            BY <2>1, <3>1, <3>2 DEF AcknowledgedSet, CapturedSet, Success, EventFor
        <3>4. QED
            BY <2>2, <3>1, <3>3 DEF StageStep, Stages, AccountedSet
    <2>4. CASE handler[w].event # Success(c)
        <3>1. \A d \in Charges : handler[w].event # Success(d)
            BY <1>c, <2>4 DEF Success, EventFor, ChargeAt
        <3>2. \A d \in Charges : Success(d) \in outbox' <=> Success(d) \in outbox
            BY <2>1, <3>1
        <3>3. UNCHANGED AcknowledgedSet
            BY <2>1, <3>2 DEF AcknowledgedSet, CapturedSet, Success, EventFor
        <3>4. QED
            BY <2>2, <3>3 DEF StageStep, Stages
    <2>5. QED
        BY <2>3, <2>4
<1>5. CASE ~ (\/ Settle(w) \/ StoreStatus(w)
              \/ CreditUpdate(w) \/ CreditInsert(w) \/ CreditFails(w)
              \/ PublishAndAnswer(w) \/ PublishFails(w))
    <2>1. UNCHANGED <<provider, outbox, payments, credits, critical>>
        BY <1>5 DEF HandlerStep, FindPayment, PaymentNotFound, ReadTenant,
                    TenantNotFound, SettleRejected, CreditMissesRow,
                    HandlerFault, AnswerLost, Abort
    <2>2. QED
        BY <2>1
           DEF StageStep, Stages, CapturedSet, SettledSet, AccountedSet,
               AcknowledgedSet, Settled, Conserves, Accounted, Success, EventFor
<1>6. QED
    BY <1>1, <1>2, <1>3, <1>4, <1>5

LEMMA StepRefines ==
    ASSUME IInv, [Next]_vars
    PROVE  StageStep
<1>1. CASE \E c \in Charges : ChargeStep(c)
    BY <1>1, ChargeStepRefines
<1>2. CASE \E w \in Workers : HandlerStep(w) \/ HandlerFault(w)
    BY <1>2, HandlerStepRefines
<1>3. CASE \/ \E t \in Tenants : DeleteTenant(t) \/ UpdateTenantFee(t)
           \/ \E w \in Workers, e \in outbox : Deliver(w, e)
           \/ UNCHANGED vars
    <2>1. UNCHANGED <<provider, outbox, payments, credits, critical>>
        BY <1>3 DEF DeleteTenant, UpdateTenantFee, Deliver, vars, database, observed
    <2>2. QED
        BY <2>1
           DEF StageStep, Stages, CapturedSet, SettledSet, AccountedSet,
               AcknowledgedSet, Settled, Conserves, Accounted, Success, EventFor
<1>4. QED
    BY <1>1, <1>2, <1>3 DEF Next

(* Settlement implements ChargePromise: for every charge, capture, split,  *)
(* credit (or the entry for reconciliation) and acknowledgement happen in  *)
(* this order and once, through crashes, repeated deliveries and refunds.  *)
THEOREM Refinement == Spec => KeepsPromise
<1>1. Init => Promise!Init
    BY DEF Init, Promise!Init, Captured, Settled, Accounted, NoPayment
<1>2. IInv /\ [Next]_vars => [Promise!Next]_Promise!stages
    <2> SUFFICES ASSUME IInv, [Next]_vars
                 PROVE  [Promise!Next]_Promise!stages
        OBVIOUS
    <2>1. StageStep
        BY StepRefines
    <2>2. QED
        BY <2>1
           DEF StageStep, Stages, CapturedSet, SettledSet, AccountedSet,
               AcknowledgedSet, Promise!Next, Promise!Capture, Promise!Settle,
               Promise!Account, Promise!Acknowledge, Promise!stages
<1>3. QED
    BY Inductive, <1>1, <1>2, PTL DEF Spec, KeepsPromise, Promise!Spec

-----------------------------------------------------------------------------
(* What the rows of a tenant's balance add up to.                          *)

Available(rows) == [i \in DOMAIN rows |-> rows[i].available]
Total(rows) == SumFunctionOnSet(Available(rows), DOMAIN rows)

LEMMA TotalIs ==
    ASSUME NEW rows
    PROVE  SumFunction([i \in DOMAIN rows |-> rows[i].available]) = Total(rows)
BY DEF Total, Available, SumFunction

LEMMA RowsDomain ==
    ASSUME NEW rows \in Seq(BalanceRow)
    PROVE  /\ DOMAIN rows = 1 .. Len(rows) /\ Len(rows) \in Nat
           /\ IsFiniteSet(DOMAIN rows)
           /\ \A i \in DOMAIN rows : rows[i] \in BalanceRow
           /\ \A i \in DOMAIN rows : Available(rows)[i] \in Nat
           /\ Total(rows) \in Int
<1>1. DOMAIN rows = 1 .. Len(rows) /\ Len(rows) \in Nat
    OBVIOUS
<1>2. IsFiniteSet(DOMAIN rows)
    BY <1>1, FS_Interval
<1>3. \A i \in DOMAIN rows : rows[i] \in BalanceRow
    BY <1>1
<1>4. \A i \in DOMAIN rows : Available(rows)[i] \in Nat
    BY <1>3 DEF Available, BalanceRow
<1>5. \A i \in DOMAIN rows : Available(rows)[i] \in Int
    BY <1>4
<1>6. Total(rows) \in Int
    BY <1>2, <1>5, SumType DEF Total
<1>7. QED
    BY <1>1, <1>2, <1>3, <1>4, <1>6

(* The UPDATE of CreditSettlement reaches every row, so the rows together  *)
(* gain the net amount at least once.                                      *)
LEMMA UpdateTotal ==
    ASSUME NEW rows \in Seq(BalanceRow), rows # <<>>,
           NEW gross \in Nat, NEW net \in Nat
    PROVE  Total(rows) + net <= Total(CreditUpdateRows(rows, gross, net))
<1>1. PICK S : S = DOMAIN rows
    OBVIOUS
<1>2. PICK f : f = Available(rows)
    OBVIOUS
<1>3. PICK g : g = Available(CreditUpdateRows(rows, gross, net))
    OBVIOUS
<1>4. /\ IsFiniteSet(S) /\ 1 \in S
      /\ \A i \in S : f[i] \in Nat
    BY <1>1, <1>2, RowsDomain
<1>5. DOMAIN CreditUpdateRows(rows, gross, net) = S
    BY <1>1 DEF CreditUpdateRows
<1>6. \A i \in S : g[i] = f[i] + net
    BY <1>1, <1>2, <1>3 DEF Available, CreditUpdateRows
<1>7. \A i \in S : f[i] \in Int /\ g[i] \in Int /\ f[i] <= g[i]
    BY <1>4, <1>6
<1>8. PICK R : R = S \ {1}
    OBVIOUS
<1>9. IsFiniteSet(R) /\ \A i \in R : f[i] \in Int /\ g[i] \in Int /\ f[i] <= g[i]
    BY <1>4, <1>7, <1>8, FS_Subset
<1>10. /\ SumFunctionOnSet(f, S) = f[1] + SumFunctionOnSet(f, R)
       /\ SumFunctionOnSet(g, S) = g[1] + SumFunctionOnSet(g, R)
    BY <1>4, <1>7, <1>8, SumTake
<1>11. SumFunctionOnSet(f, R) <= SumFunctionOnSet(g, R)
    BY <1>9, SumMonotone
<1>12. SumFunctionOnSet(f, R) \in Int /\ SumFunctionOnSet(g, R) \in Int
    BY <1>9, SumType
<1>13. g[1] = f[1] + net /\ f[1] \in Int
    BY <1>4, <1>6
<1>14. SumFunctionOnSet(f, S) + net <= SumFunctionOnSet(g, S)
    BY <1>10, <1>11, <1>12, <1>13
<1>15. QED
    BY <1>1, <1>2, <1>3, <1>5, <1>14 DEF Total

(* The INSERT adds one row, which holds the net amount.                    *)
LEMMA InsertTotal ==
    ASSUME NEW rows \in Seq(BalanceRow), NEW net \in Nat
    PROVE  Total(CreditInsertRow(rows, net)) = Total(rows) + net
<1>1. PICK new \in Seq(BalanceRow) : new = CreditInsertRow(rows, net)
    BY CreditInsertType
<1>2. PICK n \in Nat : n = Len(rows) + 1
    BY RowsDomain
<1>3. /\ DOMAIN new = 1 .. n /\ DOMAIN rows = (1 .. n) \ {n}
      /\ new[n].available = net
      /\ \A i \in DOMAIN rows : new[i] = rows[i]
    <2>1. PICK row \in BalanceRow : row = [available |-> net, pending |-> 0]
        BY DEF BalanceRow
    <2>2. new = Append(rows, row) /\ row.available = net
        BY <1>1, <2>1 DEF CreditInsertRow
    <2>3. /\ Len(new) = Len(rows) + 1
          /\ new[Len(rows) + 1] = row
          /\ \A i \in 1 .. Len(rows) : new[i] = rows[i]
        BY <2>2, AppendProperties
    <2>4. DOMAIN new = 1 .. Len(new) /\ DOMAIN rows = 1 .. Len(rows)
        BY RowsDomain
    <2>5. 1 .. Len(rows) = (1 .. n) \ {n}
        BY <1>2, RowsDomain
    <2>6. QED
        BY <1>2, <2>2, <2>3, <2>4, <2>5
<1>4. PICK f : f = Available(rows)
    OBVIOUS
<1>5. PICK g : g = Available(new)
    OBVIOUS
<1>6. /\ \A i \in DOMAIN rows : f[i] \in Int /\ f[i] = g[i]
      /\ \A i \in 1 .. n : g[i] \in Int
      /\ n \in 1 .. n /\ g[n] = net
    BY <1>1, <1>2, <1>3, <1>4, <1>5, RowsDomain DEF Available
<1>7. IsFiniteSet(1 .. n) /\ IsFiniteSet(DOMAIN rows)
    BY FS_Interval, RowsDomain
<1>8. SumFunctionOnSet(g, 1 .. n) = g[n] + SumFunctionOnSet(g, (1 .. n) \ {n})
    BY <1>6, <1>7, SumTake
<1>9. SumFunctionOnSet(f, DOMAIN rows) = SumFunctionOnSet(g, DOMAIN rows)
    BY <1>6, <1>7, SumEqual
<1>10. SumFunctionOnSet(f, DOMAIN rows) \in Int
    BY <1>6, <1>7, SumType
<1>11. Total(new) = net + Total(rows)
    BY <1>3, <1>4, <1>5, <1>6, <1>8, <1>9 DEF Total
<1>12. QED
    BY <1>1, <1>4, <1>10, <1>11 DEF Total

(* The rows of tenant t and the money credited to it.                      *)
BracketOK(rows, money) ==
    /\ \A i \in DOMAIN rows : rows[i].available <= money
    /\ money <= Total(rows)

LEMMA BracketsAre ==
    BalanceBrackets <=> \A t \in Tenants : BracketOK(balances[t], credited[t])
BY TotalIs DEF BalanceBrackets, BracketOK, RowTotal

LEMMA BracketUpdate ==
    ASSUME NEW rows \in Seq(BalanceRow), rows # <<>>, NEW money \in Nat,
           NEW gross \in Nat, NEW net \in Nat, BracketOK(rows, money)
    PROVE  BracketOK(CreditUpdateRows(rows, gross, net), money + net)
<1>1. \A i \in DOMAIN rows : rows[i].available \in Nat /\ rows[i].available <= money
    BY RowsDomain DEF BracketOK, BalanceRow
<1>2. \A i \in DOMAIN CreditUpdateRows(rows, gross, net) :
          CreditUpdateRows(rows, gross, net)[i].available <= money + net
    BY <1>1 DEF CreditUpdateRows
<1>3. PICK new \in Seq(BalanceRow) : new = CreditUpdateRows(rows, gross, net)
    BY CreditUpdateType
<1>4. /\ Total(rows) \in Int /\ Total(new) \in Int
      /\ money <= Total(rows) /\ Total(rows) + net <= Total(new)
    BY <1>3, RowsDomain, UpdateTotal DEF BracketOK
<1>5. money + net <= Total(new)
    BY <1>4
<1>6. QED
    BY <1>2, <1>3, <1>5 DEF BracketOK

LEMMA BracketInsert ==
    ASSUME NEW rows \in Seq(BalanceRow), NEW money \in Nat,
           NEW net \in Nat, BracketOK(rows, money)
    PROVE  BracketOK(CreditInsertRow(rows, net), money + net)
<1>1. PICK new \in Seq(BalanceRow) : new = CreditInsertRow(rows, net)
    BY CreditInsertType
<1>2. \A i \in DOMAIN new : new[i].available <= money + net
    <2>1. TAKE i \in DOMAIN new
    <2>2. CASE i \in DOMAIN rows
        <3>1. new[i] = rows[i] /\ rows[i].available \in Nat /\ rows[i].available <= money
            BY <1>1, <2>2, RowsDomain DEF BracketOK, BalanceRow, CreditInsertRow
        <3>2. QED
            BY <3>1
    <2>3. CASE i \notin DOMAIN rows
        BY <1>1, <2>3, RowsDomain DEF CreditInsertRow
    <2>4. QED
        BY <2>2, <2>3
<1>3. /\ Total(rows) \in Int
      /\ money <= Total(rows) /\ Total(new) = Total(rows) + net
    BY <1>1, RowsDomain, InsertTotal DEF BracketOK
<1>4. money + net <= Total(new)
    BY <1>3
<1>5. QED
    BY <1>1, <1>2, <1>4 DEF BracketOK

LEMMA CreditOnlyTypes ==
    ASSUME Typed, NEW w \in Workers, CreditUpdate(w) \/ CreditInsert(w)
    PROVE  /\ TenantAt(w) \in Tenants /\ ChargeAt(w) \in Charges
           /\ handler[w].fees.net \in Nat /\ handler[w].fees.gross \in Nat
           /\ credited' = [credited EXCEPT ![TenantAt(w)] = @ + handler[w].fees.net]
<1>1. handler[w].pc \in {"credit", "insert"}
    BY DEF CreditUpdate, CreditInsert
<1>2. /\ handler[w].fees \in
            [gross : Nat, openpayFee : Nat, platformFee : Int, net : Int]
      /\ TenantAt(w) \in Tenants /\ ChargeAt(w) \in Charges
      /\ RequestOK(handler[w])
    BY <1>1, BusyHandler
<1>3. handler[w].fees.net \in Nat /\ handler[w].fees.gross \in Nat
    BY <1>1, <1>2 DEF RequestOK, RowAccepted
<1>4. QED
    BY <1>2, <1>3 DEF CreditUpdate, CreditInsert, Observe

LEMMA BracketsStep ==
    ASSUME Typed, BalanceBrackets, [Next]_vars
    PROVE  BalanceBrackets'
<1>0. /\ balances \in [Tenants -> Seq(BalanceRow)]
      /\ credited \in [Tenants -> Nat]
      /\ \A t \in Tenants : BracketOK(balances[t], credited[t])
    BY BracketsAre DEF Typed, TypeOK
<1>1. SUFFICES \A t \in Tenants : BracketOK(balances'[t], credited'[t])
    BY TotalIs DEF BalanceBrackets, BracketOK, RowTotal
<1>2. CASE \E w \in Workers : CreditUpdate(w) \/ CreditInsert(w)
    <2>1. PICK w \in Workers : CreditUpdate(w) \/ CreditInsert(w)
        BY <1>2
    <2>2. PICK u \in Tenants, net \in Nat, gross \in Nat :
             /\ u = TenantAt(w)
             /\ net = handler[w].fees.net /\ gross = handler[w].fees.gross
             /\ credited' = [credited EXCEPT ![u] = @ + net]
        BY <2>1, CreditOnlyTypes
    <2>3. /\ credited'[u] = credited[u] + net
          /\ \A t \in Tenants : t # u => credited'[t] = credited[t]
        BY <1>0, <2>2
    <2>4. CASE CreditUpdate(w)
        <3>1. /\ balances[u] # <<>>
              /\ balances' = [balances EXCEPT ![u] = CreditUpdateRows(@, gross, net)]
            BY <2>2, <2>4 DEF CreditUpdate
        <3>2. BracketOK(CreditUpdateRows(balances[u], gross, net), credited[u] + net)
            BY <1>0, <3>1, BracketUpdate
        <3>3. QED
            BY <1>0, <2>3, <3>1, <3>2
    <2>5. CASE CreditInsert(w)
        <3>1. balances' = [balances EXCEPT ![u] = CreditInsertRow(@, net)]
            BY <2>2, <2>5 DEF CreditInsert
        <3>2. BracketOK(CreditInsertRow(balances[u], net), credited[u] + net)
            BY <1>0, BracketInsert
        <3>3. QED
            BY <1>0, <2>3, <3>1, <3>2
    <2>6. QED
        BY <2>1, <2>4, <2>5
<1>3. CASE UNCHANGED <<balances, credited>>
    BY <1>0, <1>3
<1>4. QED
    BY <1>2, <1>3
       DEF Next, ChargeStep, ProviderResolves, RedeemCharges, RedeemRecords,
           RedeemLosesRecord, RefundAtProvider, RefundStores, RefundStoreFails,
           DeleteTenant, UpdateTenantFee, Deliver, vars, database, observed,
           HandlerStep, FindPayment, PaymentNotFound, ReadTenant,
           TenantNotFound, Settle, SettleRejected, StoreStatus,
           CreditMissesRow, PublishAndAnswer,
           HandlerFault, CreditFails, PublishFails, AnswerLost, Abort

(* Duplicate balance rows, which two first credits of a tenant leave       *)
(* behind, overlap but lose nothing: no row shows more than was credited,  *)
(* and the rows of a tenant together never show less.                      *)
THEOREM RowsBracketCredit == Spec => []BalanceBrackets
<1>1. Init => BalanceBrackets
    <2> SUFFICES ASSUME Init, NEW t \in Tenants
                 PROVE  BracketOK(balances[t], credited[t])
        BY BracketsAre
    <2>1. balances[t] = <<>> /\ credited[t] = 0 /\ DOMAIN balances[t] = {}
        BY DEF Init
    <2>2. Total(balances[t]) = 0
        BY <2>1, SumOfNone DEF Total
    <2>3. QED
        BY <2>1, <2>2 DEF BracketOK
<1>2. QED
    BY <1>1, InitTyped, StepTyped, BracketsStep, PTL DEF Spec

-----------------------------------------------------------------------------
(* What was credited and what the stored splits say, while fees stay.      *)

NetOf(c) == NetAmount(Gross[c], OpenpayFee[c], InitialFee[TenantOf[c]])

LEMMA NetOfInt ==
    ASSUME SettlementAssumption, NEW c \in Charges
    PROVE  NetOf(c) \in Int
<1>1. /\ Gross[c] \in Nat /\ OpenpayFee[c] \in Nat
      /\ InitialFee[TenantOf[c]] \in FeeConfig
    BY DEF SettlementAssumption
<1>2. NetAmountForCharge(Gross[c], OpenpayFee[c], InitialFee[TenantOf[c]]).net \in Int
    BY <1>1, SplitType
<1>3. QED
    BY <1>2 DEF NetAmountForCharge, NetOf

(* The net amount that a request h carries to its credit.                  *)
NetOK(h) ==
    /\ h.event.status = "completed" /\ h.pc \in {"settle", "credit", "insert"} =>
          h.fees.net = NetOf(h.event.charge)
    /\ h.event.status # "completed" /\ h.pc \in {"status", "credit", "insert"} =>
          h.fees.net = 0

NetsOK == \A w \in Workers : NetOK(handler[w])

SplitStored(c) == payments[c].net = NetOf(c)

(* A charge is credited the net that its row shows, then and ever after.   *)
SplitsOK ==
    /\ \A c \in Charges : credits[c] > 0 => SplitStored(c)
    /\ \A w \in Workers :
          IsSuccess(w) /\ handler[w].pc \in {"credit", "insert"} =>
              SplitStored(ChargeAt(w))

ChargesOf(t) == {c \in Charges : TenantOf[c] = t}
Earned(t) == SumFunctionOnSet([c \in Charges |-> credits[c] * NetOf(c)], ChargesOf(t))
LedgerOK == \A t \in Tenants : credited[t] = Earned(t)

LInv ==
    /\ IInv
    /\ feeOf = InitialFee
    /\ NetsOK
    /\ SplitsOK
    /\ LedgerOK

LEMMA NetsProceed ==
    ASSUME NetsOK, handler \in [Workers -> Handler], NEW w \in Workers,
           NEW h, NetOK(h), handler' = [handler EXCEPT ![w] = h]
    PROVE  NetsOK'
<1>1. \A v \in Workers : handler'[v] = IF v = w THEN h ELSE handler[v]
    OBVIOUS
<1>2. QED
    BY <1>1 DEF NetsOK, NetOK

LEMMA NetsStep ==
    ASSUME LInv, [Next]_vars
    PROVE  NetsOK'
<1>0. handler \in [Workers -> Handler] /\ NetsOK
    BY DEF LInv, IInv, Typed, TypeOK
<1>1. CASE \E w \in Workers, e \in outbox : Deliver(w, e)
    <2>1. PICK w \in Workers, e \in outbox : Deliver(w, e)
        BY <1>1
    <2>2. PICK h : h = [pc |-> "find", event |-> e, fees |-> NoFees]
        OBVIOUS
    <2>3. NetOK(h) /\ handler' = [handler EXCEPT ![w] = h]
        BY <2>1, <2>2 DEF Deliver, NetOK
    <2>4. QED
        BY <1>0, <2>3, NetsProceed
<1>2. CASE \E w \in Workers : HandlerStep(w) \/ HandlerFault(w)
    <2>1. PICK w \in Workers : HandlerStep(w) \/ HandlerFault(w)
        BY <1>2
    <2>2. RequestOK(handler[w]) /\ NetOK(handler[w])
        BY <1>0 DEF LInv, IInv, Typed, HandlerOK, NetsOK
    <2>3. ASSUME NEW pc, NEW fees, Proceed(w, pc, fees),
                 NetOK([pc |-> pc, event |-> handler[w].event, fees |-> fees])
          PROVE  NetsOK'
        <3>1. PICK h : h = [pc |-> pc, event |-> handler[w].event, fees |-> fees]
            OBVIOUS
        <3>2. NetOK(h) /\ handler' = [handler EXCEPT ![w] = h]
            BY <2>3, <3>1 DEF Proceed
        <3>3. QED
            BY <1>0, <3>2, NetsProceed
    <2>4. CASE Answer(w)
        <3>1. NetOK(Idle) /\ handler' = [handler EXCEPT ![w] = Idle]
            BY <2>4 DEF Answer, NetOK, Idle, NoEvent
        <3>2. QED
            BY <1>0, <3>1, NetsProceed
    <2>5. CASE FindPayment(w)
        <3>1. CASE IsSuccess(w)
            <4>1. Proceed(w, "tenant", handler[w].fees)
                BY <2>5, <3>1 DEF FindPayment, Goto
            <4>2. QED
                BY <2>3, <3>1, <4>1 DEF NetOK, IsSuccess
        <3>2. CASE ~IsSuccess(w)
            <4>1. PICK fees : fees = [NoFees EXCEPT !.gross = payments[ChargeAt(w)].gross]
                OBVIOUS
            <4>2. Proceed(w, "status", fees) /\ fees.net = 0
                BY <2>5, <3>2, <4>1 DEF FindPayment, NoFees
            <4>3. QED
                BY <2>3, <3>2, <4>2 DEF NetOK, IsSuccess
        <3>3. QED
            BY <3>1, <3>2
    <2>6. CASE ReadTenant(w)
        <3>1. PICK fees : fees = NetAmountForCharge(Gross[ChargeAt(w)],
                                     OpenpayFee[ChargeAt(w)], feeOf[TenantAt(w)])
            OBVIOUS
        <3>2. fees.net = NetOf(handler[w].event.charge)
            BY <3>1 DEF NetAmountForCharge, NetOf, TenantAt, ChargeAt, LInv
        <3>3. Proceed(w, "settle", fees) /\ handler[w].event.status = "completed"
            BY <2>2, <2>6, <3>1 DEF ReadTenant, RequestOK
        <3>4. QED
            BY <2>3, <3>2, <3>3 DEF NetOK
    <2>7. CASE Settle(w) \/ CreditMissesRow(w)
        <3>1. PICK pc \in {"credit", "insert"} : Proceed(w, pc, handler[w].fees)
            BY <2>7 DEF Settle, CreditMissesRow, Goto
        <3>2. \/ handler[w].pc = "settle" /\ handler[w].event.status = "completed"
              \/ handler[w].pc = "credit"
            BY <2>2, <2>7 DEF Settle, CreditMissesRow, RequestOK
        <3>3. QED
            BY <2>2, <2>3, <3>1, <3>2 DEF NetOK
    <2>8. CASE StoreStatus(w)
        <3>1. PICK pc \in {"credit", "publish"} : Proceed(w, pc, handler[w].fees)
            BY <2>8 DEF StoreStatus, Goto
        <3>2. handler[w].pc = "status" /\ handler[w].event.status # "completed"
            BY <2>2, <2>8 DEF StoreStatus, RequestOK
        <3>3. QED
            BY <2>2, <2>3, <3>1, <3>2 DEF NetOK
    <2>9. CASE CreditUpdate(w) \/ CreditInsert(w) \/ CreditFails(w)
        <3>1. Proceed(w, "publish", handler[w].fees)
            BY <2>9 DEF CreditUpdate, CreditInsert, CreditFails, Goto
        <3>2. QED
            BY <2>3, <3>1 DEF NetOK
    <2>10. QED
        BY <2>1, <2>4, <2>5, <2>6, <2>7, <2>8, <2>9
           DEF HandlerStep, PaymentNotFound, TenantNotFound, SettleRejected,
               PublishAndAnswer, HandlerFault, PublishFails, AnswerLost, Abort
<1>3. CASE UNCHANGED handler
    BY <1>0, <1>3 DEF NetsOK, NetOK
<1>4. QED
    BY <1>1, <1>2, <1>3
       DEF Next, ChargeStep, ProviderResolves, RedeemCharges, RedeemRecords,
           RedeemLosesRecord, RefundAtProvider, RefundStores, RefundStoreFails,
           DeleteTenant, UpdateTenantFee, vars, database, observed

(* A stored split is written again only as the same split.                 *)
LEMMA SplitStable ==
    ASSUME LInv, [Next]_vars, NEW c \in Charges,
           payments[c].status # "none", SplitStored(c)
    PROVE  SplitStored(c)'
<1>0. payments \in [Charges -> PaymentRow]
    BY DEF LInv, IInv, Typed, TypeOK
<1>1. CASE \E d \in Charges : RedeemRecords(d)
    <2>1. PICK d \in Charges : RedeemRecords(d)
        BY <1>1
    <2>2. payments[d].status = "none"
        BY <2>1 DEF RedeemRecords, LInv, IInv, RedemptionsOK
    <2>3. payments'[c] = payments[c]
        BY <1>0, <2>1, <2>2 DEF RedeemRecords
    <2>4. QED
        BY <2>3 DEF SplitStored
<1>2. CASE \E d \in Charges : RefundStores(d)
    BY <1>0, <1>2 DEF RefundStores, UpdateStatusRow, PaymentRow, SplitStored
<1>3. CASE \E w \in Workers : StoreStatus(w)
    BY <1>0, <1>3 DEF StoreStatus, UpdateStatusRow, PaymentRow, SplitStored
<1>4. CASE \E w \in Workers : Settle(w)
    <2>1. PICK w \in Workers : Settle(w)
        BY <1>4
    <2>2. handler[w].fees.net = NetOf(ChargeAt(w))
        BY <2>1 DEF Settle, LInv, IInv, Typed, HandlerOK, RequestOK, NetsOK, NetOK,
                    ChargeAt
    <2>3. payments' = [payments EXCEPT ![ChargeAt(w)] = SettleRow(handler[w].fees)]
        BY <2>1 DEF Settle
    <2>4. QED
        BY <1>0, <2>2, <2>3 DEF SettleRow, SplitStored
<1>5. CASE UNCHANGED payments
    BY <1>5 DEF SplitStored
<1>6. QED
    BY <1>1, <1>2, <1>3, <1>4, <1>5
       DEF Next, ChargeStep, ProviderResolves, RedeemCharges,
           RedeemLosesRecord, RefundAtProvider, RefundStoreFails,
           DeleteTenant, UpdateTenantFee, Deliver, vars, database, observed,
           HandlerStep, FindPayment, PaymentNotFound, ReadTenant,
           TenantNotFound, SettleRejected, CreditUpdate, CreditInsert,
           CreditMissesRow, PublishAndAnswer,
           HandlerFault, CreditFails, PublishFails, AnswerLost, Abort

LEMMA SplitsStep ==
    ASSUME LInv, [Next]_vars
    PROVE  SplitsOK'
<1>0. /\ handler \in [Workers -> Handler]
      /\ payments \in [Charges -> PaymentRow]
      /\ credits \in [Charges -> Nat]
      /\ SplitsOK
    BY DEF LInv, IInv, Typed, TypeOK
(* A request that is about to credit has its split stored, and keeps it.   *)
<1>1. ASSUME NEW w \in Workers, handler[w].event.status = "completed",
             handler[w].pc \in {"credit", "insert"}
      PROVE  /\ handler[w].event.charge \in Charges
             /\ payments'[handler[w].event.charge].net = NetOf(handler[w].event.charge)
    <2>1. PICK c \in Charges : c = handler[w].event.charge
        BY <1>1, BusyHandler DEF LInv, IInv, ChargeAt
    <2>2. payments[c].status # "none"
        BY <1>1, <2>1 DEF LInv, IInv, RequestsOK, Achieved
    <2>3. SplitStored(c)
        BY <1>0, <1>1, <2>1 DEF SplitsOK, IsSuccess, ChargeAt
    <2>4. SplitStored(c)'
        BY <2>2, <2>3, SplitStable
    <2>5. QED
        BY <2>1, <2>4 DEF SplitStored
<1>2. ASSUME NEW c \in Charges, credits'[c] > 0
      PROVE  payments'[c].net = NetOf(c)
    <2>1. CASE credits[c] > 0
        <3>1. SplitStored(c) /\ payments[c].status # "none"
            BY <1>0, <2>1 DEF SplitsOK, LInv, IInv, CreditedIsSettled, Settled
        <3>2. SplitStored(c)'
            BY <3>1, SplitStable
        <3>3. QED
            BY <3>2 DEF SplitStored
    <2>2. CASE ~(credits[c] > 0)
        <3>1. credits' # credits
            BY <1>2, <2>2
        <3>2. PICK w \in Workers : CreditUpdate(w) \/ CreditInsert(w)
            BY <3>1
               DEF Next, ChargeStep, ProviderResolves, RedeemCharges, RedeemRecords,
                   RedeemLosesRecord, RefundAtProvider, RefundStores,
                   RefundStoreFails, DeleteTenant, UpdateTenantFee, Deliver, vars,
                   database, observed, HandlerStep, FindPayment, PaymentNotFound,
                   ReadTenant, TenantNotFound, Settle, SettleRejected, StoreStatus,
                   CreditMissesRow, PublishAndAnswer,
                   HandlerFault, CreditFails, PublishFails, AnswerLost, Abort
        <3>3. /\ IsSuccess(w) /\ handler[w].pc \in {"credit", "insert"}
              /\ credits' = [credits EXCEPT ![ChargeAt(w)] = @ + 1]
            BY <3>1, <3>2 DEF CreditUpdate, CreditInsert, Observe
        <3>4. c = handler[w].event.charge
            BY <1>0, <1>2, <2>2, <3>3 DEF ChargeAt
        <3>5. QED
            BY <1>1, <3>3, <3>4 DEF IsSuccess
    <2>3. QED
        BY <2>1, <2>2
<1>3. ASSUME NEW w \in Workers, handler'[w].event.status = "completed",
             handler'[w].pc \in {"credit", "insert"}
      PROVE  payments'[handler'[w].event.charge].net = NetOf(handler'[w].event.charge)
    <2>1. CASE handler'[w] = handler[w]
        BY <1>1, <1>3, <2>1
    <2>2. CASE handler'[w] # handler[w]
        <3>1. PICK v \in Workers : \/ \E e \in outbox : Deliver(v, e)
                                   \/ HandlerStep(v) \/ HandlerFault(v)
            BY <2>2
               DEF Next, ChargeStep, ProviderResolves, RedeemCharges, RedeemRecords,
                   RedeemLosesRecord, RefundAtProvider, RefundStores,
                   RefundStoreFails, DeleteTenant, UpdateTenantFee, vars,
                   database, observed
        <3>2. \/ \E e \in outbox : Deliver(v, e)
              \/ Answer(v)
              \/ \E pc, fees : Proceed(v, pc, fees)
            BY <3>1
               DEF HandlerStep, FindPayment, PaymentNotFound,
                   ReadTenant, TenantNotFound, Settle, SettleRejected, StoreStatus,
                   CreditUpdate, CreditInsert, Goto,
                   CreditMissesRow, PublishAndAnswer,
                   HandlerFault, CreditFails, PublishFails, AnswerLost, Abort
        <3>3. v = w
            BY <1>0, <2>2, <3>2 DEF Deliver, Answer, Proceed
        <3>4. CASE CreditMissesRow(w)
            <4>1. handler'[w].event = handler[w].event /\ handler[w].pc = "credit"
                BY <1>0, <3>4 DEF CreditMissesRow, Goto, Proceed
            <4>2. QED
                BY <1>1, <1>3, <4>1
        <3>5. CASE Settle(w)
            <4>1. /\ handler'[w].event = handler[w].event
                  /\ payments' = [payments EXCEPT ![ChargeAt(w)] =
                                     SettleRow(handler[w].fees)]
                BY <1>0, <3>5 DEF Settle, Goto, Proceed
            <4>2. handler[w].fees.net = NetOf(ChargeAt(w))
                BY <3>5 DEF Settle, LInv, IInv, Typed, HandlerOK, RequestOK, NetsOK,
                            NetOK, ChargeAt
            <4>3. ChargeAt(w) \in Charges
                BY <3>5, BusyHandler DEF Settle, LInv, IInv
            <4>4. QED
                BY <1>0, <4>1, <4>2, <4>3 DEF SettleRow, ChargeAt
        <3>6. CASE StoreStatus(w)
            <4>1. handler'[w].event = handler[w].event
                BY <1>0, <3>6 DEF StoreStatus, Goto, Proceed
            <4>2. handler[w].event.status # "completed"
                BY <3>6 DEF StoreStatus, LInv, IInv, Typed, HandlerOK, RequestOK
            <4>3. QED
                BY <1>3, <4>1, <4>2
        <3>7. CASE ~ (CreditMissesRow(w) \/ Settle(w) \/ StoreStatus(w))
            <4>1. handler'[w].pc \notin {"credit", "insert"}
                <5>1. CASE \E e \in outbox : Deliver(w, e)
                    BY <1>0, <5>1 DEF Deliver
                <5>2. CASE Answer(w)
                    BY <1>0, <5>2 DEF Answer, Idle
                <5>3. CASE HandlerStep(w) \/ HandlerFault(w)
                    BY <1>0, <3>7, <5>2, <5>3
                       DEF HandlerStep, FindPayment, PaymentNotFound,
                           ReadTenant, TenantNotFound, SettleRejected,
                           CreditUpdate, CreditInsert, Goto, Proceed,
                           PublishAndAnswer,
                           HandlerFault, CreditFails, PublishFails, AnswerLost, Abort
                <5>4. QED
                    BY <3>1, <3>3, <5>1, <5>3
            <4>2. QED
                BY <1>3, <4>1
        <3>8. QED
            BY <3>4, <3>5, <3>6, <3>7
    <2>3. QED
        BY <2>1, <2>2
<1>4. QED
    BY <1>2, <1>3 DEF SplitsOK, SplitStored, IsSuccess, ChargeAt

(* The credit of one charge adds its net to what its tenant earned.        *)
LEMMA EarnedMore ==
    ASSUME SettlementAssumption, IsFiniteSet(Charges), credits \in [Charges -> Nat],
           NEW c \in Charges, credits' = [credits EXCEPT ![c] = @ + 1],
           NEW t \in Tenants
    PROVE  /\ Earned(t) \in Int
           /\ Earned(t)' = IF t = TenantOf[c] THEN Earned(t) + NetOf(c) ELSE Earned(t)
<1> DEFINE f == [d \in Charges |-> credits[d] * NetOf(d)]
           g == [d \in Charges |-> credits'[d] * NetOf(d)]
           S == ChargesOf(t)
<1>1. IsFiniteSet(S) /\ S \subseteq Charges
    BY FS_Subset DEF ChargesOf
<1>2. ASSUME NEW d \in Charges
      PROVE  /\ f[d] \in Int /\ g[d] \in Int
             /\ g[d] = IF d = c THEN f[d] + NetOf(d) ELSE f[d]
    <2>1. PICK n \in Int, k \in Int : n = NetOf(d) /\ k = credits[d]
        BY NetOfInt
    <2>2. credits'[d] = IF d = c THEN k + 1 ELSE k
        BY <2>1
    <2>3. k * n \in Int /\ (k + 1) * n \in Int /\ (k + 1) * n = k * n + n
        OBVIOUS
    <2>4. QED
        BY <2>1, <2>2, <2>3
<1>3. Earned(t) = SumFunctionOnSet(f, S) /\ Earned(t)' = SumFunctionOnSet(g, S)
    BY DEF Earned, ChargesOf
<1> HIDE DEF f, g
<1>4. \A d \in S : f[d] \in Int /\ g[d] \in Int
    BY <1>1, <1>2
<1>5. SumFunctionOnSet(f, S) \in Int
    BY <1>1, <1>4, SumType
<1>6. CASE t = TenantOf[c]
    <2>1. c \in S
        BY <1>6 DEF ChargesOf
    <2>2. \A d \in S \ {c} : f[d] = g[d]
        BY <1>1, <1>2
    <2>3. SumFunctionOnSet(g, S) = SumFunctionOnSet(f, S) + (g[c] - f[c])
        BY <1>1, <1>4, <2>1, <2>2, SumChange
    <2>4. g[c] - f[c] = NetOf(c)
        BY <1>2, NetOfInt
    <2>5. QED
        BY <1>3, <1>5, <1>6, <2>3, <2>4
<1>7. CASE t # TenantOf[c]
    <2>1. c \notin S
        BY <1>7 DEF ChargesOf
    <2>2. \A d \in S : f[d] \in Int /\ f[d] = g[d]
        BY <1>1, <1>2, <2>1
    <2>3. SumFunctionOnSet(f, S) = SumFunctionOnSet(g, S)
        BY <1>1, <2>2, SumEqual
    <2>4. QED
        BY <1>3, <1>5, <1>7, <2>3
<1>8. QED
    BY <1>6, <1>7

LEMMA LedgerStep ==
    ASSUME SettlementAssumption, IsFiniteSet(Charges), LInv, [Next]_vars
    PROVE  LedgerOK'
<1>0. /\ credits \in [Charges -> Nat]
      /\ credited \in [Tenants -> Nat]
      /\ LedgerOK /\ Typed
    BY DEF LInv, IInv, Typed, TypeOK
<1>1. CASE \E w \in Workers : CreditUpdate(w) \/ CreditInsert(w)
    <2>1. PICK w \in Workers : CreditUpdate(w) \/ CreditInsert(w)
        BY <1>1
    <2>2. /\ ChargeAt(w) \in Charges /\ TenantAt(w) = TenantOf[ChargeAt(w)]
          /\ handler[w].fees.net \in Nat /\ TenantAt(w) \in Tenants
          /\ credited' = [credited EXCEPT ![TenantAt(w)] = @ + handler[w].fees.net]
        BY <1>0, <2>1, CreditOnlyTypes DEF TenantAt
    <2>3. NetOK(handler[w]) /\ handler[w].pc \in {"credit", "insert"}
        BY <2>1 DEF CreditUpdate, CreditInsert, LInv, NetsOK
    <2>4. CASE IsSuccess(w)
        <3>1. PICK c \in Charges : c = ChargeAt(w)
            BY <2>2
        <3>2. handler[w].fees.net = NetOf(c)
            BY <2>3, <2>4, <3>1 DEF NetOK, IsSuccess, ChargeAt
        <3>3. credits' = [credits EXCEPT ![c] = @ + 1]
            BY <2>1, <2>4, <3>1 DEF CreditUpdate, CreditInsert, Observe
        <3>4. ASSUME NEW t \in Tenants
              PROVE  credited'[t] = Earned(t)'
            <4>1. Earned(t)' = IF t = TenantOf[c] THEN Earned(t) + NetOf(c) ELSE Earned(t)
                BY <1>0, <3>3, EarnedMore
            <4>2. credited[t] = Earned(t)
                BY <1>0 DEF LedgerOK
            <4>3. credited'[t] =
                     IF t = TenantOf[c] THEN credited[t] + NetOf(c) ELSE credited[t]
                BY <1>0, <2>2, <3>1, <3>2
            <4>4. QED
                BY <4>1, <4>2, <4>3
        <3>5. QED
            BY <3>4 DEF LedgerOK
    <2>5. CASE ~IsSuccess(w)
        <3>1. handler[w].fees.net = 0 /\ credits' = credits
            BY <2>1, <2>3, <2>5 DEF NetOK, IsSuccess, CreditUpdate, CreditInsert, Observe
        <3>2. \A t \in Tenants : credited'[t] = credited[t]
            BY <1>0, <2>2, <3>1
        <3>3. QED
            BY <1>0, <3>1, <3>2 DEF LedgerOK, Earned, ChargesOf
    <2>6. QED
        BY <2>4, <2>5
<1>2. CASE UNCHANGED <<credits, credited>>
    BY <1>0, <1>2 DEF LedgerOK, Earned, ChargesOf
<1>3. QED
    BY <1>1, <1>2
       DEF Next, ChargeStep, ProviderResolves, RedeemCharges, RedeemRecords,
           RedeemLosesRecord, RefundAtProvider, RefundStores, RefundStoreFails,
           DeleteTenant, UpdateTenantFee, Deliver, vars, database, observed,
           HandlerStep, FindPayment, PaymentNotFound, ReadTenant,
           TenantNotFound, Settle, SettleRejected, StoreStatus,
           CreditMissesRow, PublishAndAnswer,
           HandlerFault, CreditFails, PublishFails, AnswerLost, Abort

(* While the administrator changes no fee, the money credited to a tenant  *)
(* is the net amount of the stored splits of its charges, once for each    *)
(* credit: duplicates and early redeliveries repeat the amount, they never *)
(* credit another one, and refunds take nothing back.                      *)
THEOREM LedgerAgrees ==
    ASSUME IsFiniteSet(Charges)
    PROVE  Spec /\ [][UNCHANGED feeOf]_vars => []LedgerAgreesWithSplits
<1>1. Init => LInv
    <2> SUFFICES ASSUME Init PROVE LInv
        OBVIOUS
    <2>1. IInv /\ feeOf = InitialFee
        BY InitIInv DEF Init
    <2>2. NetsOK /\ SplitsOK
        BY DEF Init, NetsOK, NetOK, SplitsOK, Idle, NoEvent
    <2>3. ASSUME NEW t \in Tenants
          PROVE  credited[t] = Earned(t)
        <3> DEFINE f == [c \in Charges |-> credits[c] * NetOf(c)]
                   S == ChargesOf(t)
        <3>1. IsFiniteSet(S) /\ S \subseteq Charges
            BY FS_Subset DEF ChargesOf
        <3>2. \A c \in S : f[c] = 0
            <4>1. TAKE c \in S
            <4>2. c \in Charges /\ credits[c] = 0 /\ NetOf(c) \in Int
                BY <3>1, SettlementAssumption, NetOfInt DEF Init
            <4>3. QED
                BY <4>2
        <3>3. Earned(t) = SumFunctionOnSet(f, S)
            BY DEF Earned
        <3> HIDE DEF f
        <3>4. SumFunctionOnSet(f, S) = 0
            BY <3>1, <3>2, SumOfZeros
        <3>5. QED
            BY <3>3, <3>4 DEF Init
    <2>4. QED
        BY <2>1, <2>2, <2>3 DEF LInv, LedgerOK
<1>2. LInv /\ [Next]_vars /\ [UNCHANGED feeOf]_vars => LInv'
    <2> SUFFICES ASSUME LInv, [Next]_vars, [UNCHANGED feeOf]_vars
                 PROVE  LInv'
        OBVIOUS
    <2>1. IInv'
        BY NextIInv DEF LInv
    <2>2. feeOf' = feeOf /\ feeOf = InitialFee
        BY DEF LInv, vars, database
    <2>3. NetsOK' /\ SplitsOK' /\ LedgerOK'
        BY SettlementAssumption, NetsStep, SplitsStep, LedgerStep
    <2>4. QED
        BY <2>1, <2>2, <2>3 DEF LInv
<1>3. LInv => LedgerAgreesWithSplits
    <2> SUFFICES ASSUME LInv, NEW t \in Tenants
                 PROVE  credited[t] = SumFunctionOnSet(
                            [c \in Charges |-> credits[c] * payments[c].net],
                            ChargesOf(t))
        BY DEF LedgerAgreesWithSplits, ChargesOf
    <2> DEFINE f == [c \in Charges |-> credits[c] * NetOf(c)]
               g == [c \in Charges |-> credits[c] * payments[c].net]
               S == ChargesOf(t)
    <2>1. IsFiniteSet(S) /\ S \subseteq Charges
        BY FS_Subset DEF ChargesOf
    <2>2. \A c \in S : f[c] \in Int /\ f[c] = g[c]
        <3>1. TAKE c \in S
        <3>2. PICK k \in Nat, n \in Int, m \in Int :
                 /\ k = credits[c] /\ n = NetOf(c) /\ m = payments[c].net
                 /\ k > 0 => m = n
            <4>1. /\ c \in Charges /\ credits[c] \in Nat /\ payments[c].net \in Int
                  /\ credits[c] > 0 => payments[c].net = NetOf(c)
                BY <2>1 DEF LInv, IInv, Typed, TypeOK, PaymentRow, SplitsOK, SplitStored
            <4>2. QED
                BY <4>1, SettlementAssumption, NetOfInt
        <3>3. k * n \in Int /\ k * n = k * m
            <4>1. CASE k = 0
                BY <3>2, <4>1
            <4>2. CASE k > 0
                BY <3>2, <4>2
            <4>3. QED
                BY <4>1, <4>2
        <3>4. QED
            BY <2>1, <3>2, <3>3
    <2>3. credited[t] = SumFunctionOnSet(f, S)
        BY DEF LInv, LedgerOK, Earned
    <2> HIDE DEF f, g
    <2>4. SumFunctionOnSet(f, S) = SumFunctionOnSet(g, S)
        BY <2>1, <2>2, SumEqual
    <2>5. QED
        BY <2>3, <2>4 DEF g
<1>4. QED
    BY <1>1, <1>2, <1>3, PTL DEF Spec
=============================================================================
