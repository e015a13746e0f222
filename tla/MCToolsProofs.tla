--------------------------- MODULE MCToolsProofs ---------------------------
(***************************************************************************)
(* The tests of latmus, of any number of rounds, samples and faults: each  *)
(* latency is counted once, a test is only stopped for its figures when    *)
(* two threads summed them up at once, and the network test counts no more *)
(* packets lost than were lost, overtaken, or set the sequence back, and   *)
(* does not stall before two are lost.  And the command lines of latmus    *)
(* and 'evl net', for any CPUs, files of CPUs and options: what they ask   *)
(* for is done, but for the options which name the GPIO tests.             *)
(***************************************************************************)
EXTENDS MCTools, FiniteSetTheorems, FunctionTheorems, WellFoundedInduction, TLAPS

-----------------------------------------------------------------------------
(* How many samples: lemmas of Statistics!Total. *)
Pairs(h) == UNION {{c} \X (1..h[c]) : c \in DOMAIN h}
Finite(h) == IsFiniteSet(Pairs(h))

(* Total is the size of the same set in both tests.                        *)
LEMMA Totals ==
  ASSUME NEW h
  PROVE  Net!Total(h) = Cardinality(Pairs(h)) /\ Timer!Total(h) = Cardinality(Pairs(h))
<1>1. Net!Cardinality(Pairs(h)) = Cardinality(Pairs(h))
  BY DEF Net!Cardinality, Cardinality
<1>2. Timer!Cardinality(Pairs(h)) = Cardinality(Pairs(h))
  BY DEF Timer!Cardinality, Cardinality
<1>3. Net!Samples(h) = Pairs(h) /\ Timer!Samples(h) = Pairs(h)
  BY DEF Net!Samples, Timer!Samples, Pairs
<1> QED
  BY <1>1, <1>2, <1>3 DEF Net!Total, Timer!Total

LEMMA TotalIsNatural ==
  ASSUME NEW h, Finite(h)
  PROVE  Net!Total(h) \in Nat /\ Timer!Total(h) \in Nat
BY Totals, FS_CardinalityType DEF Finite

(* What is in it, ...                                                      *)
LEMMA InPairs ==
  ASSUME NEW h
  PROVE  /\ \A c, k : <<c, k>> \in Pairs(h) <=> c \in DOMAIN h /\ k \in 1..h[c]
         /\ \A x \in Pairs(h) : \E c, k : x = <<c, k>>
<1>1. ASSUME NEW x
      PROVE  x \in Pairs(h) <=> \E c \in DOMAIN h : x \in {c} \X (1..h[c])
  BY DEF Pairs
<1>2. ASSUME NEW c, NEW x
      PROVE  x \in {c} \X (1..h[c]) <=> \E k \in 1..h[c] : x = <<c, k>>
  OBVIOUS
<1> QED
  BY <1>1, <1>2

(* ... which is finite when the cells are.                                 *)
LEMMA CountsAreFinite ==
  ASSUME NEW D, IsFiniteSet(D), NEW h \in [D -> Nat]
  PROVE  Finite(h)
<1> DEFINE f == [c \in D |-> {c} \X (1..h[c])]
           U == {{c} \X (1..h[c]) : c \in D}
<1>1. IsFiniteSet(U)
  <2>1. f \in Surjection(D, U)
    BY DEF Surjection
  <2> QED
    BY <2>1, FS_Surjection
<1>2. \A T \in U : IsFiniteSet(T)
  <2>1. ASSUME NEW c \in D
        PROVE  IsFiniteSet({c} \X (1..h[c]))
    <3>1. IsFiniteSet({c})
      BY FS_Singleton
    <3>2. 1..h[c] = {} \/ h[c] \in Int
      OBVIOUS
    <3>3. IsFiniteSet(1..h[c])
      BY <3>2, FS_Interval, FS_EmptySet
    <3> QED
      BY <3>1, <3>3, FS_Product
  <2> QED
    BY <2>1
<1>3. Pairs(h) = UNION U
  BY DEF Pairs
<1> QED
  BY <1>1, <1>2, <1>3, FS_UNION DEF Finite

(* Samples a + 1 to a + m of a cell. *)
Slice(c, a, m) == {c} \X ((a + 1)..(a + m))

LEMMA InSlice ==
  ASSUME NEW c, NEW a \in Nat, NEW m \in Nat
  PROVE  /\ \A d, k : <<d, k>> \in Slice(c, a, m) <=> d = c /\ k \in (a + 1)..(a + m)
         /\ \A x \in Slice(c, a, m) : \E d, k : x = <<d, k>>
         /\ IsFiniteSet(Slice(c, a, m)) /\ Cardinality(Slice(c, a, m)) = m
<1> DEFINE S == (a + 1)..(a + m)
<1>1. /\ \A d, k : <<d, k>> \in {c} \X S <=> d = c /\ k \in S
      /\ \A x \in {c} \X S : \E d, k : x = <<d, k>>
  OBVIOUS
<1>2. IsFiniteSet(S) /\ Cardinality(S) = m
  BY FS_Interval
<1> HIDE DEF S
<1>3. IsFiniteSet({c}) /\ Cardinality({c}) = 1
  BY FS_Singleton
<1>4. IsFiniteSet({c} \X S) /\ Cardinality({c} \X S) = 1 * m
  BY <1>2, <1>3, FS_Product
<1> QED
  BY <1>1, <1>2, <1>4 DEF Slice, S

(* A cell gets m samples more. *)
Grows(h, g, c, a, m) ==
    /\ \A d, k : <<d, k>> \in Pairs(g) <=> <<d, k>> \in Pairs(h) \/ (d = c /\ k \in (a + 1)..(a + m))
    /\ \A k \in (a + 1)..(a + m) : <<c, k>> \notin Pairs(h)

LEMMA TotalGrows ==
  ASSUME NEW h, NEW g, NEW c, NEW a \in Nat, NEW m \in Nat, Finite(h), Grows(h, g, c, a, m)
  PROVE  /\ Net!Total(g) = Net!Total(h) + m /\ Timer!Total(g) = Timer!Total(h) + m
         /\ Net!Total(h) \in Nat /\ Timer!Total(h) \in Nat
<1> DEFINE T == Slice(c, a, m)
<1>1. IsFiniteSet(T) /\ Cardinality(T) = m
  BY InSlice
<1>2. /\ \A d, k : <<d, k>> \in T <=> d = c /\ k \in (a + 1)..(a + m)
      /\ \A x \in T : \E d, k : x = <<d, k>>
  BY InSlice
<1> HIDE DEF T
<1>3. Pairs(h) \cap T = {}
  BY <1>2 DEF Grows
<1>4. Pairs(g) = Pairs(h) \cup T
  BY <1>2, InPairs DEF Grows
<1>5. Cardinality(Pairs(h)) \in Nat
  BY FS_CardinalityType DEF Finite
<1>6. Cardinality(Pairs(h) \cup T) = Cardinality(Pairs(h)) + m
  <2>1. Cardinality(Pairs(h) \cup T)
          = Cardinality(Pairs(h)) + Cardinality(T) - Cardinality(Pairs(h) \cap T)
    BY <1>1, FS_Union DEF Finite
  <2>2. Cardinality(Pairs(h) \cap T) = 0
    BY <1>3, FS_EmptySet
  <2> QED
    BY <1>1, <1>5, <2>1, <2>2
<1> QED
  BY <1>4, <1>5, <1>6, Totals

(* Nothing is counted in empty cells.                                      *)
LEMMA EmptyTotal ==
  ASSUME NEW h, \A c \in DOMAIN h : h[c] = 0
  PROVE  Net!Total(h) = 0 /\ Timer!Total(h) = 0
<1>1. \A c, k : <<c, k>> \notin Pairs(h)
  <2>1. \A c \in DOMAIN h : 1..h[c] = {}
    OBVIOUS
  <2> QED
    BY <2>1, InPairs
<1>2. Pairs(h) = {}
  BY <1>1, InPairs
<1> QED
  BY <1>2, Totals, FS_EmptySet

(* Figures in a row: one is appended, or the first one is taken away. *)
LEMMA RowGrows ==
  ASSUME NEW l \in Nat, NEW h \in [1..l -> Nat], NEW g \in [1..(l + 1) -> Nat],
         \A i \in 1..l : g[i] = h[i]
  PROVE  Timer!Total(g) = Timer!Total(h) + g[l + 1] /\ Timer!Total(h) \in Nat
<1> DEFINE c == l + 1
<1>1. /\ DOMAIN g = 1..c /\ DOMAIN h = 1..l /\ c \in 1..c /\ c \notin 1..l
      /\ 1..l \subseteq 1..c /\ \A i \in 1..c : i \in 1..l \/ i = c
      /\ g[c] \in Nat
  OBVIOUS
<1>2. Finite(h)
  BY FS_Interval, CountsAreFinite
<1> HIDE DEF c
<1>3. (0 + 1)..(0 + g[c]) = 1..g[c]
  BY <1>1
<1>4. \A d, k : <<d, k>> \in Pairs(g) <=>
               <<d, k>> \in Pairs(h) \/ (d = c /\ k \in (0 + 1)..(0 + g[c]))
  BY <1>1, <1>3, InPairs
<1>5. \A k \in (0 + 1)..(0 + g[c]) : <<c, k>> \notin Pairs(h)
  BY <1>1, InPairs
<1>6. Grows(h, g, c, 0, g[c])
  BY <1>4, <1>5 DEF Grows
<1>7. Timer!Total(g) = Timer!Total(h) + g[c] /\ Timer!Total(h) \in Nat
  BY <1>1, <1>2, <1>6, TotalGrows
<1> QED
  BY <1>7 DEF c

(* Moving the figures of a row does not change their total. *)
LEMMA RowShrinks ==
  ASSUME NEW l \in Nat, NEW h \in [1..(l + 1) -> Nat], NEW g \in [1..l -> Nat],
         \A i \in 1..l : g[i] = h[i + 1]
  PROVE  Timer!Total(h) = Timer!Total(g) + h[1] /\ Timer!Total(g) \in Nat
<1> DEFINE q == [i \in 2..(l + 1) |-> h[i]]
           f == [x \in Pairs(q) |-> <<x[1] - 1, x[2]>>]
<1>1. /\ DOMAIN g = 1..l /\ DOMAIN h = 1..(l + 1) /\ DOMAIN q = 2..(l + 1)
      /\ h[1] \in Nat /\ 1 \in 1..(l + 1) /\ 1 \notin 2..(l + 1)
      /\ 2..(l + 1) \subseteq 1..(l + 1) /\ \A i \in 1..(l + 1) : i = 1 \/ i \in 2..(l + 1)
      /\ q \in [2..(l + 1) -> Nat] /\ \A i \in 2..(l + 1) : q[i] = h[i]
      /\ \A i \in 2..(l + 1) : i \in Int /\ i - 1 \in 1..l /\ g[i - 1] = q[i]
      /\ \A i \in 1..l : i + 1 \in 2..(l + 1) /\ (i + 1) - 1 = i /\ q[i + 1] = g[i]
  OBVIOUS
<1>2. Finite(q)
  <2>1. IsFiniteSet(2..(l + 1))
    BY FS_Interval
  <2> HIDE DEF q
  <2> QED
    BY <1>1, <2>1, CountsAreFinite
<1> HIDE DEF q
<1>3. (0 + 1)..(0 + h[1]) = 1..h[1]
  BY <1>1
<1>4. \A d, k : <<d, k>> \in Pairs(h) <=>
               <<d, k>> \in Pairs(q) \/ (d = 1 /\ k \in (0 + 1)..(0 + h[1]))
  <2>1. \A k : <<1, k>> \in Pairs(h) <=> k \in (0 + 1)..(0 + h[1])
    BY <1>1, <1>3, InPairs
  <2>2. ASSUME NEW d \in 2..(l + 1), NEW k
        PROVE  <<d, k>> \in Pairs(h) <=> <<d, k>> \in Pairs(q)
    <3>1. q[d] = h[d] /\ d \in DOMAIN h /\ d \in DOMAIN q
      BY <1>1
    <3> QED
      BY <3>1, InPairs
  <2>3. \A d, k : <<d, k>> \in Pairs(h) => d = 1 \/ d \in 2..(l + 1)
    BY <1>1, InPairs
  <2>4. \A d, k : <<d, k>> \in Pairs(q) => d \in 2..(l + 1) /\ d # 1
    BY <1>1, InPairs
  <2> QED
    BY <2>1, <2>2, <2>3, <2>4
<1>5. \A k \in (0 + 1)..(0 + h[1]) : <<1, k>> \notin Pairs(q)
  BY <1>1, InPairs
<1>6. Timer!Total(h) = Timer!Total(q) + h[1] /\ Timer!Total(q) \in Nat
  <2>1. Grows(q, h, 1, 0, h[1])
    BY <1>4, <1>5 DEF Grows
  <2> QED
    BY <1>1, <1>2, <2>1, TotalGrows
<1>7. f \in Bijection(Pairs(q), Pairs(g))
  <2>1. \A x \in Pairs(q) :
            /\ x = <<x[1], x[2]>> /\ x[1] \in Int
            /\ <<x[1] - 1, x[2]>> \in Pairs(g)
    <3> SUFFICES ASSUME NEW c, NEW k, <<c, k>> \in Pairs(q)
                 PROVE  c \in Int /\ <<c - 1, k>> \in Pairs(g)
      BY InPairs
    <3>1. c \in 2..(l + 1) /\ k \in 1..q[c]
      BY <1>1, InPairs
    <3>2. c \in Int /\ c - 1 \in 1..l /\ g[c - 1] = q[c]
      BY <1>1, <3>1
    <3> QED
      BY <1>1, <3>1, <3>2, InPairs
  <2>2. ASSUME NEW c, NEW k, <<c, k>> \in Pairs(g)
        PROVE  <<c + 1, k>> \in Pairs(q) /\ (c + 1) - 1 = c
    <3>1. c \in 1..l /\ k \in 1..g[c]
      BY <1>1, <2>2, InPairs
    <3>2. c + 1 \in 2..(l + 1) /\ (c + 1) - 1 = c /\ q[c + 1] = g[c]
      BY <1>1, <3>1
    <3> QED
      BY <1>1, <3>1, <3>2, InPairs
  <2>3. \A x \in Pairs(q) : f[x] = <<x[1] - 1, x[2]>>
    OBVIOUS
  <2>4. f \in [Pairs(q) -> Pairs(g)]
    BY <2>1
  <2> HIDE DEF f
  <2>5. \A x, y \in Pairs(q) : f[x] = f[y] => x = y
    <3> SUFFICES ASSUME NEW x \in Pairs(q), NEW y \in Pairs(q), f[x] = f[y]
                 PROVE  x = y
      OBVIOUS
    <3>1. x[1] - 1 = y[1] - 1 /\ x[2] = y[2]
      BY <2>3
    <3>2. /\ x[1] \in Int /\ x = <<x[1], x[2]>>
          /\ y[1] \in Int /\ y = <<y[1], y[2]>>
      BY <2>1
    <3>3. x[1] = y[1]
      BY <3>1, <3>2
    <3> QED
      BY <3>1, <3>2, <3>3
  <2>6. \A y \in Pairs(g) : \E x \in Pairs(q) : f[x] = y
    <3> SUFFICES ASSUME NEW y \in Pairs(g)
                 PROVE  \E x \in Pairs(q) : f[x] = y
      OBVIOUS
    <3>0. PICK c, k : y = <<c, k>>
      BY InPairs
    <3>1. <<c + 1, k>> \in Pairs(q) /\ (c + 1) - 1 = c
      BY <2>2, <3>0
    <3>2. f[<<c + 1, k>>] = <<(c + 1) - 1, k>>
      BY <2>3, <3>1
    <3> QED
      BY <3>0, <3>1, <3>2
  <2> QED
    BY <2>4, <2>5, <2>6 DEF Bijection, Injection, Surjection, IsInjective
<1> HIDE DEF f
<1>8. Cardinality(Pairs(g)) = Cardinality(Pairs(q))
  BY <1>2, <1>7, FS_Bijection DEF ExistsBijection, Finite
<1> QED
  BY <1>6, <1>8, Totals

-----------------------------------------------------------------------------
(* The figures, and the histogram which they are binned in.                *)
Figures == [sum : Int, min : Int, max : Int, overruns : Nat, samples : Nat]
Histograms == [0..(Cells - 1) -> Nat]

LEMMA Parameters ==
  /\ Far \in Nat /\ Far > 0 /\ Micro \in Nat /\ Micro > 0 /\ Cells \in Nat /\ Cells > 0
  /\ Threshold \in Nat
  /\ Delays \subseteq -Far..Far /\ Latencies \subseteq -Far..Far
BY ToolsAssumption
   DEF Net!NetTestConstants, Net!StatisticsConstants, Timer!TimerTestConstants,
       Timer!StatisticsConstants

LEMMA HistogramTotals ==
  ASSUME NEW h \in Histograms
  PROVE  Finite(h) /\ Net!Total(h) \in Nat /\ Timer!Total(h) \in Nat
<1>1. IsFiniteSet(0..(Cells - 1))
  BY Parameters, FS_Interval
<1>2. Finite(h)
  BY <1>1, CountsAreFinite DEF Histograms
<1> QED
  BY <1>2, TotalIsNatural

CellAdds(h, g, c, m) == g = [h EXCEPT ![c] = @ + m]

(* add_measurement_histogram() counts its samples in one cell.             *)
LEMMA CellGrows ==
  ASSUME NEW h \in Histograms, NEW g, NEW c \in 0..(Cells - 1), NEW m \in Nat, CellAdds(h, g, c, m)
  PROVE  /\ g \in Histograms
         /\ Net!Total(g) = Net!Total(h) + m /\ Timer!Total(g) = Timer!Total(h) + m
<1> DEFINE D == 0..(Cells - 1)
<1>1. /\ DOMAIN g = D /\ DOMAIN h = D /\ g \in [D -> Nat] /\ c \in D /\ h[c] \in Nat
      /\ g[c] = h[c] + m /\ \A d \in D \ {c} : g[d] = h[d]
  BY DEF CellAdds, Histograms
<1> HIDE DEF D
<1>2. \A d, k : <<d, k>> \in Pairs(g) <=>
               <<d, k>> \in Pairs(h) \/ (d = c /\ k \in (h[c] + 1)..(h[c] + m))
  <2>1. ASSUME NEW d, d # c, NEW k
        PROVE  <<d, k>> \in Pairs(g) <=> <<d, k>> \in Pairs(h)
    <3>1. CASE d \in D
      <4>1. g[d] = h[d] /\ d \in DOMAIN g /\ d \in DOMAIN h
        BY <1>1, <2>1, <3>1
      <4> QED
        BY <4>1, InPairs
    <3>2. CASE d \notin D
      BY <1>1, <3>2, InPairs
    <3> QED
      BY <3>1, <3>2
  <2>2. ASSUME NEW k
        PROVE  <<c, k>> \in Pairs(g) <=> <<c, k>> \in Pairs(h) \/ k \in (h[c] + 1)..(h[c] + m)
    <3>1. k \in 1..g[c] <=> k \in 1..h[c] \/ k \in (h[c] + 1)..(h[c] + m)
      BY <1>1
    <3> QED
      BY <1>1, <3>1, InPairs
  <2> QED
    BY <2>1, <2>2
<1>3. \A k \in (h[c] + 1)..(h[c] + m) : <<c, k>> \notin Pairs(h)
  <2>1. \A k \in (h[c] + 1)..(h[c] + m) : k \notin 1..h[c]
    BY <1>1
  <2> QED
    BY <2>1, InPairs
<1>4. Finite(h)
  BY HistogramTotals
<1>5. Grows(h, g, c, h[c], m)
  BY <1>2, <1>3 DEF Grows
<1>6. Net!Total(g) = Net!Total(h) + m /\ Timer!Total(g) = Timer!Total(h) + m
  BY <1>1, <1>4, <1>5, TotalGrows
<1> QED
  BY <1>1, <1>6 DEF Histograms, D

(* reset_measurement() and init_statistics() leave no sample behind.       *)
LEMMA NothingMeasured ==
  /\ Net!EmptyBulk \in Figures /\ Net!NoStatistics \in Figures
  /\ Net!EmptyBulk.samples = 0 /\ Net!NoStatistics.samples = 0
  /\ Timer!EmptyBulk = Net!EmptyBulk /\ Timer!NoStatistics = Net!NoStatistics
  /\ Net!NoHistogram \in Histograms /\ Timer!NoHistogram = Net!NoHistogram
  /\ Net!Total(Net!NoHistogram) = 0 /\ Timer!Total(Net!NoHistogram) = 0
<1>1. /\ DOMAIN Net!NoHistogram = 0..(Cells - 1) /\ Net!NoHistogram \in Histograms
      /\ \A c \in DOMAIN Net!NoHistogram : Net!NoHistogram[c] = 0
  BY DEF Net!NoHistogram, Histograms
<1>2. Net!Total(Net!NoHistogram) = 0 /\ Timer!Total(Net!NoHistogram) = 0
  BY <1>1, EmptyTotal
<1> QED
  BY <1>1, <1>2, Parameters
     DEF Net!EmptyBulk, Net!NoStatistics, Timer!EmptyBulk, Timer!NoStatistics,
         Net!NoHistogram, Timer!NoHistogram, Figures

(* add_measurement(), add_measurement_histogram() and __log_results()      *)
(* count what they are given.                                              *)
LEMMA SamplesMeasured ==
  ASSUME NEW b \in Figures, NEW dt \in Int, NEW n \in Nat
  PROVE  /\ Timer!Measured(b, dt, n) = Net!Measured(b, dt, n)
         /\ Net!Measured(b, dt, n) \in Figures
         /\ Net!Measured(b, dt, n).samples = b.samples + n
<1>1. CASE n = 0
  BY <1>1 DEF Net!Measured, Timer!Measured, Figures
<1>2. CASE n # 0
  <2>1. n * dt \in Int
    OBVIOUS
  <2> DEFINE p == n * dt
  <2>2. p \in Int /\ p = n * dt
    BY <2>1
  <2> HIDE DEF p
  <2>3. /\ Net!Measured(b, dt, n) =
              [b EXCEPT !.sum = @ + p, !.min = Net!Least(@, dt), !.max = Net!Most(@, dt), !.samples = @ + n]
        /\ Timer!Measured(b, dt, n) =
              [b EXCEPT !.sum = @ + p, !.min = Timer!Least(@, dt), !.max = Timer!Most(@, dt), !.samples = @ + n]
    BY <1>2, <2>2 DEF Net!Measured, Timer!Measured
  <2>4. /\ \A x \in Int : Net!Least(x, dt) \in Int /\ Net!Most(x, dt) \in Int
        /\ \A x : Timer!Least(x, dt) = Net!Least(x, dt) /\ Timer!Most(x, dt) = Net!Most(x, dt)
    BY DEF Net!Least, Net!Most, Timer!Least, Timer!Most
  <2>5. Timer!Measured(b, dt, n) = Net!Measured(b, dt, n)
    BY <2>3, <2>4
  <2>6. Net!Measured(b, dt, n) \in Figures /\ Net!Measured(b, dt, n).samples = b.samples + n
    <3>1. /\ b.sum \in Int /\ b.min \in Int /\ b.max \in Int /\ b.samples \in Nat /\ b.overruns \in Nat
          /\ DOMAIN b = {"sum", "min", "max", "overruns", "samples"}
      BY DEF Figures
    <3> DEFINE lo == Net!Least(b.min, dt)
               hi == Net!Most(b.max, dt)
    <3>2. /\ lo \in Int /\ hi \in Int
          /\ Net!Measured(b, dt, n) = [b EXCEPT !.sum = @ + p, !.min = lo, !.max = hi, !.samples = @ + n]
      BY <2>3, <2>4, <3>1
    <3> HIDE DEF lo, hi
    <3>3. b.sum + p \in Int /\ b.samples + n \in Nat
      BY <2>2, <3>1
    <3> DEFINE sum == b.sum + p
               samples == b.samples + n
    <3> HIDE DEF sum, samples
    <3>4. Net!Measured(b, dt, n) =
            [sum |-> sum, min |-> lo, max |-> hi, overruns |-> b.overruns, samples |-> samples]
      BY <3>1, <3>2 DEF Figures, sum, samples
    <3> QED
      BY <3>1, <3>2, <3>3, <3>4 DEF Figures, sum, samples
  <2> QED
    BY <2>5, <2>6
<1> QED
  BY <1>1, <1>2

LEMMA SamplesBinned ==
  ASSUME NEW h \in Histograms, NEW dt \in Int, NEW n \in Nat
  PROVE  /\ Timer!Binned(h, dt, n) = Net!Binned(h, dt, n)
         /\ Net!Binned(h, dt, n) \in Histograms
         /\ Net!Total(Net!Binned(h, dt, n)) = Net!Total(h) + n
         /\ Timer!Total(Net!Binned(h, dt, n)) = Timer!Total(h) + n
<1> DEFINE size == IF dt < 0 THEN -dt ELSE dt
           cell == Net!Least(size \div Micro, Cells - 1)
<1>1. cell \in 0..(Cells - 1)
  <2>1. size \in Nat
    OBVIOUS
  <2> HIDE DEF size
  <2>2. size \div Micro \in Nat
    BY <2>1, Parameters
  <2> QED
    BY <2>2, Parameters DEF Net!Least
<1>2. Net!Binned(h, dt, n) = [h EXCEPT ![cell] = @ + n]
  BY DEF Net!Binned
<1>3. Timer!Binned(h, dt, n) = [h EXCEPT ![cell] = @ + n]
  BY DEF Timer!Binned, Timer!Least, Net!Least
<1> HIDE DEF size, cell
<1> DEFINE g == [h EXCEPT ![cell] = @ + n]
<1>5. /\ g \in Histograms
      /\ Net!Total(g) = Net!Total(h) + n /\ Timer!Total(g) = Timer!Total(h) + n
  <2>1. CellAdds(h, g, cell, n)
    BY DEF CellAdds
  <2> HIDE DEF g
  <2> QED
    BY <1>1, <2>1, CellGrows
<1> HIDE DEF g
<1>6. Net!Binned(h, dt, n) = g /\ Timer!Binned(h, dt, n) = g
  BY <1>2, <1>3 DEF g
<1> QED
  BY <1>5, <1>6

LEMMA SamplesLogged ==
  ASSUME NEW a \in Figures, NEW b \in Figures
  PROVE  /\ Timer!Logged(a, b) = Net!Logged(a, b)
         /\ Net!Logged(a, b) \in Figures
         /\ Net!Logged(a, b).samples = a.samples + b.samples
BY DEF Net!Logged, Timer!Logged, Net!Least, Net!Most, Timer!Least, Timer!Most, Figures

-----------------------------------------------------------------------------
Packets == [n : Nat, serial : Nat, state : {"good", "garbled", "alien"}]

NetTypes ==
    /\ seq \in Nat /\ last \in Nat /\ lost \in Nat /\ late \in Nat /\ back \in Nat /\ sent \in Nat
    /\ inbox \in SUBSET Packets /\ IsFiniteSet(inbox) /\ packet \subseteq inbox
    /\ \A p \in inbox : p.n < sent
    /\ peer \in {"start", "send", "recv"} /\ peerSeq \in Nat /\ peerInbox \in Nat
    /\ dropped \in Nat /\ missed \in Nat

(* The runner has a packet at hand while it logs, starts with the main     *)
(* thread, and exits with it.                                              *)
RunnerInv ==
    /\ runner \in {"log", "reset"} => packet # {}
    /\ main = "start" <=> runner = "start"
    /\ runner = "exit" => main \in {"abort", "exit"}

(* A packet on its way, or the turn to send one: each host has one at      *)
(* first, and only a loss takes it away.                                   *)
Turn(b) == IF b THEN 1 ELSE 0
TokenInv ==
    main \in {"start", "wait"} =>
        Turn(runner \in {"start", "send"}) + Turn(peer \in {"start", "send"})
            + Cardinality(inbox) + peerInbox + dropped >= 2

(* The serials in M were lost or garbled, and no valid one beyond high was *)
(* received.  Each serial before the next one of the peer, and each one    *)
(* before a packet in the inbox, is accounted for.                         *)
Garbled == {p \in inbox : p.state # "good"}
Accounted(k, S, high, M) == k <= high \/ k \in M \/ \E q \in S : q.serial = k
Before(n) == {q \in inbox : q.n < n}
Top == peerSeq + Turn(peer = "recv")

SerialsOK(high, M) ==
    /\ runner # "exit" => \A k \in Nat : k < Top => Accounted(k, inbox, high, M)
    /\ \A p \in inbox : \A k \in Nat : k < p.serial => Accounted(k, Before(p.n), high, M)

AccountOK(high, M) ==
    /\ IsFiniteSet(M) /\ Cardinality(M) + Cardinality(Garbled) <= missed
    /\ last <= high /\ high <= last + back
    /\ lost + Cardinality(Garbled) <= missed + late + back

LossOK(high, M) == SerialsOK(high, M) /\ AccountOK(high, M)
LossInv == \E high \in Nat, M \in SUBSET Nat : LossOK(high, M)

NetInv == NetTypes /\ RunnerInv /\ TokenInv /\ LossInv

-----------------------------------------------------------------------------
(* How many packets there are, garbled or not. *)
LEMMA Counts ==
  ASSUME NetTypes
  PROVE  /\ IsFiniteSet(Garbled) /\ Cardinality(Garbled) \in Nat /\ Cardinality(inbox) \in Nat
         /\ \A n : IsFiniteSet(Before(n)) /\ Cardinality(Before(n)) \in Nat
BY FS_Subset, FS_CardinalityType DEF NetTypes, Garbled, Before

(* A packet leaves the inbox. *)
LEMMA Dequeued ==
  ASSUME NetTypes, NEW p \in inbox, inbox' = inbox \ {p}
  PROVE  /\ IsFiniteSet(inbox') /\ inbox' \in SUBSET Packets
         /\ Cardinality(inbox') = Cardinality(inbox) - 1
         /\ p.state = "good" => Garbled' = Garbled
         /\ p.state # "good" => Cardinality(Garbled') = Cardinality(Garbled) - 1
<1>1. IsFiniteSet(inbox') /\ Cardinality(inbox') = Cardinality(inbox) - 1
  BY FS_RemoveElement DEF NetTypes
<1>2. ASSUME p.state = "good"
      PROVE  Garbled' = Garbled
  BY <1>2 DEF Garbled
<1>3. ASSUME p.state # "good"
      PROVE  Cardinality(Garbled') = Cardinality(Garbled) - 1
  <2>1. Garbled' = Garbled \ {p} /\ p \in Garbled
    BY <1>3 DEF Garbled
  <2> QED
    BY <2>1, Counts, FS_RemoveElement
<1> QED
  BY <1>1, <1>2, <1>3 DEF NetTypes

(* A packet joins the inbox. *)
LEMMA Enqueued ==
  ASSUME NetTypes, NEW k \in Nat, NEW s \in {"good", "garbled", "alien"}, Net!Enqueue(k, s)
  PROVE  /\ inbox' \in SUBSET Packets /\ IsFiniteSet(inbox') /\ inbox \subseteq inbox'
         /\ Cardinality(inbox') = Cardinality(inbox) + 1
         /\ sent' \in Nat /\ missed' \in Nat /\ \A p \in inbox' : p.n < sent'
         /\ Cardinality(Garbled') - missed' = Cardinality(Garbled) - missed /\ missed <= missed'
         /\ \E p \in inbox' : inbox' = inbox \cup {p} /\ p.serial = k /\ p.n = sent
<1> DEFINE p == [n |-> sent, serial |-> k, state |-> s]
<1>1. /\ inbox' = inbox \cup {p} /\ sent' = sent + 1 /\ p \in Packets
      /\ p.n = sent /\ p.serial = k /\ p.state = s
      /\ missed' = missed + (IF s = "good" THEN 0 ELSE 1)
  BY DEF NetTypes, Net!Enqueue, Packets
<1> HIDE DEF p
<1>2. p \notin inbox /\ IsFiniteSet(inbox) /\ inbox \in SUBSET Packets /\ missed \in Nat /\ sent \in Nat
      /\ \A q \in inbox : q.n < sent
  BY <1>1 DEF NetTypes
<1>3. IsFiniteSet(inbox') /\ Cardinality(inbox') = Cardinality(inbox) + 1
  BY <1>1, <1>2, FS_AddElement
<1>4. \A q \in inbox' : q.n < sent'
  <2>1. \A q \in inbox : q.n \in Nat
    BY <1>2 DEF Packets
  <2> QED
    BY <1>1, <1>2, <2>1
<1>5. Cardinality(Garbled') - missed' = Cardinality(Garbled) - missed /\ missed <= missed'
  <2>1. CASE s = "good"
    <3>1. Garbled' = Garbled
      BY <1>1, <2>1 DEF Garbled
    <3> QED
      BY <1>1, <1>2, <2>1, <3>1
  <2>2. CASE s # "good"
    <3>1. Garbled' = Garbled \cup {p} /\ p \notin Garbled
      BY <1>1, <1>2, <2>2 DEF Garbled
    <3>2. Cardinality(Garbled') = Cardinality(Garbled) + 1 /\ Cardinality(Garbled) \in Nat
      BY <3>1, Counts, FS_AddElement
    <3> QED
      BY <1>1, <1>2, <2>2, <3>2
  <2> QED
    BY <2>1, <2>2
<1> QED
  BY <1>1, <1>2, <1>3, <1>4, <1>5

(* What is accounted for stays so, a packet which was read included. *)
LEMMA StillAccounted ==
  ASSUME NEW k \in Nat, NEW S, NEW T, NEW high \in Nat, NEW top \in Nat, NEW M, NEW N, NEW p,
         Accounted(k, S, high, M), high <= top, M \subseteq N,
         S \subseteq T \cup {p}, p \in T \/ p.serial <= top \/ p.serial \in N
  PROVE  Accounted(k, T, top, N)
<1>1. CASE k <= high \/ k \in M
  BY <1>1 DEF Accounted
<1>2. CASE \E q \in S : q.serial = k
  BY <1>2 DEF Accounted
<1> QED
  BY <1>1, <1>2 DEF Accounted

(* The serials before a packet which follows the last one by more than one *)
(* were received, lost or garbled, or are overtaken.                       *)
LEMMA GapIsAccounted ==
  ASSUME NetTypes, NEW high \in Nat, NEW M \in SUBSET Nat, LossOK(high, M), NEW p \in inbox,
         last < p.serial
  PROVE  p.serial - last - 1 <= (high - last) + Cardinality(M) + Cardinality(Before(p.n))
<1> DEFINE gap == (last + 1)..(p.serial - 1)
           read == (last + 1)..high
           S == Before(p.n)
           O == {q.serial : q \in S}
<1>1. last \in Nat /\ p.serial \in Nat /\ last <= high /\ IsFiniteSet(M)
  BY DEF NetTypes, Packets, LossOK, AccountOK
<1>2. Cardinality(gap) = p.serial - last - 1
  <2>1. last + 1 \in Int /\ p.serial - 1 \in Int
    BY <1>1
  <2>2. Cardinality(gap) = IF last + 1 > p.serial - 1 THEN 0 ELSE (p.serial - 1) - (last + 1) + 1
    BY <2>1, FS_Interval
  <2> QED
    BY <1>1, <2>2
<1>3. IsFiniteSet(read) /\ Cardinality(read) = high - last
  <2>1. last + 1 \in Int /\ high \in Int
    BY <1>1
  <2>2. IsFiniteSet(read) /\ Cardinality(read) = IF last + 1 > high THEN 0 ELSE high - (last + 1) + 1
    BY <2>1, FS_Interval
  <2> QED
    BY <1>1, <2>2
<1>4. IsFiniteSet(S) /\ Cardinality(S) \in Nat
  BY Counts
<1>5. IsFiniteSet(O) /\ Cardinality(O) <= Cardinality(S)
  <2> DEFINE f == [q \in S |-> q.serial]
  <2>1. f \in Surjection(S, O)
    BY DEF Surjection
  <2> QED
    BY <1>4, <2>1, FS_Surjection
<1>6. gap \subseteq (read \cup M) \cup O
  <2> SUFFICES ASSUME NEW k \in gap, k \notin read, k \notin M
               PROVE  k \in O
    OBVIOUS
  <2>1. k \in Nat /\ k < p.serial /\ ~ (k <= high)
    BY <1>1
  <2>2. Accounted(k, S, high, M)
    BY <2>1 DEF LossOK, SerialsOK
  <2> QED
    BY <2>1, <2>2 DEF Accounted
<1> HIDE DEF gap, read, S, O
<1>7. /\ IsFiniteSet(read \cup M) /\ Cardinality(read \cup M) <= Cardinality(read) + Cardinality(M)
      /\ Cardinality(read) \in Nat /\ Cardinality(M) \in Nat /\ Cardinality(O) \in Nat
  <2>1. Cardinality(read \cup M) = Cardinality(read) + Cardinality(M) - Cardinality(read \cap M)
          /\ IsFiniteSet(read \cup M)
    BY <1>1, <1>3, FS_Union
  <2>2. IsFiniteSet(read \cap M)
    BY <1>3, FS_Subset
  <2>3. Cardinality(read \cap M) \in Nat /\ Cardinality(read) \in Nat /\ Cardinality(M) \in Nat
          /\ Cardinality(O) \in Nat
    BY <1>1, <1>3, <1>5, <2>2, FS_CardinalityType
  <2> QED
    BY <2>1, <2>3
<1>8. /\ IsFiniteSet((read \cup M) \cup O)
      /\ Cardinality((read \cup M) \cup O) <= Cardinality(read \cup M) + Cardinality(O)
      /\ Cardinality((read \cup M) \cup O) \in Nat /\ Cardinality(read \cup M) \in Nat
  <2>1. Cardinality((read \cup M) \cup O) =
            Cardinality(read \cup M) + Cardinality(O) - Cardinality((read \cup M) \cap O)
          /\ IsFiniteSet((read \cup M) \cup O)
    BY <1>5, <1>7, FS_Union
  <2>2. IsFiniteSet((read \cup M) \cap O)
    BY <1>7, FS_Subset
  <2>3. Cardinality((read \cup M) \cap O) \in Nat /\ Cardinality(read \cup M) \in Nat
          /\ Cardinality((read \cup M) \cup O) \in Nat
    BY <1>7, <2>1, <2>2, FS_CardinalityType
  <2> QED
    BY <1>7, <2>1, <2>3
<1>9. Cardinality(gap) <= Cardinality((read \cup M) \cup O) /\ Cardinality(gap) \in Nat
  BY <1>6, <1>8, FS_Subset, FS_CardinalityType
<1>10. Cardinality(gap) <= Cardinality(read) + Cardinality(M) + Cardinality(S)
  BY <1>4, <1>5, <1>7, <1>8, <1>9
<1> QED
  BY <1>2, <1>3, <1>10 DEF S

(* A packet which is read moves on from the inbox to what was received or  *)
(* counted as lost.                                                        *)
LEMMA ParseKeepsLosses ==
  ASSUME NetTypes, LossInv, NEW p \in inbox, runner # "exit", Net!Parse(p),
         UNCHANGED <<missed, peer, peerSeq>>
  PROVE  LossInv'
<1>1. PICK high \in Nat, M \in SUBSET Nat : LossOK(high, M)
  BY DEF LossInv
<1>2. /\ last \in Nat /\ lost \in Nat /\ late \in Nat /\ back \in Nat /\ missed \in Nat
      /\ p.serial \in Nat /\ inbox' = inbox \ {p} /\ lost' = Net!LostAfter(p)
      /\ last' = IF p.state = "good" THEN p.serial ELSE last
      /\ back' = back + Net!WentBack(p)
  BY DEF NetTypes, Packets, Net!Parse, Net!Valid
<1>3. late' = late + Cardinality(Before(p.n)) /\ Cardinality(Before(p.n)) \in Nat
  <2>1. Net!Overtaken(p) = Before(p.n)
    BY DEF Net!Overtaken, Before
  <2>2. Net!Cardinality(Before(p.n)) = Cardinality(Before(p.n))
    BY DEF Net!Cardinality, Cardinality
  <2> QED
    BY <2>1, <2>2, Counts DEF Net!Parse
<1>4. /\ IsFiniteSet(M) /\ Cardinality(M) \in Nat /\ Cardinality(Garbled) \in Nat
      /\ Cardinality(M) + Cardinality(Garbled) <= missed
      /\ last <= high /\ high <= last + back
      /\ lost + Cardinality(Garbled) <= missed + late + back
  BY <1>1, Counts, FS_CardinalityType DEF LossOK, AccountOK
<1> DEFINE N == IF p.state = "good" THEN M ELSE M \cup {p.serial}
           top == IF p.state = "good" /\ p.serial > high THEN p.serial ELSE high
<1>5. top \in Nat /\ N \in SUBSET Nat /\ high <= top /\ M \subseteq N
      /\ (p.serial <= top \/ p.serial \in N)
  <2>1. CASE p.state = "good" /\ p.serial > high
    BY <1>2, <2>1
  <2>2. CASE p.state = "good" /\ p.serial <= high
    BY <1>2, <2>2
  <2>3. CASE p.state # "good"
    <3>1. N = M \cup {p.serial} /\ top = high
      BY <2>3
    <3>2. p.serial \in N /\ M \subseteq N /\ N \in SUBSET Nat
      BY <1>2, <3>1
    <3> QED
      BY <3>1, <3>2
  <2> QED
    BY <1>2, <2>1, <2>2, <2>3
<1>6. SerialsOK(top, N)'
  <2>1. ASSUME runner' # "exit", NEW k \in Nat, k < Top
        PROVE  Accounted(k, inbox', top, N)
    <3>1. Accounted(k, inbox, high, M)
      BY <1>1, <2>1 DEF LossOK, SerialsOK
    <3>2. inbox \subseteq inbox' \cup {p}
      BY <1>2
    <3>3. p \in inbox' \/ p.serial <= top \/ p.serial \in N
      BY <1>5
    <3> HIDE DEF N, top
    <3> DEFINE T == inbox'
    <3>4. inbox \subseteq T \cup {p} /\ (p \in T \/ p.serial <= top \/ p.serial \in N)
      BY <3>2, <3>3
    <3> HIDE DEF T
    <3>5. Accounted(k, T, top, N)
      BY <1>5, <3>1, <3>4, StillAccounted
    <3> QED
      BY <3>5 DEF T
  <2>2. ASSUME NEW q \in inbox', NEW k \in Nat, k < q.serial
        PROVE  Accounted(k, Before(q.n)', top, N)
    <3>1. Accounted(k, Before(q.n), high, M)
      BY <1>1, <1>2, <2>2 DEF LossOK, SerialsOK
    <3>2. Before(q.n) \subseteq Before(q.n)' \cup {p}
      BY <1>2 DEF Before
    <3> HIDE DEF N, top
    <3> QED
      BY <1>5, <3>1, <3>2, StillAccounted
  <2>3. Top' = Top
    BY DEF Top
  <2> HIDE DEF N, top
  <2> QED
    BY <2>1, <2>2, <2>3 DEF SerialsOK, Accounted
<1>7. IsFiniteSet(N) /\ Cardinality(N) + Cardinality(Garbled') <= missed
        /\ Cardinality(Garbled') \in Nat
  <2>1. CASE p.state = "good"
    BY <1>4, <2>1, Dequeued, <1>2
  <2>2. CASE p.state # "good"
    <3>1. Cardinality(Garbled') = Cardinality(Garbled) - 1
      BY <1>2, <2>2, Dequeued
    <3>2. IsFiniteSet(N) /\ Cardinality(N) <= Cardinality(M) + 1 /\ Cardinality(N) \in Nat
      <4>1. N = M \cup {p.serial}
        BY <2>2
      <4>2. /\ IsFiniteSet(M \cup {p.serial})
            /\ Cardinality(M \cup {p.serial}) =
                 IF p.serial \in M THEN Cardinality(M) ELSE Cardinality(M) + 1
        BY <1>4, FS_AddElement
      <4> HIDE DEF N
      <4> QED
        BY <1>4, <4>1, <4>2
    <3>3. p \in Garbled
      BY <2>2 DEF Garbled
    <3>4. Cardinality(Garbled) # 0
      BY <3>3, Counts, FS_EmptySet
    <3> QED
      BY <1>2, <1>4, <3>1, <3>2, <3>4
  <2> QED
    BY <2>1, <2>2
<1>8. last' <= top /\ top <= last' + back' /\ lost' + Cardinality(Garbled') <= missed + late' + back'
  <2>1. CASE p.state # "good"
    <3>1. lost' = lost + 1 /\ back' = back /\ last' = last /\ top = high
      BY <1>2, <2>1 DEF Net!LostAfter, Net!Valid, Net!WentBack
    <3>2. Cardinality(Garbled') = Cardinality(Garbled) - 1
      BY <1>2, <2>1, Dequeued
    <3> HIDE DEF top
    <3> QED
      BY <1>2, <1>3, <1>4, <3>1, <3>2
  <2>2. CASE p.state = "good" /\ last < p.serial
    <3>1. Garbled' = Garbled /\ last' = p.serial /\ back' = back
      BY <1>2, <2>2, Dequeued DEF Net!WentBack
    <3>2. lost' = lost \/ lost' = p.serial - last - 1
      BY <1>2, <2>2 DEF Net!LostAfter, Net!Valid
    <3>3. p.serial - last - 1 <= (high - last) + Cardinality(M) + Cardinality(Before(p.n))
      BY <1>1, <2>2, GapIsAccounted
    <3>4. lost' + Cardinality(Garbled) <= missed + late' + back
      BY <1>2, <1>3, <1>4, <3>2, <3>3
    <3>5. p.serial <= top /\ top <= p.serial + back
      BY <1>2, <1>4, <2>2
    <3> HIDE DEF top
    <3> QED
      BY <3>1, <3>4, <3>5
  <2>3. CASE p.state = "good" /\ p.serial <= last
    <3>1. Garbled' = Garbled /\ last' = p.serial /\ top = high
      BY <1>2, <1>4, <2>3, Dequeued
    <3>2. CASE last = 0
      <4>1. lost' = lost /\ back' = back /\ p.serial = 0
        BY <1>2, <2>3, <3>2 DEF Net!LostAfter, Net!Valid, Net!WentBack
      <4> HIDE DEF top
      <4> QED
        BY <1>2, <1>3, <1>4, <3>1, <3>2, <4>1
    <3>3. CASE last > 0
      <4>1. (lost' = lost \/ lost' = lost + 1) /\ back' = back + (last - p.serial + 1)
        BY <1>2, <2>3, <3>3 DEF Net!LostAfter, Net!Valid, Net!WentBack
      <4> HIDE DEF top
      <4> QED
        BY <1>2, <1>3, <1>4, <2>3, <3>1, <4>1
    <3> QED
      BY <1>2, <3>2, <3>3
  <2> QED
    BY <1>2, <2>1, <2>2, <2>3
<1>9. AccountOK(top, N)'
  BY <1>7, <1>8 DEF AccountOK
<1> HIDE DEF N, top
<1> QED
  BY <1>5, <1>6, <1>9 DEF LossInv, LossOK

(* A packet on its way to the host joins the inbox: all those before it    *)
(* are accounted for.                                                      *)
LEMMA EnqueueKeepsLosses ==
  ASSUME NetTypes, NEW high \in Nat, NEW M \in SUBSET Nat, LossOK(high, M),
         NEW k \in Nat, NEW s \in {"good", "garbled", "alien"}, Net!Enqueue(k, s),
         \A j \in Nat : j < k => Accounted(j, inbox, high, M),
         UNCHANGED <<last, lost, late, back, runner>>, Top' <= k + 1 \/ Top' = Top, Top' \in Nat
  PROVE  LossInv'
<1>1. PICK p \in inbox' : inbox' = inbox \cup {p} /\ p.serial = k /\ p.n = sent
  BY Enqueued
<1>2. ASSUME NEW j \in Nat, Accounted(j, inbox, high, M)
      PROVE  Accounted(j, inbox', high, M)
  BY <1>1, <1>2 DEF Accounted
<1>3. /\ \A q \in inbox : q.n < sent /\ q.n \in Nat
      /\ sent \in Nat /\ peerSeq \in Nat
  BY DEF NetTypes, Packets
<1>4. ASSUME runner # "exit", NEW j \in Nat, j < Top'
      PROVE  Accounted(j, inbox', high, M)
  <2>1. CASE j < k
    BY <1>2, <2>1
  <2>2. CASE j = k
    BY <1>1, <2>2 DEF Accounted
  <2>3. CASE j > k
    <3>1. j < Top
      <4>1. ~ (j < k + 1)
        BY <2>3
      <4> QED
        BY <1>4, <4>1
    <3>2. Accounted(j, inbox, high, M)
      BY <1>4, <3>1 DEF LossOK, SerialsOK
    <3> QED
      BY <1>2, <3>2
  <2> QED
    BY <2>1, <2>2, <2>3
<1>5. ASSUME NEW q \in inbox', NEW j \in Nat, j < q.serial
      PROVE  Accounted(j, Before(q.n)', high, M)
  <2>1. CASE q \in inbox
    <3>1. Before(q.n)' = Before(q.n)
      BY <1>1, <1>3, <2>1 DEF Before
    <3>2. Accounted(j, Before(q.n), high, M)
      BY <1>5, <2>1 DEF LossOK, SerialsOK
    <3> QED
      BY <3>1, <3>2
  <2>2. CASE q = p
    <3>1. Before(q.n)' = inbox
      BY <1>1, <1>3, <2>2 DEF Before
    <3>2. Accounted(j, inbox, high, M)
      BY <1>1, <1>5, <2>2
    <3> QED
      BY <3>1, <3>2
  <2> QED
    BY <1>1, <2>1, <2>2
<1>6. SerialsOK(high, M)'
  BY <1>4, <1>5 DEF SerialsOK, Accounted
<1>7. AccountOK(high, M)'
  <2>1. /\ Cardinality(Garbled') - missed' = Cardinality(Garbled) - missed
        /\ missed' \in Nat
    BY Enqueued
  <2>2. Cardinality(Garbled) \in Nat /\ IsFiniteSet(M) /\ Cardinality(M) \in Nat /\ missed \in Nat
    BY Counts, FS_CardinalityType DEF LossOK, AccountOK, NetTypes
  <2>3. Cardinality(Garbled') \in Nat
    <3>1. IsFiniteSet(inbox') /\ Garbled' \subseteq inbox'
      BY Enqueued DEF Garbled
    <3> QED
      BY <3>1, FS_Subset, FS_CardinalityType
  <2> QED
    BY <2>1, <2>2, <2>3 DEF LossOK, AccountOK, NetTypes
<1> QED
  BY <1>6, <1>7 DEF LossInv, LossOK

(* A packet of the peer is lost. *)
LEMMA DropKeepsLosses ==
  ASSUME NetTypes, LossInv, peer = "send", peer' = "recv", missed' = missed + 1,
         UNCHANGED <<inbox, peerSeq, last, lost, late, back, runner>>
  PROVE  LossInv'
<1>1. PICK high \in Nat, M \in SUBSET Nat : LossOK(high, M)
  BY DEF LossInv
<1> DEFINE N == M \cup {peerSeq}
<1>2. N \in SUBSET Nat /\ peerSeq \in Nat /\ Top = peerSeq /\ Top' = peerSeq + 1
  BY DEF NetTypes, Top, Turn
<1>3. ASSUME NEW k \in Nat, NEW S, Accounted(k, S, high, M)
      PROVE  Accounted(k, S, high, N)
  BY <1>3 DEF Accounted
<1>4. ASSUME runner # "exit", NEW k \in Nat, k < Top'
      PROVE  Accounted(k, inbox, high, N)
  <2>1. CASE k < peerSeq
    BY <1>1, <1>2, <1>3, <1>4, <2>1 DEF LossOK, SerialsOK
  <2>2. CASE k = peerSeq
    BY <2>2 DEF Accounted
  <2> QED
    BY <1>2, <1>4, <2>1, <2>2
<1>5. Garbled' = Garbled /\ \A n : Before(n)' = Before(n)
  BY DEF Garbled, Before
<1>6. ASSUME NEW q \in inbox, NEW k \in Nat, k < q.serial
      PROVE  Accounted(k, Before(q.n), high, N)
  BY <1>1, <1>3, <1>6 DEF LossOK, SerialsOK
<1>7. SerialsOK(high, N)'
  BY <1>4, <1>5, <1>6 DEF SerialsOK, Accounted
<1>8. AccountOK(high, N)'
  <2>1. IsFiniteSet(M) /\ Cardinality(M) \in Nat /\ Cardinality(Garbled) \in Nat /\ missed \in Nat
    BY <1>1, Counts, FS_CardinalityType DEF LossOK, AccountOK, NetTypes
  <2>2. IsFiniteSet(N) /\ Cardinality(N) \in Nat /\ Cardinality(N) <= Cardinality(M) + 1
    <3>1. peerSeq \in M => N = M
      OBVIOUS
    <3>2. peerSeq \notin M => IsFiniteSet(N) /\ Cardinality(N) = Cardinality(M) + 1
      BY <2>1, FS_AddElement
    <3> HIDE DEF N
    <3>3. CASE peerSeq \in M
      BY <2>1, <3>1, <3>3
    <3>4. CASE peerSeq \notin M
      BY <2>1, <3>2, <3>4
    <3> QED
      BY <3>3, <3>4
  <2>3. N' = N
    OBVIOUS
  <2> HIDE DEF N
  <2> QED
    BY <1>1, <1>5, <2>1, <2>2, <2>3 DEF LossOK, AccountOK, NetTypes
<1>9. N' = N
  OBVIOUS
<1> HIDE DEF N
<1> QED
  BY <1>2, <1>7, <1>8, <1>9 DEF LossInv, LossOK

(* The process exits: what is in the inbox is never read. *)
LEMMA ExitKeepsLosses ==
  ASSUME NetTypes, LossInv, inbox' = {}, runner' = "exit",
         UNCHANGED <<last, lost, late, back, missed, peer, peerSeq>>
  PROVE  LossInv'
<1>1. PICK high \in Nat, M \in SUBSET Nat : LossOK(high, M)
  BY DEF LossInv
<1>2. Garbled' = {} /\ Cardinality(Garbled') = 0
  BY FS_EmptySet DEF Garbled
<1>3. Cardinality(Garbled) \in Nat /\ IsFiniteSet(M) /\ Cardinality(M) \in Nat
  BY <1>1, Counts, FS_CardinalityType DEF LossOK, AccountOK
<1>4. SerialsOK(high, M)'
  BY DEF SerialsOK
<1>5. AccountOK(high, M)'
  BY <1>1, <1>2, <1>3 DEF LossOK, AccountOK, NetTypes
<1> QED
  BY <1>4, <1>5 DEF LossInv, LossOK

(* The other steps leave the sequence and the inbox alone. *)
LEMMA OthersKeepLosses ==
  ASSUME NetTypes, LossInv, UNCHANGED <<last, lost, late, back, inbox, missed>>,
         runner = "exit" => runner' = "exit", Top' \in Nat, Top' <= Top
  PROVE  LossInv'
<1>1. PICK high \in Nat, M \in SUBSET Nat : LossOK(high, M)
  BY DEF LossInv
<1>2. Garbled' = Garbled /\ \A n : Before(n)' = Before(n)
  BY DEF Garbled, Before
<1>3. Top \in Nat
  BY DEF NetTypes, Top, Turn
<1>4. ASSUME runner' # "exit", NEW k \in Nat, k < Top'
      PROVE  Accounted(k, inbox, high, M)
  <2>1. k < Top /\ runner # "exit"
    BY <1>3, <1>4
  <2> QED
    BY <1>1, <2>1 DEF LossOK, SerialsOK
<1>5. SerialsOK(high, M)'
  BY <1>1, <1>2, <1>4 DEF LossOK, SerialsOK, Accounted
<1>6. AccountOK(high, M)'
  BY <1>1, <1>2 DEF LossOK, AccountOK
<1> QED
  BY <1>5, <1>6 DEF LossInv, LossOK

-----------------------------------------------------------------------------
(* The invariants hold at first.                                           *)
LEMMA InitIsSound == Net!Init => NetInv
<1> SUFFICES ASSUME Net!Init
             PROVE  NetInv
  OBVIOUS
<1>1. NetTypes
  BY FS_EmptySet DEF NetTypes, Net!Init
<1>2. RunnerInv
  BY DEF RunnerInv, Net!Init
<1>3. Cardinality(inbox) = 0
  BY FS_EmptySet DEF Net!Init
<1>4. TokenInv
  BY <1>3 DEF TokenInv, Turn, Net!Init
<1>5. Garbled = {} /\ Top = 0
  BY DEF Garbled, Top, Turn, Net!Init
<1>6. SerialsOK(0, {})
  BY <1>5 DEF SerialsOK, Net!Init
<1>7. AccountOK(0, {})
  <2>1. IsFiniteSet({}) /\ Cardinality({}) = 0 /\ Cardinality(Garbled) = 0
    BY <1>5, FS_EmptySet
  <2>2. last = 0 /\ lost = 0 /\ missed = 0 /\ late = 0 /\ back = 0
    BY DEF Net!Init
  <2> QED
    BY <2>1, <2>2 DEF AccountOK
<1>8. {} \in SUBSET Nat /\ 0 \in Nat
  OBVIOUS
<1>9. LossInv
  BY <1>6, <1>7, <1>8 DEF LossInv, LossOK
<1> QED
  BY <1>1, <1>2, <1>4, <1>9 DEF NetInv

(* What a packet which is read changes.                                    *)
LEMMA ParseKeepsTypes ==
  ASSUME NetTypes, NEW p \in inbox, Net!Parse(p)
  PROVE  /\ seq' \in Nat /\ last' \in Nat /\ lost' \in Nat /\ late' \in Nat /\ back' \in Nat
         /\ inbox' \in SUBSET Packets /\ IsFiniteSet(inbox') /\ packet' \subseteq inbox'
         /\ \A q \in inbox' : q \in inbox
         /\ Cardinality(inbox') = Cardinality(inbox) - 1 /\ sent' = sent /\ runner' = "send"
<1>1. /\ seq' = seq + 1 /\ last' = (IF p.state = "good" THEN p.serial ELSE last)
      /\ lost' = Net!LostAfter(p) /\ back' = back + Net!WentBack(p)
      /\ late' = late + Net!Cardinality(Net!Overtaken(p))
      /\ inbox' = inbox \ {p} /\ packet' = {} /\ sent' = sent /\ runner' = "send"
  BY DEF Net!Parse, Net!Valid
<1>2. p.serial \in Nat /\ seq \in Nat /\ last \in Nat /\ lost \in Nat /\ late \in Nat /\ back \in Nat
  BY DEF NetTypes, Packets
<1>3. lost' \in Nat /\ back' \in Nat
  BY <1>1, <1>2 DEF Net!LostAfter, Net!WentBack
<1>4. late' \in Nat
  <2>1. Net!Overtaken(p) = Before(p.n) /\ Cardinality(Before(p.n)) \in Nat
    BY Counts DEF Net!Overtaken, Before
  <2>2. Net!Cardinality(Before(p.n)) = Cardinality(Before(p.n))
    BY DEF Net!Cardinality, Cardinality
  <2> QED
    BY <1>1, <1>2, <2>1, <2>2
<1>5. IsFiniteSet(inbox') /\ inbox' \in SUBSET Packets /\ Cardinality(inbox') = Cardinality(inbox) - 1
  BY <1>1, Dequeued
<1> QED
  BY <1>1, <1>2, <1>3, <1>4, <1>5

(* Each step keeps the types, and the runner in step with the main thread. *)
LEMMA StepKeepsTypes ==
  ASSUME NetTypes, RunnerInv, Net!Next
  PROVE  NetTypes' /\ RunnerInv'
<1> USE DEF Net!sequence, Net!wire, Net!figures, Net!others
<1>1. CASE Net!Start \/ Net!Send \/ Net!FetchTimestamps
  BY <1>1 DEF Net!Start, Net!Send, Net!FetchTimestamps, NetTypes, RunnerInv
<1>2. ASSUME NEW p \in inbox, Net!Parse(p), runner # "start",
             UNCHANGED <<main, peer, peerSeq, peerInbox, dropped, missed>>
      PROVE  NetTypes' /\ RunnerInv'
  BY <1>2, ParseKeepsTypes DEF NetTypes, RunnerInv
<1>3. CASE Net!Receive
  <2>1. PICK p \in inbox : \/ Net!Parse(p)
                           \/ /\ runner' = "log" /\ packet' = {p}
                              /\ UNCHANGED <<seq, check, last, lost, late, back, inbox, sent>>
    BY <1>3 DEF Net!Receive
  <2>2. runner = "recv" /\ UNCHANGED <<main, peer, peerSeq, peerInbox, dropped, missed>>
    BY <1>3 DEF Net!Receive
  <2>3. CASE Net!Parse(p)
    BY <1>2, <2>2, <2>3
  <2>4. CASE ~ Net!Parse(p)
    BY <2>1, <2>2, <2>4 DEF NetTypes, RunnerInv
  <2> QED
    BY <2>3, <2>4
<1>4. CASE Net!Reset
  <2>1. PICK p \in packet : Net!Parse(p)
    BY <1>4 DEF Net!Reset
  <2>2. p \in inbox /\ runner = "reset"
    BY <1>4 DEF Net!Reset, NetTypes
  <2> QED
    BY <1>2, <1>4, <2>1, <2>2 DEF Net!Reset
<1>5. ASSUME NEW status \in {"abort", "exit"}, Net!Exit(status), main # "start"
      PROVE  NetTypes' /\ RunnerInv'
  <2>1. IsFiniteSet(inbox') /\ inbox' = {} /\ packet' = {}
    BY <1>5, FS_EmptySet DEF Net!Exit
  <2> QED
    BY <1>5, <2>1 DEF Net!Exit, NetTypes, RunnerInv
<1>6. CASE Net!Log
  <2>1. CASE Net!Exit("abort")
    BY <1>5, <1>6, <2>1 DEF Net!Log, RunnerInv
  <2>2. CASE ~ Net!Exit("abort")
    BY <1>6, <2>2 DEF Net!Log, NetTypes, RunnerInv
  <2> QED
    BY <2>1, <2>2
<1>7. CASE Net!Finalize
  <2>1. CASE Net!Exit("abort")
    BY <1>5, <1>7, <2>1 DEF Net!Finalize
  <2>2. CASE ~ Net!Exit("abort")
    BY <1>7, <2>2 DEF Net!Finalize, NetTypes, RunnerInv
  <2> QED
    BY <2>1, <2>2
<1>8. CASE Net!Report
  BY <1>5, <1>8 DEF Net!Report
<1>9. CASE Net!Peer
  <2>1. UNCHANGED <<runner, main, seq, check, last, lost, late, back, packet>>
    BY <1>9 DEF Net!Peer
  <2>2. CASE Net!PeerSends
    <3>1. peer' = "recv" /\ UNCHANGED <<peerSeq, peerInbox>> /\ peerSeq \in Nat
      BY <2>2 DEF Net!PeerSends, NetTypes
    <3>2. CASE \E s \in {"good", "garbled", "alien"} : Net!Enqueue(peerSeq, s) /\ UNCHANGED dropped
      BY <2>1, <3>1, <3>2, Enqueued DEF NetTypes, RunnerInv
    <3>3. CASE dropped' = dropped + 1 /\ missed' = missed + 1 /\ UNCHANGED <<inbox, sent>>
      BY <2>1, <3>1, <3>3 DEF NetTypes, RunnerInv
    <3> QED
      BY <2>2, <3>2, <3>3 DEF Net!PeerSends
  <2>3. CASE Net!Repeat
    <3>1. PICK p \in inbox : Net!Enqueue(p.serial, p.state)
      BY <2>3 DEF Net!Repeat
    <3>2. p.serial \in Nat /\ p.state \in {"good", "garbled", "alien"}
      BY DEF NetTypes, Packets
    <3>3. UNCHANGED <<peer, peerSeq, peerInbox, dropped>>
      BY <2>3 DEF Net!Repeat
    <3> QED
      BY <2>1, <3>1, <3>2, <3>3, Enqueued DEF NetTypes, RunnerInv
  <2>4. CASE Net!PeerStarts \/ Net!PeerExits \/ Net!PeerReceives
    BY <2>1, <2>4 DEF Net!PeerStarts, Net!PeerExits, Net!PeerReceives, NetTypes, RunnerInv
  <2> QED
    BY <1>9, <2>2, <2>3, <2>4 DEF Net!Peer
<1> QED
  BY <1>1, <1>3, <1>4, <1>6, <1>7, <1>8, <1>9 DEF Net!Next

(* Each step hands a token on, or counts its loss. *)
LEMMA StepKeepsTokens ==
  ASSUME NetTypes, RunnerInv, TokenInv, Net!Next
  PROVE  TokenInv'
<1> USE DEF Net!sequence, Net!wire, Net!figures, Net!others
<1>0. Cardinality(inbox) \in Nat /\ peerInbox \in Nat /\ dropped \in Nat
  BY Counts DEF NetTypes
<1>1. CASE Net!Start
  BY <1>0, <1>1 DEF Net!Start, RunnerInv, TokenInv, Turn
<1>2. CASE Net!Send
  <2>1. /\ runner = "send" /\ runner' = "timer" /\ UNCHANGED <<main, inbox, peer>>
        /\ \/ peerInbox' = peerInbox + 1 /\ dropped' = dropped
           \/ peerInbox' = peerInbox /\ dropped' = dropped + 1
    BY <1>2 DEF Net!Send
  <2> QED
    BY <1>0, <2>1 DEF TokenInv, Turn
<1>3. CASE Net!FetchTimestamps
  BY <1>3 DEF Net!FetchTimestamps, TokenInv, Turn
<1>4. ASSUME NEW p \in inbox, Net!Parse(p), runner \notin {"start", "send"},
             UNCHANGED <<main, peer, peerInbox, dropped>>
      PROVE  TokenInv'
  <2>1. Cardinality(inbox') = Cardinality(inbox) - 1 /\ runner' = "send"
    BY <1>4, ParseKeepsTypes
  <2> QED
    BY <1>0, <1>4, <2>1 DEF TokenInv, Turn
<1>5. CASE Net!Receive
  <2>1. PICK p \in inbox : Net!Parse(p) \/ (runner' = "log" /\ UNCHANGED inbox)
    BY <1>5 DEF Net!Receive
  <2>2. runner = "recv" /\ UNCHANGED <<main, peer, peerInbox, dropped>>
    BY <1>5 DEF Net!Receive
  <2>3. CASE Net!Parse(p)
    BY <1>4, <2>2, <2>3
  <2>4. CASE runner' = "log" /\ UNCHANGED inbox
    BY <2>2, <2>4 DEF TokenInv, Turn
  <2> QED
    BY <2>1, <2>3, <2>4
<1>6. CASE Net!Reset
  <2>1. PICK p \in packet : Net!Parse(p)
    BY <1>6 DEF Net!Reset
  <2>2. p \in inbox
    BY DEF NetTypes
  <2> QED
    BY <1>4, <1>6, <2>1, <2>2 DEF Net!Reset
<1>7. CASE Net!Log
  BY <1>7 DEF Net!Log, Net!Exit, TokenInv, Turn
<1>8. CASE Net!Finalize \/ Net!Report
  BY <1>8 DEF Net!Finalize, Net!Report, Net!Exit, TokenInv
<1>9. CASE Net!Peer
  <2>1. UNCHANGED <<runner, main>>
    BY <1>9 DEF Net!Peer
  <2>2. CASE Net!PeerSends
    <3>1. \/ Cardinality(inbox') = Cardinality(inbox) + 1 /\ dropped' = dropped
          \/ inbox' = inbox /\ dropped' = dropped + 1
      <4>1. peerSeq \in Nat
        BY DEF NetTypes
      <4> QED
        BY <2>2, <4>1, Enqueued DEF Net!PeerSends
    <3>2. peer = "send" /\ peer' = "recv" /\ peerInbox' = peerInbox
      BY <2>2 DEF Net!PeerSends
    <3> QED
      BY <1>0, <2>1, <3>1, <3>2 DEF TokenInv, Turn
  <2>3. CASE Net!Repeat
    <3>1. PICK p \in inbox : Net!Enqueue(p.serial, p.state)
      BY <2>3 DEF Net!Repeat
    <3>2. p.serial \in Nat /\ p.state \in {"good", "garbled", "alien"}
      BY DEF NetTypes, Packets
    <3>3. Cardinality(inbox') = Cardinality(inbox) + 1 /\ UNCHANGED <<peer, peerInbox, dropped>>
      BY <2>3, <3>1, <3>2, Enqueued DEF Net!Repeat
    <3> QED
      BY <1>0, <2>1, <3>3 DEF TokenInv, Turn
  <2>4. CASE Net!PeerStarts \/ Net!PeerExits \/ Net!PeerReceives
    BY <1>0, <2>1, <2>4 DEF Net!PeerStarts, Net!PeerExits, Net!PeerReceives, TokenInv, Turn, NetTypes
  <2> QED
    BY <1>9, <2>2, <2>3, <2>4 DEF Net!Peer
<1> QED
  BY <1>1, <1>2, <1>3, <1>5, <1>6, <1>7, <1>8, <1>9 DEF Net!Next

(* No step counts a packet as lost twice, but for those which go back.     *)
LEMMA StepKeepsLosses ==
  ASSUME NetTypes, RunnerInv, LossInv, Net!Next
  PROVE  LossInv'
<1> USE DEF Net!sequence, Net!wire, Net!figures, Net!others
<1>0. Top \in Nat /\ (UNCHANGED <<peer, peerSeq>> => Top' = Top)
  BY DEF NetTypes, Top, Turn
<1>00. ASSUME UNCHANGED <<last, lost, late, back, inbox, missed, peer, peerSeq>>,
              runner = "exit" => runner' = "exit"
       PROVE  LossInv'
  BY <1>0, <1>00, OthersKeepLosses
<1>1. CASE Net!Start \/ Net!Send \/ Net!FetchTimestamps
  BY <1>00, <1>1 DEF Net!Start, Net!Send, Net!FetchTimestamps, RunnerInv
<1>2. CASE Net!Receive
  <2>1. PICK p \in inbox : \/ Net!Parse(p)
                           \/ UNCHANGED <<last, lost, late, back, inbox>>
    BY <1>2 DEF Net!Receive
  <2>2. runner = "recv" /\ UNCHANGED <<peer, peerSeq, missed>>
    BY <1>2 DEF Net!Receive
  <2>3. CASE Net!Parse(p)
    BY <2>2, <2>3, ParseKeepsLosses
  <2>4. CASE ~ Net!Parse(p)
    BY <1>00, <2>1, <2>2, <2>4
  <2> QED
    BY <2>3, <2>4
<1>3. CASE Net!Reset
  <2>1. PICK p \in packet : Net!Parse(p)
    BY <1>3 DEF Net!Reset
  <2>2. p \in inbox
    BY DEF NetTypes
  <2> QED
    BY <1>3, <2>1, <2>2, ParseKeepsLosses DEF Net!Reset
<1>4. CASE Net!Log
  BY <1>00, <1>4, ExitKeepsLosses DEF Net!Log, Net!Exit
<1>5. CASE Net!Finalize \/ Net!Report
  BY <1>00, <1>5, ExitKeepsLosses DEF Net!Finalize, Net!Report, Net!Exit
<1>6. CASE Net!Peer
  <2>1. UNCHANGED <<runner, last, lost, late, back>>
    BY <1>6 DEF Net!Peer
  <2>5. PICK high \in Nat, M \in SUBSET Nat : LossOK(high, M)
    BY DEF LossInv
  <2>2. CASE Net!PeerSends
    <3>1. peer = "send" /\ peer' = "recv" /\ UNCHANGED peerSeq /\ peerSeq \in Nat
      BY <2>2 DEF Net!PeerSends, NetTypes
    <3>2. CASE \E s \in {"good", "garbled", "alien"} : Net!Enqueue(peerSeq, s)
      <4>1. PICK s \in {"good", "garbled", "alien"} : Net!Enqueue(peerSeq, s)
        BY <3>2
      <4>2. Top = peerSeq /\ Top' = peerSeq + 1
        BY <3>1 DEF Top, Turn
      <4>3. ASSUME runner # "exit"
            PROVE  LossInv'
        <5>1. \A j \in Nat : j < peerSeq => Accounted(j, inbox, high, M)
          BY <2>5, <4>2, <4>3 DEF LossOK, SerialsOK
        <5>2. Top' <= peerSeq + 1 /\ Top' \in Nat
          BY <3>1, <4>2
        <5> QED
          BY <2>1, <2>5, <3>1, <4>1, <5>1, <5>2, EnqueueKeepsLosses
      <4>4. runner # "exit"
        BY <1>6 DEF Net!Peer, RunnerInv
      <4> QED
        BY <4>3, <4>4
    <3>3. CASE missed' = missed + 1 /\ UNCHANGED inbox
      BY <2>1, <3>1, <3>3, DropKeepsLosses
    <3> QED
      BY <2>2, <3>2, <3>3 DEF Net!PeerSends
  <2>3. CASE Net!Repeat
    <3>1. PICK p \in inbox : Net!Enqueue(p.serial, p.state)
      BY <2>3 DEF Net!Repeat
    <3>2. p.serial \in Nat /\ p.state \in {"good", "garbled", "alien"}
      BY DEF NetTypes, Packets
    <3>3. Top' = Top /\ Top' \in Nat
      BY <1>0, <2>3 DEF Net!Repeat
    <3>4. \A j \in Nat : j < p.serial => Accounted(j, inbox, high, M)
      <4>1. Before(p.n) \subseteq inbox
        BY DEF Before
      <4> QED
        BY <2>5, <4>1 DEF LossOK, SerialsOK, Accounted
    <3> QED
      BY <2>1, <2>5, <3>1, <3>2, <3>3, <3>4, EnqueueKeepsLosses
  <2>4. CASE Net!PeerStarts \/ Net!PeerExits \/ Net!PeerReceives
    <3>1. UNCHANGED <<inbox, missed>> /\ Top' \in Nat /\ Top' <= Top
      BY <2>4 DEF Net!PeerStarts, Net!PeerExits, Net!PeerReceives, NetTypes, Top, Turn
    <3> QED
      BY <2>1, <3>1, OthersKeepLosses
  <2> QED
    BY <1>6, <2>2, <2>3, <2>4 DEF Net!Peer
<1> QED
  BY <1>1, <1>2, <1>3, <1>4, <1>5, <1>6 DEF Net!Next

-----------------------------------------------------------------------------
(* Of the network test: each sample of a histogram is in the statistics,   *)
(* or in the bulk which will be added there.                               *)
NetFigures ==
    /\ bulk \in [Net!Stats -> Figures] /\ stats \in [Net!Stats -> Figures]
    /\ histogram \in [Net!Stats -> Histograms] /\ pending \in Nat
    /\ main \in {"abort", "exit"} => runner = "exit"

InBulk(s) == IF main \in {"report", "exit"} \/ runner = "reset" THEN 0 ELSE bulk[s].samples
NetCount ==
    ~ torn /\ main # "abort" =>
        \A s \in Net!Stats : stats[s].samples + InBulk(s) = Net!Total(histogram[s])

(* What is added to a bulk is added to its histogram.                      *)
LEMMA AddCounts ==
  ASSUME NetFigures, NEW way \in SUBSET Net!Stats, NEW dt \in Int, NEW n \in Nat, Net!Add(way, dt, n)
  PROVE  /\ bulk' \in [Net!Stats -> Figures] /\ histogram' \in [Net!Stats -> Histograms]
         /\ \A s \in Net!Stats : \E k \in {0, n} :
              /\ bulk'[s].samples = bulk[s].samples + k
              /\ Net!Total(histogram'[s]) = Net!Total(histogram[s]) + k
<1>1. ASSUME NEW s \in Net!Stats
      PROVE  /\ bulk[s] \in Figures /\ histogram[s] \in Histograms /\ bulk[s].samples \in Nat
             /\ Net!Total(histogram[s]) \in Nat
  <2>1. bulk[s] \in Figures /\ histogram[s] \in Histograms
    BY DEF NetFigures
  <2>2. bulk[s].samples \in Nat
    BY <2>1 DEF Figures
  <2> QED
    BY <2>1, <2>2, HistogramTotals
<1>2. ASSUME NEW s \in way
      PROVE  /\ bulk'[s] \in Figures /\ bulk'[s].samples = bulk[s].samples + n
             /\ histogram'[s] \in Histograms
             /\ Net!Total(histogram'[s]) = Net!Total(histogram[s]) + n
  <2>1. s \in Net!Stats /\ bulk'[s] = Net!Measured(bulk[s], dt, n)
          /\ histogram'[s] = Net!Binned(histogram[s], dt, n)
    BY DEF Net!Add
  <2> QED
    BY <1>1, <2>1, SamplesMeasured, SamplesBinned
<1>3. ASSUME NEW s \in Net!Stats, s \notin way
      PROVE  bulk'[s] = bulk[s] /\ histogram'[s] = histogram[s]
  BY <1>3 DEF Net!Add
<1>4. bulk' \in [Net!Stats -> Figures] /\ histogram' \in [Net!Stats -> Histograms]
  BY <1>1, <1>2, <1>3 DEF Net!Add
<1>5. ASSUME NEW s \in Net!Stats
      PROVE  \E k \in {0, n} :
                /\ bulk'[s].samples = bulk[s].samples + k
                /\ Net!Total(histogram'[s]) = Net!Total(histogram[s]) + k
  <2>1. CASE s \in way
    BY <1>2, <2>1
  <2>2. CASE s \notin way
    BY <1>1, <1>3, <2>2
  <2> QED
    BY <2>1, <2>2
<1> QED
  BY <1>4, <1>5

(* The invariants hold at first.                                           *)
LEMMA NetStarts ==
  ASSUME Net!Init
  PROVE  NetFigures /\ NetCount
<1>1. NetFigures
  BY NothingMeasured DEF Net!Init, NetFigures
<1>2. \A s \in Net!Stats : stats[s].samples = 0 /\ bulk[s].samples = 0 /\ Net!Total(histogram[s]) = 0
  BY NothingMeasured DEF Net!Init
<1>3. \A s \in Net!Stats : InBulk(s) = 0
  BY <1>2 DEF InBulk
<1> QED
  BY <1>1, <1>2, <1>3 DEF NetCount

(* What a step of the network test must do to the figures. *)
LEMMA FiguresAreThere ==
  ASSUME NetFigures, NEW s \in Net!Stats
  PROVE  /\ stats[s] \in Figures /\ stats[s].samples \in Nat
         /\ bulk[s] \in Figures /\ bulk[s].samples \in Nat
         /\ histogram[s] \in Histograms /\ Net!Total(histogram[s]) \in Nat
<1>1. stats[s] \in Figures /\ bulk[s] \in Figures /\ histogram[s] \in Histograms
  BY DEF NetFigures
<1>2. stats[s].samples \in Nat /\ bulk[s].samples \in Nat
  BY <1>1 DEF Figures
<1> QED
  BY <1>1, <1>2, HistogramTotals

(* __log_results() adds the samples of each bulk.                          *)
LEMMA SumUpCounts ==
  ASSUME NetFigures, Net!SumUp
  PROVE  /\ stats' \in [Net!Stats -> Figures]
         /\ \A s \in Net!Stats : stats'[s].samples = stats[s].samples + bulk[s].samples
<1>1. ASSUME NEW s \in Net!Stats
      PROVE  /\ stats'[s] \in Figures
             /\ stats'[s].samples = stats[s].samples + bulk[s].samples
  <2>1. stats'[s] = Net!Logged(stats[s], bulk[s])
    BY DEF Net!SumUp
  <2> QED
    BY <2>1, FiguresAreThere, SamplesLogged
<1> QED
  BY <1>1 DEF Net!SumUp

(* No step of either thread loses a sample or adds one twice, unless the   *)
(* runner was measuring while the main thread reported.                    *)
LEMMA StepKeepsCount ==
  ASSUME NetTypes, RunnerInv, NetFigures, NetCount, Net!Next
  PROVE  NetFigures' /\ NetCount'
<1> USE DEF Net!sequence, Net!wire, Net!figures, Net!others
<1>1. ASSUME UNCHANGED <<bulk, stats, histogram, torn>>, pending' \in Nat,
             runner \notin {"reset", "exit"}, runner' \notin {"reset", "exit"},
             UNCHANGED main
      PROVE  NetFigures' /\ NetCount'
  BY <1>1 DEF NetFigures, NetCount, InBulk
<1>2. CASE Net!Start
  <2>1. /\ UNCHANGED <<bulk, stats, histogram, torn, pending>>
        /\ runner = "start" /\ main = "start" /\ runner' = "send" /\ main' = "wait"
    BY <1>2 DEF Net!Start, RunnerInv
  <2> QED
    BY <2>1 DEF NetFigures, NetCount, InBulk
<1>3. CASE Net!Send
  <2>1. /\ UNCHANGED <<stats, histogram, torn, main>>
        /\ runner = "send" /\ runner' = "timer" /\ pending' = pending + 1
        /\ bulk' = bulk \/ bulk' = [bulk EXCEPT !["tx_delivery"].overruns = @ + 1]
    BY <1>3 DEF Net!Send
  <2>2. /\ bulk' \in [Net!Stats -> Figures]
        /\ \A s \in Net!Stats : bulk'[s].samples = bulk[s].samples
    BY <2>1 DEF NetFigures, Figures, Net!Stats, Net!Tx
  <2> QED
    BY <2>1, <2>2 DEF NetFigures, NetCount, InBulk
<1>4. ASSUME NEW way \in SUBSET Net!Stats, NEW dt \in Int, NEW n \in Nat, Net!Add(way, dt, n),
             pending' \in Nat, UNCHANGED <<stats, main>>,
             runner \notin {"reset", "exit"}, runner' \notin {"reset", "exit"}
      PROVE  NetFigures' /\ NetCount'
  <2>1. NetFigures'
    BY <1>4, AddCounts DEF NetFigures
  <2>2. ASSUME ~ torn', main' # "abort", NEW s \in Net!Stats
        PROVE  stats'[s].samples + InBulk(s)' = Net!Total(histogram'[s])
    <3>1. PICK k \in {0, n} :
                /\ bulk'[s].samples = bulk[s].samples + k
                /\ Net!Total(histogram'[s]) = Net!Total(histogram[s]) + k
      BY <1>4, AddCounts
    <3>2. ~ torn /\ (main = "report" => k = 0)
      <4>1. torn' = (torn \/ (n > 0 /\ main = "report"))
        BY <1>4 DEF Net!Add
      <4>2. ~ torn /\ ~ (n > 0 /\ main = "report")
        BY <2>2, <4>1
      <4> QED
        BY <3>1, <4>2
    <3>3. stats[s].samples + InBulk(s) = Net!Total(histogram[s])
      BY <1>4, <2>2, <3>2 DEF NetCount
    <3>4. main # "exit"
      BY <1>4 DEF NetFigures
    <3> QED
      BY <1>4, <3>1, <3>2, <3>3, <3>4, FiguresAreThere DEF InBulk
  <2> QED
    BY <2>1, <2>2 DEF NetCount
<1>5. CASE Net!FetchTimestamps
  <2>1. PICK n \in {0, pending}, dt \in Delays : pending' = pending - n /\ Net!Add(Net!Tx, dt, n)
    BY <1>5 DEF Net!FetchTimestamps
  <2>2. n \in Nat /\ pending' \in Nat /\ dt \in Int /\ Net!Tx \in SUBSET Net!Stats
    BY <2>1, Parameters DEF NetFigures, Net!Stats
  <2>3. runner = "timer" /\ runner' = "recv" /\ UNCHANGED <<stats, main>>
    BY <1>5 DEF Net!FetchTimestamps
  <2> QED
    BY <1>4, <2>1, <2>2, <2>3
<1>6. CASE Net!Receive
  <2>1. /\ runner = "recv" /\ runner' \in {"log", "send"} /\ UNCHANGED <<main, pending, stats>>
    BY <1>6 DEF Net!Receive, Net!Parse
  <2>2. CASE UNCHANGED <<bulk, histogram, torn>>
    BY <1>1, <2>1, <2>2 DEF NetFigures
  <2>3. CASE \E dt \in Delays : Net!Add(Net!Rx, dt, 1)
    <3>1. PICK dt \in Delays : Net!Add(Net!Rx, dt, 1)
      BY <2>3
    <3>2. dt \in Int /\ Net!Rx \in SUBSET Net!Stats /\ pending' \in Nat
      BY <2>1, Parameters DEF Net!Stats, NetFigures
    <3> QED
      BY <1>4, <2>1, <3>1, <3>2
  <2> QED
    BY <1>6, <2>2, <2>3 DEF Net!Receive
<1>7. CASE Net!Exit("abort") /\ main # "start"
  BY <1>7 DEF Net!Exit, NetFigures, NetCount
<1>8. CASE Net!Log
  <2>1. CASE Net!SumUp /\ runner' = "reset" /\ torn' = (torn \/ main = "report")
               /\ UNCHANGED <<main, pending, bulk, histogram>>
    <3>1. NetFigures'
      BY <1>8, <2>1, SumUpCounts DEF NetFigures, Net!Log
    <3>2. ASSUME ~ torn', main # "abort", NEW s \in Net!Stats
          PROVE  stats'[s].samples + 0 = Net!Total(histogram[s])
      <4>1. ~ torn /\ main # "report" /\ main # "exit" /\ runner # "reset"
        BY <1>8, <2>1, <3>2 DEF Net!Log, NetFigures
      <4>2. stats[s].samples + bulk[s].samples = Net!Total(histogram[s])
        BY <3>2, <4>1 DEF NetCount, InBulk
      <4> QED
        BY <2>1, <4>2, FiguresAreThere, SumUpCounts
    <3> QED
      BY <2>1, <3>1, <3>2 DEF NetCount, InBulk
  <2> QED
    BY <1>7, <1>8, <2>1 DEF Net!Log, RunnerInv
<1>9. CASE Net!Reset
  <2>1. /\ bulk' = [s \in Net!Stats |-> Net!EmptyBulk] /\ UNCHANGED <<main, pending, stats, histogram, torn>>
        /\ runner = "reset" /\ runner' = "send"
    BY <1>9 DEF Net!Reset, Net!Parse
  <2>2. NetFigures' /\ \A s \in Net!Stats : bulk'[s].samples = 0
    BY <2>1, NothingMeasured DEF NetFigures
  <2>3. \A s \in Net!Stats : InBulk(s) = 0 /\ InBulk(s)' = 0
    BY <2>1, <2>2 DEF InBulk
  <2> QED
    BY <2>1, <2>2, <2>3 DEF NetCount
<1>10. CASE Net!Finalize
  <2>1. CASE Net!SumUp /\ main' = "report" /\ torn' = (torn \/ runner = "reset")
               /\ UNCHANGED <<runner, pending, bulk, histogram>>
    <3>1. NetFigures'
      BY <2>1, SumUpCounts DEF NetFigures
    <3>2. ASSUME ~ torn', NEW s \in Net!Stats
          PROVE  stats'[s].samples + 0 = Net!Total(histogram[s])
      <4>1. ~ torn /\ main = "wait" /\ runner # "reset"
        BY <1>10, <2>1, <3>2 DEF Net!Finalize
      <4>2. stats[s].samples + bulk[s].samples = Net!Total(histogram[s])
        BY <3>2, <4>1 DEF NetCount, InBulk
      <4> QED
        BY <2>1, <4>2, FiguresAreThere, SumUpCounts
    <3> QED
      BY <2>1, <3>1, <3>2 DEF NetCount, InBulk
  <2> QED
    BY <1>7, <1>10, <2>1 DEF Net!Finalize
<1>11. CASE Net!Report
  BY <1>11 DEF Net!Report, Net!Exit, NetFigures, NetCount, InBulk
<1>12. CASE Net!Peer
  BY <1>12 DEF Net!Peer, NetFigures, NetCount, InBulk
<1> QED
  BY <1>2, <1>3, <1>5, <1>6, <1>8, <1>9, <1>10, <1>11, <1>12 DEF Net!Next

-----------------------------------------------------------------------------
(* A bulk of the timer test: its sum lies between so many times its        *)
(* extremes, and so does its average (more_timer_data).                    *)
Sane(b) ==
    /\ b.min * b.samples <= b.sum /\ b.sum <= b.max * b.samples
    /\ b.samples > 0 => b.min <= b.max
Bulks == {b \in Figures : Sane(b)}
Full == {b \in Bulks : b.samples > 0}

(* Arithmetic for sums and averages.                                       *)
LEMMA Products ==
  ASSUME NEW a \in Int, NEW b \in Int, NEW n \in Nat
  PROVE  /\ a * n \in Int
         /\ a * (n + 1) = a * n + a
         /\ a <= b => a * n <= b * n
         /\ n > 0 /\ a * n < b * n + n => a <= b
<1>1. a * n \in Int /\ b * n \in Int /\ a * (n + 1) = a * n + a
  OBVIOUS
<1>2. ASSUME a <= b PROVE a * n <= b * n
  <2>1. (b - a) * n >= 0 /\ (b - a) * n = b * n - a * n
    BY <1>2
  <2> QED
    BY <1>1, <2>1
<1>3. ASSUME n > 0, a * n < b * n + n, a > b PROVE FALSE
  <2>1. (a - b - 1) * n >= 0 /\ (a - b - 1) * n = a * n - b * n - n
    BY <1>3
  <2> QED
    BY <1>1, <1>3, <2>1
<1> QED
  BY <1>1, <1>2, <1>3

LEMMA Quotients ==
  ASSUME NEW a \in Nat, NEW n \in Nat, n > 0
  PROVE  a \div n \in Nat /\ (a \div n) * n <= a /\ a < (a \div n) * n + n
OBVIOUS

(* The average of a bulk is between its extremes, although the division of *)
(* C rounds to zero.                                                       *)
LEMMA Averages ==
  ASSUME NEW b \in Full
  PROVE  /\ Timer!Average(b) \in Int
         /\ b.min <= Timer!Average(b) /\ Timer!Average(b) <= b.max
<1> DEFINE n == b.samples
           lo == b.min
           hi == b.max
           sum == b.sum
<1>1. /\ n \in Nat /\ n > 0 /\ lo \in Int /\ hi \in Int /\ sum \in Int
      /\ lo * n <= sum /\ sum <= hi * n
  BY DEF Full, Bulks, Sane, Figures
<1>2. Timer!Average(b) = IF sum >= 0 THEN sum \div n ELSE -((-sum) \div n)
  BY DEF Timer!Average
<1> HIDE DEF n, lo, hi, sum
<1>3. CASE sum >= 0
  <2> DEFINE q == sum \div n
  <2>1. q \in Nat /\ q * n <= sum /\ sum < q * n + n
    BY <1>1, <1>3, Quotients
  <2> HIDE DEF q
  <2>2. lo * n \in Int /\ hi * n \in Int /\ q * n \in Int
    BY <1>1, <2>1, Products
  <2>3. q * n < hi * n + n /\ lo * n < q * n + n
    BY <1>1, <2>1, <2>2
  <2>4. q <= hi /\ lo <= q
    BY <1>1, <2>1, <2>3, Products
  <2> QED
    BY <1>2, <1>3, <2>1, <2>4 DEF q, lo, hi
<1>4. CASE sum < 0
  <2> DEFINE q == (-sum) \div n
             a == -q
  <2>1. q \in Nat /\ q * n <= -sum /\ -sum < q * n + n
    BY <1>1, <1>4, Quotients
  <2> HIDE DEF q
  <2>2. a \in Int /\ a * n = -(q * n) /\ q * n \in Int
    BY <1>1, <2>1
  <2> HIDE DEF a
  <2>3. lo * n \in Int /\ hi * n \in Int
    BY <1>1, Products
  <2>4. a * n < hi * n + n /\ lo * n < a * n + n
    BY <1>1, <2>1, <2>2, <2>3
  <2>5. a <= hi /\ lo <= a
    BY <1>1, <2>2, <2>4, Products
  <2> QED
    BY <1>1, <1>2, <1>4, <2>2, <2>5 DEF a, q, lo, hi
<1> QED
  BY <1>1, <1>3, <1>4

(* add_measurement() keeps a bulk sane.                                    *)
LEMMA OneMeasured ==
  ASSUME NEW b \in Bulks, NEW dt \in Int
  PROVE  /\ Timer!Measured(b, dt, 1) \in Bulks
         /\ Timer!Measured(b, dt, 1).samples = b.samples + 1
<1> DEFINE g == Timer!Measured(b, dt, 1)
           n == b.samples
<1>1. /\ n \in Nat /\ b.min \in Int /\ b.max \in Int /\ b.sum \in Int
      /\ b.min * n <= b.sum /\ b.sum <= b.max * n /\ b \in Figures
  BY DEF Bulks, Sane, Figures
<1>2. g \in Figures /\ g.samples = n + 1
  BY <1>1, SamplesMeasured
<1>3. /\ g.min \in Int /\ g.max \in Int /\ g.min <= b.min /\ g.min <= dt /\ b.max <= g.max /\ dt <= g.max
      /\ g.sum = b.sum + dt
  <2>1. /\ Timer!Least(b.min, dt) \in Int /\ Timer!Least(b.min, dt) <= b.min /\ Timer!Least(b.min, dt) <= dt
        /\ Timer!Most(b.max, dt) \in Int /\ b.max <= Timer!Most(b.max, dt) /\ dt <= Timer!Most(b.max, dt)
        /\ 1 * dt = dt
    BY <1>1 DEF Timer!Least, Timer!Most
  <2>2. g.sum = b.sum + dt /\ g.min = Timer!Least(b.min, dt) /\ g.max = Timer!Most(b.max, dt)
    BY <2>1 DEF Timer!Measured, Bulks, Figures
  <2> QED
    BY <2>1, <2>2
<1> HIDE DEF g, n
<1>4. g.min * (n + 1) <= g.sum
  <2>1. g.min * (n + 1) = g.min * n + g.min /\ g.min * n <= b.min * n
        /\ g.min * n \in Int /\ b.min * n \in Int
    BY <1>1, <1>3, Products
  <2> QED
    BY <1>1, <1>3, <2>1
<1>5. g.sum <= g.max * (n + 1)
  <2>1. g.max * (n + 1) = g.max * n + g.max /\ b.max * n <= g.max * n
        /\ g.max * n \in Int /\ b.max * n \in Int
    BY <1>1, <1>3, Products
  <2> QED
    BY <1>1, <1>3, <2>1
<1>6. g.min <= g.max
  BY <1>3
<1>7. Sane(g)
  BY <1>2, <1>4, <1>5, <1>6 DEF Sane
<1> QED
  BY <1>2, <1>7 DEF Bulks, g, n

-----------------------------------------------------------------------------
(* The figures of the cross-buffer. *)
Row(q) == [i \in DOMAIN q |-> q[i].samples]

LEMMA Rows ==
  ASSUME NEW q \in Seq(Full)
  PROVE  /\ Row(q) \in [1..Len(q) -> Nat] /\ DOMAIN q = 1..Len(q) /\ Len(q) \in Nat
         /\ \A i \in 1..Len(q) : Row(q)[i] = q[i].samples
<1>1. DOMAIN q = 1..Len(q) /\ Len(q) \in Nat /\ \A i \in 1..Len(q) : q[i] \in Full
  OBVIOUS
<1>2. \A b \in Full : b.samples \in Nat
  BY DEF Full, Bulks, Figures
<1> QED
  BY <1>1, <1>2 DEF Row

LEMMA RowTotal ==
  ASSUME NEW q \in Seq(Full)
  PROVE  Timer!Total(Row(q)) \in Nat
<1>1. IsFiniteSet(1..Len(q))
  BY Rows, FS_Interval
<1> QED
  BY <1>1, Rows, CountsAreFinite, TotalIsNatural

(* A bulk is written to the cross-buffer, or read from it.                 *)
LEMMA RowAppended ==
  ASSUME NEW q \in Seq(Full), NEW b \in Full
  PROVE  /\ Append(q, b) \in Seq(Full)
         /\ Timer!Total(Row(Append(q, b))) = Timer!Total(Row(q)) + b.samples
<1> DEFINE r == Append(q, b)
           l == Len(q)
<1>1. r \in Seq(Full) /\ Len(r) = l + 1 /\ r[l + 1] = b /\ \A i \in 1..l : r[i] = q[i]
  OBVIOUS
<1> HIDE DEF r
<1>2. /\ l \in Nat /\ Row(q) \in [1..l -> Nat] /\ Row(r) \in [1..(l + 1) -> Nat]
      /\ \A i \in 1..l : Row(q)[i] = q[i].samples
      /\ \A i \in 1..(l + 1) : Row(r)[i] = r[i].samples
  BY <1>1, Rows
<1>3. \A i \in 1..l : Row(r)[i] = Row(q)[i]
  BY <1>1, <1>2
<1>4. Timer!Total(Row(r)) = Timer!Total(Row(q)) + Row(r)[l + 1]
  BY <1>2, <1>3, RowGrows
<1>5. Row(r)[l + 1] = b.samples
  BY <1>1, <1>2
<1> QED
  BY <1>1, <1>4, <1>5 DEF r

LEMMA RowTaken ==
  ASSUME NEW q \in Seq(Full), q # <<>>
  PROVE  /\ Head(q) \in Full /\ Tail(q) \in Seq(Full)
         /\ Timer!Total(Row(q)) = Timer!Total(Row(Tail(q))) + Head(q).samples
<1> DEFINE r == Tail(q)
           l == Len(r)
<1>1. /\ Head(q) \in Full /\ r \in Seq(Full) /\ l \in Nat /\ Len(q) = l + 1 /\ Head(q) = q[1]
      /\ \A i \in 1..l : r[i] = q[i + 1] /\ i + 1 \in 1..(l + 1)
  OBVIOUS
<1> HIDE DEF r
<1>2. /\ Row(r) \in [1..l -> Nat] /\ Row(q) \in [1..(l + 1) -> Nat]
      /\ \A i \in 1..l : Row(r)[i] = r[i].samples
      /\ \A i \in 1..(l + 1) : Row(q)[i] = q[i].samples
  BY <1>1, Rows
<1> HIDE DEF l
<1>3. \A i \in 1..l : Row(r)[i] = Row(q)[i + 1]
  BY <1>1, <1>2
<1>4. Timer!Total(Row(q)) = Timer!Total(Row(r)) + Row(q)[1]
  BY <1>1, <1>2, <1>3, RowShrinks
<1>5. Row(q)[1] = Head(q).samples
  BY <1>1, <1>2
<1> QED
  BY <1>1, <1>4, <1>5 DEF r

-----------------------------------------------------------------------------
(* Of the timer test: types, and where its threads are.                    *)
TimerTypes ==
    /\ {bulkNow, held, last_bulk} \subseteq Bulks /\ xbuf \in Seq(Full)
    /\ st \in Figures /\ seen \in [{"logger", "main"} -> Figures]
    /\ collected \in Histograms

TimerSteps ==
    /\ tester = "start" => logger = "none"
    /\ logger \in {"none", "read"} => held.samples = 0
    /\ logger \in {"page", "sum", "line"} => held \in Full
    /\ sitter = "stopping" <=> tester = "join"
    /\ sitter = "done" => bulkNow.samples = 0
    /\ tester \in {"log", "sum", "report", "exit"} => sitter = "done"

(* Each sample of the histogram is in the statistics or still on its way   *)
(* there.  A thread which has read the statistics may write them later,    *)
(* with less than they have got meanwhile.                                 *)
InLast == IF tester \in {"log", "sum"} THEN last_bulk.samples ELSE 0
Left == bulkNow.samples + Timer!InXbuf + Timer!InHand + InLast

TimerCount ==
    /\ st.samples + Left <= Timer!Total(collected)
    /\ ~ overlap => st.samples + Left = Timer!Total(collected)
    /\ logger = "sum" => seen["logger"].samples + Left <= Timer!Total(collected)
    /\ tester = "sum" => seen["main"].samples + Left <= Timer!Total(collected)

(* The statistics never exceed the threshold, and cover the bulk which the *)
(* logger has added, unless another one overwrote them.                    *)
TimerExtremes ==
    /\ Threshold > 0 => st.max <= Threshold /\ seen["logger"].max <= Threshold
                          /\ seen["main"].max <= Threshold
    /\ ~ overlap /\ logger = "line" => held.max <= st.max /\ st.min <= held.min

TimerSound == TimerTypes /\ TimerSteps /\ TimerCount /\ TimerExtremes

(* A test which aborts stops there.                                        *)
TimerInv ==
    /\ tester = "weird" => overlap
    /\ tester \notin {"abort", "weird"} => TimerSound

(* An empty bulk is sane.                                                  *)
LEMMA NoBulk == Timer!EmptyBulk \in Bulks /\ Timer!EmptyBulk.samples = 0
<1>1. Sane(Timer!EmptyBulk)
  BY Parameters DEF Sane, Timer!EmptyBulk
<1> QED
  BY <1>1, NothingMeasured DEF Bulks

(* The invariants hold at first.                                           *)
LEMMA TimerStarts ==
  ASSUME Timer!Init
  PROVE  TimerInv
<1> USE DEF Timer!Init
<1>1. Timer!EmptyBulk \in Bulks /\ Timer!EmptyBulk.samples = 0 /\ Timer!NoStatistics \in Figures
      /\ Timer!NoStatistics.samples = 0 /\ Timer!NoStatistics.max = -Far
  BY NoBulk, NothingMeasured DEF Timer!NoStatistics
<1>2. TimerTypes
  BY <1>1, NothingMeasured DEF TimerTypes
<1>3. TimerSteps
  BY <1>1 DEF TimerSteps
<1>4. TimerCount
  <2>1. Timer!InXbuf = 0
    <3>1. DOMAIN xbuf = {}
      OBVIOUS
    <3> DEFINE r == [i \in DOMAIN xbuf |-> xbuf[i].samples]
    <3>2. \A c \in DOMAIN r : r[c] = 0
      BY <3>1
    <3> HIDE DEF r
    <3>3. Timer!Total(r) = 0
      BY <3>2, EmptyTotal
    <3> QED
      BY <3>3 DEF Timer!InXbuf, r
  <2>2. Left = 0
    BY <1>1, <2>1 DEF Left, Timer!InHand, InLast
  <2> QED
    BY <1>1, <2>2, NothingMeasured DEF TimerCount
<1>5. TimerExtremes
  BY <1>1, Parameters DEF TimerExtremes
<1> QED
  BY <1>2, <1>3, <1>4, <1>5 DEF TimerInv, TimerSound

-----------------------------------------------------------------------------
(* What the threads do to the figures.                                     *)
LEMMA SampleCounts ==
  ASSUME TimerTypes, Timer!Sample
  PROVE  /\ bulkNow' \in Bulks /\ bulkNow'.samples = bulkNow.samples + 1
         /\ collected' \in Histograms
         /\ Timer!Total(collected') = Timer!Total(collected) + 1
<1>1. PICK dt \in Latencies : /\ bulkNow' = Timer!Measured(bulkNow, dt, 1)
                              /\ collected' = Timer!Binned(collected, dt, 1)
  BY DEF Timer!Sample
<1>2. dt \in Int /\ bulkNow \in Bulks /\ collected \in Histograms
  BY Parameters DEF TimerTypes
<1> QED
  BY <1>1, <1>2, OneMeasured, SamplesBinned

(* An update leaves in the statistics figures which they were read with,   *)
(* or which they had got meanwhile, with those of the bulk.                *)
LEMMA UpdateCounts ==
  ASSUME TimerTypes, NEW t \in {"logger", "main"}, NEW b \in Bulks, Timer!Update(t, b)
  PROVE  /\ st' \in Figures
         /\ st'.samples \in {seen[t].samples + b.samples, st.samples + b.samples}
         /\ st'.max \in {Timer!Most(seen[t].max, b.max), Timer!Most(st.max, b.max)}
         /\ overlap' = (overlap \/ seen[t] # st)
         /\ seen[t] = st => st'.samples = st.samples + b.samples
                              /\ st'.max = Timer!Most(st.max, b.max)
         /\ b.max <= st'.max /\ st'.min <= b.min
         /\ seen[t] = st => st.max <= st'.max /\ st'.min <= st.min
<1> DEFINE x == Timer!Logged(seen[t], b)
           y == Timer!Logged(st, b)
<1>1. seen[t] \in Figures /\ st \in Figures /\ b \in Figures
  BY DEF TimerTypes, Bulks
<1>2. st' \in [sum: {x.sum, y.sum}, min: {x.min, y.min}, max: {x.max, y.max},
               overruns: {x.overruns, y.overruns}, samples: {x.samples, y.samples}]
      /\ overlap' = (overlap \/ seen[t] # st)
  BY DEF Timer!Update, Timer!Updated
<1>3. x \in Figures /\ y \in Figures
  BY <1>1, SamplesLogged
<1>4. /\ x.samples = seen[t].samples + b.samples /\ y.samples = st.samples + b.samples
      /\ x.max = Timer!Most(seen[t].max, b.max) /\ y.max = Timer!Most(st.max, b.max)
      /\ x.min = Timer!Least(seen[t].min, b.min) /\ y.min = Timer!Least(st.min, b.min)
  BY DEF Timer!Logged
<1>5. seen[t] = st => x = y
  OBVIOUS
<1> HIDE DEF x, y
<1>6. /\ st' \in Figures
      /\ st'.samples \in {x.samples, y.samples} /\ st'.max \in {x.max, y.max} /\ st'.min \in {x.min, y.min}
  BY <1>2, <1>3 DEF Figures
<1>7. /\ seen[t].max \in Int /\ seen[t].min \in Int /\ st.max \in Int /\ st.min \in Int
      /\ b.max \in Int /\ b.min \in Int
  BY <1>1 DEF Figures
<1>8. /\ b.max <= x.max /\ b.max <= y.max /\ st.max <= y.max
      /\ x.min <= b.min /\ y.min <= b.min /\ y.min <= st.min
  BY <1>4, <1>7 DEF Timer!Most, Timer!Least
<1> QED
  BY <1>2, <1>4, <1>5, <1>6, <1>8

(* The amounts which are added up.                                         *)
LEMMA AmountsAreNatural ==
  ASSUME TimerTypes
  PROVE  /\ bulkNow.samples \in Nat /\ held.samples \in Nat /\ last_bulk.samples \in Nat
         /\ st.samples \in Nat /\ seen["logger"].samples \in Nat /\ seen["main"].samples \in Nat
         /\ Timer!InXbuf \in Nat /\ Timer!InHand \in Nat /\ InLast \in Nat
         /\ Timer!Total(collected) \in Nat /\ Timer!InXbuf = Timer!Total(Row(xbuf))
         /\ st.max \in Int /\ st.min \in Int /\ held.max \in Int /\ held.min \in Int
         /\ last_bulk.max \in Int /\ seen["logger"].max \in Int /\ seen["main"].max \in Int
<1>1. \A b \in Bulks : b.samples \in Nat /\ b.max \in Int /\ b.min \in Int
  BY DEF Bulks, Figures
<1>2. \A b \in Figures : b.samples \in Nat /\ b.max \in Int /\ b.min \in Int
  BY DEF Figures
<1>3. Timer!InXbuf = Timer!Total(Row(xbuf))
  BY DEF Timer!InXbuf, Row
<1>4. Timer!Total(Row(xbuf)) \in Nat /\ Timer!Total(collected) \in Nat
  BY RowTotal, HistogramTotals DEF TimerTypes
<1>5. {bulkNow, held, last_bulk} \subseteq Bulks /\ st \in Figures /\ seen["logger"] \in Figures
      /\ seen["main"] \in Figures
  BY DEF TimerTypes
<1>6. /\ bulkNow.samples \in Nat /\ held.samples \in Nat /\ last_bulk.samples \in Nat
      /\ st.samples \in Nat /\ seen["logger"].samples \in Nat /\ seen["main"].samples \in Nat
      /\ st.max \in Int /\ st.min \in Int /\ held.max \in Int /\ held.min \in Int
      /\ last_bulk.max \in Int /\ seen["logger"].max \in Int /\ seen["main"].max \in Int
  BY <1>1, <1>2, <1>5
<1> QED
  BY <1>3, <1>4, <1>6 DEF Timer!InHand, InLast

(* A step which leaves the figures alone.                                  *)
LEMMA FiguresKept ==
  ASSUME TimerTypes, TimerCount,
         UNCHANGED <<bulkNow, collected, xbuf, st, seen, overlap>>,
         Timer!InHand' = Timer!InHand, InLast' = InLast,
         logger' = "sum" => logger = "sum", tester' = "sum" => tester = "sum"
  PROVE  TimerCount'
<1>1. Timer!InXbuf' = Timer!InXbuf
  BY DEF Timer!InXbuf
<1>2. Left' = Left
  BY <1>1 DEF Left
<1> QED
  BY <1>2 DEF TimerCount

(* The driver and the sitter move samples, and count each new one once.    *)
LEMMA DriverKeepsCount ==
  ASSUME TimerSound, Timer!Driver
  PROVE  TimerSound'
<1> USE DEF TimerSound
<1>1. ASSUME Timer!Sample, sitter = "run",
             UNCHANGED <<tester, sitter, logger, xbuf, held, last_bulk, st, seen, overlap>>
      PROVE  TimerSound'
  <2>1. TimerTypes'
    BY <1>1, SampleCounts DEF TimerTypes
  <2>2. TimerSteps' /\ TimerExtremes'
    BY <1>1 DEF TimerSteps, TimerExtremes
  <2>3. Timer!InXbuf' = Timer!InXbuf /\ Timer!InHand' = Timer!InHand /\ InLast' = InLast
    BY <1>1 DEF Timer!InXbuf, Timer!InHand, InLast
  <2>4. Left' = Left + 1 /\ Left \in Nat
    BY <1>1, <2>3, SampleCounts, AmountsAreNatural DEF Left
  <2>5. TimerCount'
    BY <1>1, <2>4, SampleCounts, AmountsAreNatural DEF TimerCount
  <2> QED
    BY <2>1, <2>2, <2>5
<1>2. CASE Timer!Tick
  BY <1>1, <1>2 DEF Timer!Tick
<1>3. CASE Timer!Pulse
  <2>1. CASE Timer!Sample
    BY <1>1, <1>3, <2>1 DEF Timer!Pulse
  <2>2. CASE UNCHANGED <<bulkNow, collected>>
    <3>1. UNCHANGED <<tester, sitter, logger, bulkNow, collected, xbuf, held, last_bulk, st, seen, overlap>>
      BY <1>3, <2>2 DEF Timer!Pulse
    <3>2. TimerTypes' /\ TimerSteps' /\ TimerExtremes'
      BY <3>1 DEF TimerTypes, TimerSteps, TimerExtremes
    <3> QED
      BY <3>1, <3>2, FiguresKept DEF Timer!InHand, InLast
  <2> QED
    BY <1>3, <2>1, <2>2 DEF Timer!Pulse
<1>4. CASE Timer!EndBulk
  <2>1. /\ sitter = "run" /\ bulkNow.samples > 0
        /\ xbuf' = Append(xbuf, bulkNow) /\ bulkNow' = Timer!EmptyBulk
        /\ UNCHANGED <<tester, sitter, logger, collected, held, last_bulk, st, seen, overlap>>
    BY <1>4 DEF Timer!EndBulk
  <2>2. bulkNow \in Full /\ xbuf \in Seq(Full)
    BY <2>1 DEF TimerTypes, Full
  <2>3. xbuf' \in Seq(Full) /\ Timer!Total(Row(xbuf')) = Timer!Total(Row(xbuf)) + bulkNow.samples
    BY <2>1, <2>2, RowAppended
  <2>4. bulkNow' \in Bulks /\ bulkNow'.samples = 0
    BY <2>1, NoBulk
  <2>5. TimerTypes'
    BY <2>1, <2>3, <2>4 DEF TimerTypes
  <2>6. TimerSteps' /\ TimerExtremes'
    BY <2>1 DEF TimerSteps, TimerExtremes
  <2>7. /\ Timer!InXbuf' = Timer!InXbuf + bulkNow.samples
        /\ Timer!InHand' = Timer!InHand /\ InLast' = InLast
    BY <2>1, <2>3, AmountsAreNatural DEF Timer!InXbuf, Row, Timer!InHand, InLast
  <2>8. Left' = Left
    BY <2>4, <2>7, AmountsAreNatural DEF Left
  <2>9. TimerCount'
    BY <2>1, <2>8 DEF TimerCount
  <2> QED
    BY <2>5, <2>6, <2>9
<1>5. CASE Timer!SitterReturns
  <2>1. /\ sitter = "stopping" /\ sitter' = "done" /\ tester = "join" /\ tester' = "log"
        /\ last_bulk' = bulkNow /\ bulkNow' = Timer!EmptyBulk
        /\ UNCHANGED <<logger, collected, xbuf, held, st, seen, overlap>>
    BY <1>5 DEF Timer!SitterReturns, TimerSteps
  <2>2. bulkNow' \in Bulks /\ bulkNow'.samples = 0
    BY <2>1, NoBulk
  <2>3. TimerTypes'
    BY <2>1, <2>2 DEF TimerTypes
  <2>4. TimerSteps' /\ TimerExtremes'
    BY <2>1, <2>2 DEF TimerSteps, TimerExtremes
  <2>5. /\ Timer!InXbuf' = Timer!InXbuf /\ Timer!InHand' = Timer!InHand
        /\ InLast = 0 /\ InLast' = bulkNow.samples
    BY <2>1 DEF Timer!InXbuf, Timer!InHand, InLast
  <2>6. Left' = Left
    BY <2>2, <2>5, AmountsAreNatural DEF Left
  <2>7. TimerCount'
    BY <2>1, <2>6 DEF TimerCount
  <2> QED
    BY <2>3, <2>4, <2>7
<1> QED
  BY <1>2, <1>3, <1>4, <1>5 DEF Timer!Driver

(* __log_results() ends: the bulk goes from its hands to the statistics.   *)
LEMMA UpdateKeepsCount ==
  ASSUME TimerTypes, TimerCount, TimerExtremes,
         NEW t \in {"logger", "main"}, NEW b \in Bulks, Timer!Update(t, b), UNCHANGED <<collected, seen>>,
         seen[t].samples + Left <= Timer!Total(collected), ~ Timer!Exceeds(seen[t], b),
         Left' \in Nat, Left = Left' + b.samples,
         logger' = "sum" => logger = "sum", tester' = "sum" => tester = "sum"
  PROVE  /\ st' \in Figures /\ TimerCount'
         /\ Threshold > 0 => st'.max <= Threshold
<1>1. b.samples \in Nat /\ b.max \in Int
  BY DEF Bulks, Figures
<1>2. seen[t] \in Figures /\ seen[t].samples \in Nat /\ seen[t].max \in Int
  BY DEF TimerTypes, Figures
<1>3. st'.samples + Left' <= Timer!Total(collected)
  <2>1. st.samples + Left <= Timer!Total(collected)
    BY DEF TimerCount
  <2>2. st'.samples = seen[t].samples + b.samples \/ st'.samples = st.samples + b.samples
    BY UpdateCounts
  <2> QED
    BY <1>1, <1>2, <2>1, <2>2, AmountsAreNatural
<1>4. ASSUME ~ overlap'
      PROVE  st'.samples + Left' = Timer!Total(collected)
  <2>1. ~ overlap /\ seen[t] = st
    BY <1>4, UpdateCounts
  <2>2. st'.samples = st.samples + b.samples
    BY <2>1, UpdateCounts
  <2>3. st.samples + Left = Timer!Total(collected)
    BY <2>1 DEF TimerCount
  <2> QED
    BY <1>1, <2>2, <2>3, AmountsAreNatural
<1>5. /\ logger' = "sum" => seen'["logger"].samples + Left' <= Timer!Total(collected)
      /\ tester' = "sum" => seen'["main"].samples + Left' <= Timer!Total(collected)
  <2>1. /\ logger' = "sum" => seen["logger"].samples + Left <= Timer!Total(collected)
        /\ tester' = "sum" => seen["main"].samples + Left <= Timer!Total(collected)
    BY DEF TimerCount
  <2> QED
    BY <1>1, <2>1, AmountsAreNatural
<1>6. TimerCount'
  BY <1>3, <1>4, <1>5 DEF TimerCount
<1>7. ASSUME Threshold > 0
      PROVE  st'.max <= Threshold
  <2>1. seen[t].max <= Threshold /\ st.max <= Threshold /\ st.max \in Int /\ Threshold \in Nat
    BY <1>7, Parameters, AmountsAreNatural DEF TimerExtremes
  <2>2. b.max <= Threshold
    BY <1>1, <1>2, <1>7, <2>1 DEF Timer!Exceeds
  <2>3. st'.max = Timer!Most(seen[t].max, b.max) \/ st'.max = Timer!Most(st.max, b.max)
    BY UpdateCounts
  <2> QED
    BY <2>1, <2>2, <2>3 DEF Timer!Most
<1> QED
  BY <1>6, <1>7, UpdateCounts

(* The logger takes a bulk from the cross-buffer to the statistics; it may *)
(* be cancelled on the way.                                                *)
LEMMA LoggerKeepsCount ==
  ASSUME TimerSound, ~ Timer!Over, Timer!Logger
  PROVE  TimerInv'
<1> USE DEF TimerSound, TimerInv, Timer!Over
<1>1. CASE Timer!LogRead
  <2>1. /\ logger = "read" /\ logger' = "page" /\ xbuf # <<>> /\ held' = Head(xbuf) /\ xbuf' = Tail(xbuf)
        /\ UNCHANGED <<tester, sitter, bulkNow, collected, last_bulk, st, seen, overlap>>
    BY <1>1 DEF Timer!LogRead
  <2>2. /\ Head(xbuf) \in Full /\ Tail(xbuf) \in Seq(Full)
        /\ Timer!Total(Row(xbuf)) = Timer!Total(Row(Tail(xbuf))) + Head(xbuf).samples
    BY <2>1, RowTaken DEF TimerTypes
  <2>3. TimerTypes' /\ TimerSteps'
    BY <2>1, <2>2 DEF TimerTypes, TimerSteps, Full
  <2>4. TimerExtremes'
    BY <2>1 DEF TimerExtremes
  <2>5. /\ Timer!InXbuf' = Timer!Total(Row(Tail(xbuf))) /\ Timer!InXbuf = Timer!Total(Row(xbuf))
        /\ Timer!InHand = 0 /\ Timer!InHand' = Head(xbuf).samples /\ InLast' = InLast
    BY <2>1 DEF Timer!InXbuf, Row, Timer!InHand, InLast
  <2>6. Timer!Total(Row(Tail(xbuf))) \in Nat /\ Head(xbuf).samples \in Nat
    BY <2>2, RowTotal DEF Full, Bulks, Figures
  <2> DEFINE rest == Timer!Total(Row(Tail(xbuf)))
             first == Head(xbuf).samples
  <2>7. /\ rest \in Nat /\ first \in Nat /\ Timer!InXbuf = rest + first
        /\ Timer!InXbuf' = rest /\ Timer!InHand' = first
    BY <2>2, <2>5, <2>6
  <2> HIDE DEF rest, first
  <2>9. Left' = Left
    <3>1. Left = bulkNow.samples + (rest + first) + 0 + InLast
      BY <2>5, <2>7 DEF Left
    <3>2. Left' = bulkNow.samples + rest + first + InLast
      BY <2>1, <2>5, <2>7 DEF Left
    <3>3. bulkNow.samples \in Nat /\ InLast \in Nat
      BY AmountsAreNatural
    <3> QED
      BY <2>7, <3>1, <3>2, <3>3
  <2>8. TimerCount'
    BY <2>1, <2>9 DEF TimerCount
  <2> QED
    BY <2>1, <2>3, <2>4, <2>8
<1>2. CASE Timer!LogBegin
  <2>1. /\ logger = "page" /\ logger' = "sum" /\ seen' = [seen EXCEPT !["logger"] = st]
        /\ UNCHANGED <<tester, sitter, bulkNow, collected, xbuf, held, last_bulk, st, overlap>>
    BY <1>2 DEF Timer!LogBegin
  <2>2. seen'["logger"] = st /\ seen'["main"] = seen["main"]
    BY <2>1 DEF TimerTypes
  <2>3. TimerTypes' /\ TimerSteps' /\ TimerExtremes'
    BY <2>1, <2>2 DEF TimerTypes, TimerSteps, TimerExtremes
  <2>4. Left' = Left
    BY <2>1 DEF Left, Timer!InXbuf, Timer!InHand, InLast
  <2>5. TimerCount'
    BY <2>1, <2>2, <2>4 DEF TimerCount
  <2> QED
    BY <2>1, <2>3, <2>5
<1>3. CASE Timer!LogEnd
  <2>1. CASE tester' = "abort"
    BY <2>1
  <2>2. CASE Timer!Update("logger", held) /\ logger' = "line" /\ UNCHANGED tester
    <3>1. /\ logger = "sum" /\ logger' = "line" /\ Timer!Update("logger", held) /\ held \in Full
          /\ ~ Timer!Exceeds(seen["logger"], held) /\ held \in Bulks
          /\ UNCHANGED <<tester, sitter, bulkNow, collected, xbuf, held, last_bulk, seen>>
      <4>1. tester # "abort" /\ logger = "sum" /\ held \in Full /\ held \in Bulks
        BY <1>3 DEF Timer!LogEnd, TimerSteps, TimerTypes
      <4>2. ~ Timer!Exceeds(seen["logger"], held)
        BY <1>3, <2>2, <4>1 DEF Timer!LogEnd
      <4> QED
        BY <1>3, <2>2, <4>1, <4>2 DEF Timer!LogEnd
    <3>2. Timer!InXbuf' = Timer!InXbuf /\ Timer!InHand = held.samples /\ Timer!InHand' = 0 /\ InLast' = InLast
      BY <3>1 DEF Timer!InXbuf, Timer!InHand, InLast
    <3>3. Left' \in Nat /\ Left = Left' + held.samples
      BY <3>1, <3>2, AmountsAreNatural DEF Left
    <3>4. seen["logger"].samples + Left <= Timer!Total(collected)
      BY <3>1 DEF TimerCount
    <3>5. st' \in Figures /\ TimerCount' /\ (Threshold > 0 => st'.max <= Threshold)
      BY <3>1, <3>3, <3>4, UpdateKeepsCount
    <3>6. TimerTypes' /\ TimerSteps'
      BY <3>1, <3>5 DEF TimerTypes, TimerSteps
    <3>7. held.max <= st'.max /\ st'.min <= held.min
      BY <3>1, UpdateCounts
    <3>8. TimerExtremes'
      BY <3>1, <3>5, <3>7 DEF TimerExtremes
    <3> QED
      BY <2>2, <3>5, <3>6, <3>8
  <2> QED
    BY <1>3, <2>1, <2>2 DEF Timer!LogEnd
<1>4. CASE Timer!LogLine
  <2>1. CASE tester' = "weird"
    <3>1. Timer!LooksWeird(held) /\ logger = "line" /\ overlap' = overlap /\ held \in Full
      BY <1>4, <2>1 DEF Timer!LogLine, TimerSteps
    <3>2. ASSUME ~ overlap
          PROVE  FALSE
      <4>1. held.max <= st.max /\ st.min <= held.min
        BY <3>1, <3>2 DEF TimerExtremes
      <4> DEFINE avg == Timer!Average(held)
      <4>2. avg \in Int /\ held.min <= avg /\ avg <= held.max /\ held.min <= held.max
        BY <3>1, Averages DEF Full, Bulks, Sane
      <4>3. \/ held.min > held.max \/ held.min > avg \/ avg > held.max
            \/ held.min > st.max \/ held.max > st.max \/ avg > st.max \/ st.min > st.max
        BY <3>1 DEF Timer!LooksWeird
      <4> HIDE DEF avg
      <4> QED
        BY <4>1, <4>2, <4>3, AmountsAreNatural
    <3> QED
      BY <2>1, <3>1, <3>2
  <2>2. CASE logger' = "read" /\ held' = Timer!EmptyBulk /\ UNCHANGED tester
    <3>1. /\ logger = "line" /\ UNCHANGED <<sitter, bulkNow, collected, xbuf, last_bulk, st, seen, overlap>>
      BY <1>4 DEF Timer!LogLine
    <3>2. TimerTypes' /\ TimerSteps' /\ TimerExtremes'
      BY <2>2, <3>1, NoBulk DEF TimerTypes, TimerSteps, TimerExtremes
    <3>3. TimerCount'
      BY <2>2, <3>1, FiguresKept DEF Timer!InHand, InLast
    <3> QED
      BY <2>2, <3>1, <3>2, <3>3
  <2> QED
    BY <1>4, <2>1, <2>2 DEF Timer!LogLine
<1>5. CASE Timer!LoggerDies
  <2>1. /\ logger \in {"read", "page", "line"} /\ logger' = "dead"
        /\ held' = IF logger = "line" THEN Timer!EmptyBulk ELSE held
        /\ UNCHANGED <<tester, sitter, bulkNow, collected, xbuf, last_bulk, st, seen, overlap>>
    BY <1>5 DEF Timer!LoggerDies
  <2>2. TimerTypes' /\ TimerSteps' /\ TimerExtremes'
    BY <2>1, NoBulk DEF TimerTypes, TimerSteps, TimerExtremes
  <2>3. Timer!InHand' = Timer!InHand
    BY <2>1, NoBulk DEF Timer!InHand, TimerSteps
  <2>4. TimerCount'
    BY <2>1, <2>3, FiguresKept DEF InLast
  <2> QED
    BY <2>1, <2>2, <2>4
<1> QED
  BY <1>1, <1>2, <1>3, <1>4, <1>5 DEF Timer!Logger

(* The main thread stops the others, then adds the last bulk.              *)
LEMMA MainKeepsCount ==
  ASSUME TimerSound, ~ Timer!Over, Timer!Main
  PROVE  TimerInv'
<1> USE DEF TimerSound, TimerInv, Timer!Over
<1>1. CASE Timer!Start \/ Timer!Signal \/ Timer!Stop \/ Timer!Report
  <2>1. UNCHANGED <<bulkNow, collected, xbuf, held, last_bulk, st, seen, overlap>>
    BY <1>1 DEF Timer!Start, Timer!Signal, Timer!Stop, Timer!Report
  <2>2. /\ {tester, tester'} \cap {"log", "sum", "abort", "weird"} = {}
        /\ logger' = logger \/ (logger = "none" /\ logger' = "read")
        /\ tester' = "start" => FALSE
    BY <1>1 DEF Timer!Start, Timer!Signal, Timer!Stop, Timer!Report, TimerSteps
  <2>3. TimerTypes' /\ TimerExtremes'
    BY <2>1, <2>2 DEF TimerTypes, TimerExtremes
  <2>4. TimerSteps'
    BY <1>1, <2>1 DEF Timer!Start, Timer!Signal, Timer!Stop, Timer!Report, TimerSteps
  <2>5. TimerCount'
    BY <2>1, <2>2, FiguresKept DEF Timer!InHand, InLast
  <2> QED
    BY <2>2, <2>3, <2>4, <2>5
<1>2. CASE Timer!LogLast
  <2>1. /\ tester = "log" /\ UNCHANGED <<sitter, logger, bulkNow, collected, xbuf, held, last_bulk, st, overlap>>
        /\ \/ tester' = "sum" /\ seen' = [seen EXCEPT !["main"] = st]
           \/ tester' = "report" /\ seen' = seen /\ ~ (last_bulk.samples > 0)
    BY <1>2 DEF Timer!LogLast
  <2>2. /\ seen'["logger"] = seen["logger"]
        /\ tester' = "sum" => seen'["main"] = st
        /\ seen'["main"] \in {seen["main"], st} /\ seen' \in [{"logger", "main"} -> Figures]
    BY <2>1 DEF TimerTypes
  <2>3. TimerTypes' /\ TimerSteps' /\ TimerExtremes'
    BY <2>1, <2>2 DEF TimerTypes, TimerSteps, TimerExtremes
  <2>4. InLast' = InLast
    BY <2>1, AmountsAreNatural DEF InLast
  <2>5. Left' = Left
    BY <2>1, <2>4 DEF Left, Timer!InXbuf, Timer!InHand
  <2>6. TimerCount'
    BY <2>1, <2>2, <2>5 DEF TimerCount
  <2> QED
    BY <2>1, <2>3, <2>6
<1>3. CASE Timer!LogLastEnd
  <2>1. CASE tester' = "abort"
    BY <2>1
  <2>2. CASE tester' = "report"
    <3>1. /\ tester = "sum" /\ Timer!Update("main", last_bulk)
          /\ ~ Timer!Exceeds(seen["main"], last_bulk) /\ last_bulk \in Bulks
          /\ UNCHANGED <<sitter, logger, bulkNow, collected, xbuf, held, last_bulk, seen>>
      BY <1>3, <2>2 DEF Timer!LogLastEnd, TimerTypes
    <3>2. /\ Timer!InXbuf' = Timer!InXbuf /\ Timer!InHand' = Timer!InHand
          /\ InLast = last_bulk.samples /\ InLast' = 0
      BY <2>2, <3>1 DEF Timer!InXbuf, Timer!InHand, InLast
    <3>3. Left' \in Nat /\ Left = Left' + last_bulk.samples
      BY <3>1, <3>2, AmountsAreNatural DEF Left
    <3>4. seen["main"].samples + Left <= Timer!Total(collected)
      BY <3>1 DEF TimerCount
    <3>5. st' \in Figures /\ TimerCount' /\ (Threshold > 0 => st'.max <= Threshold)
      BY <2>2, <3>1, <3>3, <3>4, UpdateKeepsCount
    <3>6. TimerTypes' /\ TimerSteps'
      BY <2>2, <3>1, <3>5 DEF TimerTypes, TimerSteps
    <3>7. TimerExtremes'
      <4>1. ASSUME ~ overlap', logger' = "line"
            PROVE  held.max <= st'.max /\ st'.min <= held.min
        <5>1. ~ overlap /\ seen["main"] = st
          BY <3>1, <4>1, UpdateCounts
        <5>2. st.max <= st'.max /\ st'.min <= st.min
          BY <3>1, <5>1, UpdateCounts
        <5>3. held.max <= st.max /\ st.min <= held.min
          BY <3>1, <4>1, <5>1 DEF TimerExtremes
        <5>4. st'.max \in Int /\ st'.min \in Int
          BY <3>5 DEF Figures
        <5> QED
          BY <5>2, <5>3, <5>4, AmountsAreNatural
      <4> QED
        BY <3>1, <3>5, <4>1 DEF TimerExtremes
    <3> QED
      BY <2>2, <3>5, <3>6, <3>7
  <2> QED
    BY <1>3, <2>1, <2>2 DEF Timer!LogLastEnd
<1> QED
  BY <1>1, <1>2, <1>3 DEF Timer!Main

-----------------------------------------------------------------------------
(* Least numbers *)

(* The least number of a set. *)
LEMMA Least ==
  ASSUME NEW S \in SUBSET Nat, NEW m \in S, \A k \in S : m <= k
  PROVE  Netctl!Min(S) = m /\ Options!Min(S) = m
<1>1. \A x \in S : (\A y \in S : x <= y) <=> x = m
  OBVIOUS
<1>2. Netctl!Min(S) = m
  BY <1>1 DEF Netctl!Min
<1>3. Options!Min(S) = m
  BY <1>1 DEF Options!Min
<1> QED BY <1>2, <1>3

(* A nonempty set of numbers has a least one. *)
LEMMA LeastIsThere ==
  ASSUME NEW S \in SUBSET Nat, S # {}
  PROVE  \E m \in S : \A k \in S : m <= k
<1> DEFINE R == OpToRel(<, Nat)
<1>1. IsWellFoundedOn(R, Nat)
  BY NatLessThanWellFounded
<1>2. \A x, y \in Nat : y < x => <<y, x>> \in R
  BY DEF OpToRel
<1> HIDE DEF R
<1>3. PICK n \in S : \A k \in S : <<k, n>> \notin R
  BY <1>1, WFMin
<1>4. ASSUME NEW k \in S
      PROVE  n <= k
  <2>1. n \in Nat /\ k \in Nat
    OBVIOUS
  <2>2. ~ k < n
    BY <2>1, <1>2, <1>3
  <2> QED
    BY <2>1, <2>2
<1> QED
  BY <1>4


-----------------------------------------------------------------------------
(* The lowest number of the first of some sets which is not empty, as in   *)
(* determine_responder_cpu().                                              *)
FirstOf(sets) == LET i == Options!Min({j \in DOMAIN sets : sets[j] # {}}) IN Options!Min(sets[i])

(* It is in that set, ... *)
LEMMA FirstOfIsIn ==
  ASSUME NEW sets \in Seq(SUBSET Nat), NEW i \in DOMAIN sets, sets[i] # {},
         \A j \in DOMAIN sets : j < i => sets[j] = {}
  PROVE  FirstOf(sets) \in sets[i]
<1> DEFINE some == {j \in DOMAIN sets : sets[j] # {}}
<1>1. some \in SUBSET Nat /\ i \in some /\ \A k \in some : i <= k
  OBVIOUS
<1>2. Options!Min(some) = i
  BY <1>1, Least
<1>3. sets[i] \in SUBSET Nat
  OBVIOUS
<1>4. PICK m \in sets[i] : \A k \in sets[i] : m <= k
  BY <1>3, LeastIsThere
<1>5. Options!Min(sets[i]) = m
  BY <1>3, <1>4, Least
<1> QED BY <1>2, <1>4, <1>5 DEF FirstOf

(* ... when there are two sets, ... *)
LEMMA FirstOfTwo ==
  ASSUME NEW A \in SUBSET Nat, NEW B \in SUBSET Nat, B # {}
  PROVE  /\ A # {} => FirstOf(<<A, B>>) \in A
         /\ A = {} => FirstOf(<<A, B>>) \in B
<1> DEFINE s == <<A, B>>
<1>1. s \in Seq(SUBSET Nat) /\ DOMAIN s = 1..2 /\ s[1] = A /\ s[2] = B
  OBVIOUS
<1> HIDE DEF s
<1>2. A # {} => FirstOf(s) \in s[1]
  BY <1>1, FirstOfIsIn
<1>3. A = {} => FirstOf(s) \in s[2]
  BY <1>1, FirstOfIsIn
<1> QED BY <1>1, <1>2, <1>3 DEF s

(* ... three ... *)
LEMMA FirstOfThree ==
  ASSUME NEW A \in SUBSET Nat, NEW B \in SUBSET Nat, NEW C \in SUBSET Nat, C # {}
  PROVE  /\ A # {} => FirstOf(<<A, B, C>>) \in A
         /\ A = {} /\ B # {} => FirstOf(<<A, B, C>>) \in B
         /\ A = {} /\ B = {} => FirstOf(<<A, B, C>>) \in C
<1> DEFINE s == <<A, B, C>>
<1>1. s \in Seq(SUBSET Nat) /\ DOMAIN s = 1..3 /\ s[1] = A /\ s[2] = B /\ s[3] = C
  OBVIOUS
<1> HIDE DEF s
<1>2. A # {} => FirstOf(s) \in s[1]
  BY <1>1, FirstOfIsIn
<1>3. A = {} /\ B # {} => FirstOf(s) \in s[2]
  BY <1>1, FirstOfIsIn
<1>4. A = {} /\ B = {} => FirstOf(s) \in s[3]
  BY <1>1, FirstOfIsIn
<1> QED BY <1>1, <1>2, <1>3, <1>4 DEF s

(* ... or four. *)
LEMMA FirstOfFour ==
  ASSUME NEW A \in SUBSET Nat, NEW B \in SUBSET Nat, NEW C \in SUBSET Nat, NEW D \in SUBSET Nat
  PROVE  /\ A # {} => FirstOf(<<A, B, C, D>>) \in A
         /\ A = {} /\ B # {} => FirstOf(<<A, B, C, D>>) \in B
<1> DEFINE s == <<A, B, C, D>>
<1>1. s \in Seq(SUBSET Nat) /\ DOMAIN s = 1..4 /\ s[1] = A /\ s[2] = B
  OBVIOUS
<1> HIDE DEF s
<1>2. A # {} => FirstOf(s) \in s[1]
  BY <1>1, FirstOfIsIn
<1>3. A = {} /\ B # {} => FirstOf(s) \in s[2]
  BY <1>1, FirstOfIsIn
<1> QED BY <1>1, <1>2, <1>3 DEF s

(* The files list numbers. *)
LEMMA CpusAreNumbers ==
  ASSUME NEW l \in CpuLists PROVE Options!CpusOf(l) \in SUBSET Nat
<1>1. \A i \in DOMAIN l : l[i] \in Cpus \X (Cpus \cup {-1})
  BY ToolsAssumption DEF Options!LatmusOptionsConstants
<1>2. Cpus \subseteq Nat
  BY ToolsAssumption DEF Options!LatmusOptionsConstants
<1>3. ASSUME NEW i \in DOMAIN l PROVE l[i][1] \in Nat /\ l[i][2] \in Int
  <2>1. l[i] \in Cpus \X (Cpus \cup {-1})
    BY <1>1
  <2>2. l[i][1] \in Cpus /\ (l[i][2] \in Cpus \/ l[i][2] = -1)
    BY <2>1
  <2>3. l[i][1] \in Nat /\ (l[i][2] \in Nat \/ l[i][2] = -1)
    BY <1>2, <2>2
  <2> QED BY <2>3
<1> QED BY <1>3 DEF Options!CpusOf

(* The options, ... *)
Askable == Options!TimerTests \cup Options!GpioTests \cup {"net"}
OptsType ==
    opts \in [asked : SUBSET Askable, netlat : {0, 1, 2}, noCheck : BOOLEAN, netif : BOOLEAN, tuning : BOOLEAN,
              timeout : BOOLEAN, verbosity : {0, 1}, plotFile : BOOLEAN, plotOut : BOOLEAN,
              cells : {0, 1}, priority : {-1, 5}, cpu : Cpus \cup {-1}, background : BOOLEAN,
              reset : BOOLEAN]

(* ... what test_netlat says of the tests which were asked for, ... *)
NetlatFollows ==
    /\ opts.netlat # 0 <=> opts.asked \cap {"inband-gpio", "oob-gpio", "net"} # {}
    /\ opts.netlat = 1 => opts.asked \cap {"inband-gpio", "net"} # {}
    /\ opts.netlat = 2 => "oob-gpio" \in opts.asked

(* ... and what main() does with them. *)
OptionsInv == OptsType /\ NetlatFollows /\ Options!PlanFollowsOptions /\ Options!CpuFitsTest

(* Each option has its kind of value, ... *)
LEMMA ReadType ==
  ASSUME OptsType, NetlatFollows, NEW o \in Options!OptionTable, opts' \in Options!Read(o)
  PROVE  OptsType' /\ NetlatFollows'
<1>1. opts.asked \in SUBSET Askable
  BY DEF OptsType
<1> DEFINE others == {"no-check", "local-ip", "measure", "tune", "reset", "quiet", "verbose",
         "background", "timeout", "plot", "histogram", "priority", "cpu", "force-cpu"}
<1>2. CASE o \in Options!TimerTests
  <2>0. o \notin {"inband-gpio", "oob-gpio", "net"} \cup others
    BY <1>2 DEF Options!TimerTests
  <2>1. opts' = [opts EXCEPT !.asked = @ \cup {o}]
    BY <1>2, <2>0 DEF Options!Read
  <2>2. opts.asked \cup {o} \in SUBSET Askable
    BY <1>1, <1>2 DEF Askable
  <2>3. o \notin {"inband-gpio", "oob-gpio", "net"}
    BY <1>2 DEF Options!TimerTests
  <2>4. OptsType' /\ opts'.asked = opts.asked \cup {o} /\ opts'.netlat = opts.netlat
    BY <2>1, <2>2 DEF OptsType
  <2> QED BY <2>3, <2>4 DEF NetlatFollows
<1>3. CASE o \in {"inband-gpio", "oob-gpio", "net"}
  <2>0. o \notin Options!TimerTests
    BY <1>3 DEF Options!TimerTests
  <2> DEFINE mode == IF o = "oob-gpio" THEN 2 ELSE 1
  <2>1. opts' = [opts EXCEPT !.asked = @ \cup {o}, !.netlat = mode]
    <3>1. CASE o = "oob-gpio"
      BY <2>0, <3>1 DEF Options!Read, Options!OobMode
    <3>2. CASE o \in {"inband-gpio", "net"}
      BY <2>0, <3>2 DEF Options!Read, Options!InbandMode
    <3> QED BY <1>3, <3>1, <3>2
  <2>2. opts.asked \cup {o} \in SUBSET Askable /\ mode \in {1, 2}
    BY <1>1, <1>3 DEF Askable, Options!GpioTests
  <2>3. OptsType' /\ opts'.asked = opts.asked \cup {o} /\ opts'.netlat = mode
    BY <2>1, <2>2 DEF OptsType
  <2> QED BY <1>3, <2>3 DEF NetlatFollows
<1>4. CASE o \in others
  <2> SUFFICES OptsType' /\ opts'.asked = opts.asked /\ opts'.netlat = opts.netlat
    BY DEF NetlatFollows
  <2>0. o \notin Options!TimerTests
    BY <1>4 DEF Options!TimerTests
  <2>1. CASE o = "no-check"
    BY <2>0, <2>1 DEF Options!Read, OptsType
  <2>2. CASE o = "local-ip"
    BY <2>0, <2>2 DEF Options!Read, OptsType
  <2>3. CASE o \in {"measure", "tune"}
    BY <2>0, <2>3 DEF Options!Read, OptsType
  <2>4. CASE o = "reset"
    BY <2>0, <2>4 DEF Options!Read, OptsType
  <2>5. CASE o = "quiet"
    BY <2>0, <2>5 DEF Options!Read, OptsType
  <2>6. CASE o = "verbose"
    BY <2>0, <2>6 DEF Options!Read, OptsType
  <2>7. CASE o = "background"
    BY <2>0, <2>7 DEF Options!Read, OptsType
  <2>8. CASE o = "timeout"
    BY <2>0, <2>8 DEF Options!Read, OptsType
  <2>9. CASE o = "histogram"
    BY <2>0, <2>9 DEF Options!Read, OptsType
  <2>10. CASE o = "priority"
    BY <2>0, <2>10 DEF Options!Read, OptsType
  <2>11. CASE o \in {"cpu", "force-cpu"}
    BY <2>0, <2>11 DEF Options!Read, OptsType
  <2>12. CASE o = "plot"
    <3>1. opts' = [opts EXCEPT !.plotFile = TRUE] \/ opts' = [opts EXCEPT !.plotOut = TRUE]
      BY <2>0, <2>12 DEF Options!Read
    <3>2. CASE opts' = [opts EXCEPT !.plotFile = TRUE]
      BY <3>2 DEF OptsType
    <3>3. CASE opts' = [opts EXCEPT !.plotOut = TRUE]
      BY <3>3 DEF OptsType
    <3> QED BY <3>1, <3>2, <3>3
  <2> QED BY <1>4, <2>1, <2>2, <2>3, <2>4, <2>5, <2>6, <2>7, <2>8, <2>9, <2>10, <2>11, <2>12
<1> QED BY <1>2, <1>3, <1>4 DEF Options!OptionTable, Options!GpioTests

(* determine_responder_cpu() gives a CPU which suits. *)
LEMMA ResponderSuits ==
  ASSUME opts.cpu \in Cpus \cup {-1}, NEW here \in Cpus, NEW isolated \in SUBSET Nat, NEW oob \in SUBSET Nat,
         NEW cpu, cpu = Options!ResponderCpu(opts.netlat = Options!InbandMode, isolated, oob, here)
  PROVE  LET inband == opts.netlat = Options!InbandMode
             best == IF inband THEN isolated ELSE isolated \cap oob
         IN /\ ~ inband /\ oob # {} => cpu \in oob
            /\ opts.cpu < 0 /\ best # {} => cpu \in best
            /\ opts.cpu >= 0 /\ (inband \/ opts.cpu \in oob \/ oob \cup isolated = {}) => cpu = opts.cpu
<1> DEFINE default == IF opts.cpu >= 0 THEN opts.cpu ELSE here
           inband == opts.netlat = Options!InbandMode
<1>1. cpu = IF opts.cpu >= 0 /\ (inband \/ opts.cpu \in oob) THEN opts.cpu
            ELSE IF opts.cpu >= 0 THEN FirstOf(<<oob, isolated, {default}>>)
            ELSE IF inband THEN FirstOf(<<isolated, {default}>>)
            ELSE FirstOf(<<isolated \cap oob, oob, isolated, {default}>>)
  BY DEF Options!ResponderCpu, FirstOf
<1>2. Cpus \subseteq Nat
  BY ToolsAssumption DEF Options!LatmusOptionsConstants
<1>3. default \in Nat /\ opts.cpu \in Int
  <2>1. opts.cpu = -1 \/ opts.cpu \in Nat
    BY <1>2
  <2> QED BY <1>2, <2>1
<1>4. opts.cpu >= 0 => default = opts.cpu
  OBVIOUS
<1> HIDE DEF default
<1>5. /\ oob # {} => FirstOf(<<oob, isolated, {default}>>) \in oob
      /\ oob = {} /\ isolated = {} => FirstOf(<<oob, isolated, {default}>>) = default
  BY <1>3, FirstOfThree
<1>6. isolated # {} => FirstOf(<<isolated, {default}>>) \in isolated
  BY <1>3, FirstOfTwo
<1>7. /\ isolated \cap oob # {} => FirstOf(<<isolated \cap oob, oob, isolated, {default}>>) \in isolated \cap oob
      /\ oob # {} => FirstOf(<<isolated \cap oob, oob, isolated, {default}>>) \in oob
  <2>1. isolated \cap oob \in SUBSET Nat /\ {default} \in SUBSET Nat
    BY <1>3
  <2> QED BY <2>1, FirstOfFour
<1>8. CASE opts.cpu >= 0
  BY <1>1, <1>3, <1>4, <1>5, <1>8
<1>9. CASE ~ (opts.cpu >= 0)
  BY <1>1, <1>3, <1>6, <1>7, <1>9
<1> QED BY <1>8, <1>9

(* The tests which latmus may be asked to run. *)
TestNames == {"irq", "kernel", "sirq", "user", "net"}

(* The members and the length of sequences in a row. *)
LEMMA InARow ==
  ASSUME NEW s \in Seq(TestNames), NEW t \in Seq(TestNames)
  PROVE  /\ s \o t \in Seq(TestNames) /\ Len(s \o t) = Len(s) + Len(t)
         /\ Options!ToSet(s \o t) = Options!ToSet(s) \cup Options!ToSet(t)
<1>1. s \o t \in Seq(TestNames) /\ Len(s \o t) = Len(s) + Len(t)
  OBVIOUS
<1>2. \A i \in 1..Len(s \o t) : (s \o t)[i] = IF i <= Len(s) THEN s[i] ELSE t[i - Len(s)]
  OBVIOUS
<1>3. Options!ToSet(s \o t) = {(s \o t)[i] : i \in 1..Len(s \o t)}
      /\ Options!ToSet(s) = {s[i] : i \in 1..Len(s)} /\ Options!ToSet(t) = {t[i] : i \in 1..Len(t)}
  <2>1. \A q \in Seq(TestNames) : DOMAIN q = 1..Len(q)
    OBVIOUS
  <2> QED BY <1>1, <2>1 DEF Options!ToSet
<1>4. \A x \in Options!ToSet(s) : x \in Options!ToSet(s \o t)
  <2>1. \A i \in 1..Len(s) : s[i] = (s \o t)[i] /\ i \in 1..Len(s \o t)
    BY <1>1, <1>2
  <2> QED BY <1>3, <2>1
<1>5. \A i \in 1..Len(t) : t[i] = (s \o t)[i + Len(s)] /\ i + Len(s) \in 1..Len(s \o t)
  BY <1>1, <1>2
<1>6. \A x \in Options!ToSet(t) : x \in Options!ToSet(s \o t)
  BY <1>3, <1>5
<1>7. \A x \in Options!ToSet(s \o t) : x \in Options!ToSet(s) \cup Options!ToSet(t)
  <2>1. ASSUME NEW i \in 1..Len(s \o t)
        PROVE  \/ i \in 1..Len(s) /\ (s \o t)[i] = s[i]
               \/ i - Len(s) \in 1..Len(t) /\ (s \o t)[i] = t[i - Len(s)]
    <3>1. (s \o t)[i] = IF i <= Len(s) THEN s[i] ELSE t[i - Len(s)]
      BY <1>2
    <3>2. i \in 1..Len(s) \/ i - Len(s) \in 1..Len(t)
      BY <1>1
    <3> QED BY <1>1, <3>1, <3>2
  <2> QED BY <1>3, <2>1
<1> QED BY <1>1, <1>4, <1>6, <1>7

(* Three, and five. *)
LEMMA FiveInARow ==
  ASSUME NEW a \in Seq(TestNames), NEW b \in Seq(TestNames), NEW c \in Seq(TestNames), NEW d \in Seq(TestNames),
         NEW e \in Seq(TestNames)
  PROVE  /\ Options!ToSet(a \o b \o c) = Options!ToSet(a) \cup Options!ToSet(b) \cup Options!ToSet(c)
         /\ Options!ToSet(a \o b \o c \o d \o e) =
              Options!ToSet(a) \cup Options!ToSet(b) \cup Options!ToSet(c) \cup Options!ToSet(d) \cup Options!ToSet(e)
         /\ Len(a \o b \o c \o d \o e) = Len(a) + Len(b) + Len(c) + Len(d) + Len(e)
<1> DEFINE ab == a \o b
           abc == ab \o c
           abcd == abc \o d
           abcde == abcd \o e
<1>1. /\ ab \in Seq(TestNames) /\ Len(ab) = Len(a) + Len(b)
      /\ Options!ToSet(ab) = Options!ToSet(a) \cup Options!ToSet(b)
  BY InARow
<1> HIDE DEF ab
<1>2. /\ abc \in Seq(TestNames) /\ Len(abc) = Len(ab) + Len(c)
      /\ Options!ToSet(abc) = Options!ToSet(ab) \cup Options!ToSet(c)
  BY <1>1, InARow
<1> HIDE DEF abc
<1>3. /\ abcd \in Seq(TestNames) /\ Len(abcd) = Len(abc) + Len(d)
      /\ Options!ToSet(abcd) = Options!ToSet(abc) \cup Options!ToSet(d)
  BY <1>2, InARow
<1> HIDE DEF abcd
<1>4. /\ Len(abcde) = Len(abcd) + Len(e)
      /\ Options!ToSet(abcde) = Options!ToSet(abcd) \cup Options!ToSet(e)
  BY <1>3, InARow
<1> HIDE DEF abcde
<1>5. Options!ToSet(abc) = Options!ToSet(a) \cup Options!ToSet(b) \cup Options!ToSet(c)
  BY <1>1, <1>2
<1>6. Options!ToSet(abcde) =
        Options!ToSet(a) \cup Options!ToSet(b) \cup Options!ToSet(c) \cup Options!ToSet(d) \cup Options!ToSet(e)
  BY <1>3, <1>4, <1>5
<1>7. Len(abcde) = Len(a) + Len(b) + Len(c) + Len(d) + Len(e)
  BY <1>1, <1>2, <1>3, <1>4
<1>8. abc = a \o b \o c /\ abcde = a \o b \o c \o d \o e
  BY DEF ab, abc, abcd, abcde
<1> QED BY <1>5, <1>6, <1>7, <1>8

(* The tests in the order in which they run. *)
LEMMA OrderIs ==
  ASSUME NEW T,
         T \subseteq IF opts.tuning THEN {"irq", "kernel", "user"} ELSE {"irq", "kernel", "sirq", "user", "net"}
  PROVE  /\ Options!ToSet(Options!Order(T)) = T
         /\ \A t : ~ opts.tuning /\ T = {t} => Len(Options!Order(T)) = 1
         /\ T # {} => Options!Order(T) # <<>>
<1> DEFINE When(t) == IF t \in T THEN <<t>> ELSE <<>>
           tuned == When("irq") \o When("kernel") \o When("user")
           measured == When("irq") \o When("kernel") \o When("sirq") \o When("user") \o When("net")
<1>1. Options!Order(T) = IF opts.tuning THEN tuned ELSE measured
  BY DEF Options!Order
<1>2. ASSUME NEW t \in TestNames
      PROVE  /\ When(t) \in Seq(TestNames)
             /\ Len(When(t)) = IF t \in T THEN 1 ELSE 0
             /\ Options!ToSet(When(t)) = {t} \cap T
  <2>1. Options!ToSet(<<t>>) = {t} /\ Options!ToSet(<<>>) = {}
    BY DEF Options!ToSet
  <2>2. CASE t \in T
    BY <2>1, <2>2
  <2>3. CASE t \notin T
    BY <2>1, <2>3
  <2> QED BY <2>2, <2>3
<1> HIDE DEF When
<1>0. "irq" \in TestNames /\ "kernel" \in TestNames /\ "sirq" \in TestNames /\ "user" \in TestNames /\ "net" \in TestNames
  BY DEF TestNames
<1>3. /\ When("irq") \in Seq(TestNames) /\ Options!ToSet(When("irq")) = {"irq"} \cap T
      /\ When("kernel") \in Seq(TestNames) /\ Options!ToSet(When("kernel")) = {"kernel"} \cap T
      /\ When("sirq") \in Seq(TestNames) /\ Options!ToSet(When("sirq")) = {"sirq"} \cap T
      /\ When("user") \in Seq(TestNames) /\ Options!ToSet(When("user")) = {"user"} \cap T
      /\ When("net") \in Seq(TestNames) /\ Options!ToSet(When("net")) = {"net"} \cap T
  BY <1>0, <1>2
<1>4. /\ Options!ToSet(tuned) = Options!ToSet(When("irq")) \cup Options!ToSet(When("kernel"))
                                  \cup Options!ToSet(When("user"))
      /\ Options!ToSet(measured) =
            Options!ToSet(When("irq")) \cup Options!ToSet(When("kernel")) \cup Options!ToSet(When("sirq"))
              \cup Options!ToSet(When("user")) \cup Options!ToSet(When("net"))
      /\ Len(measured) = Len(When("irq")) + Len(When("kernel")) + Len(When("sirq")) + Len(When("user"))
                           + Len(When("net"))
  BY <1>3, FiveInARow
<1> HIDE DEF tuned, measured
<1>5. ASSUME ~ opts.tuning, NEW t, T = {t} PROVE Len(measured) = 1
  <2>0. Len(measured) = Len(When("irq")) + Len(When("kernel")) + Len(When("sirq")) + Len(When("user"))
                          + Len(When("net"))
    BY <1>4
  <2>1. t \in TestNames
    BY <1>5 DEF TestNames
  <2>2. CASE t = "irq"
    <3>1. Len(When("irq")) = 1 /\ Len(When("kernel")) = 0 /\ Len(When("sirq")) = 0 /\ Len(When("user")) = 0 /\ Len(When("net")) = 0
      BY <1>0, <1>2, <1>5, <2>2
    <3>2. Len(measured) = 1 + 0 + 0 + 0 + 0
      BY <2>0, <3>1, Zenon
    <3> QED BY <3>2
  <2>3. CASE t = "kernel"
    <3>1. Len(When("irq")) = 0 /\ Len(When("kernel")) = 1 /\ Len(When("sirq")) = 0 /\ Len(When("user")) = 0 /\ Len(When("net")) = 0
      BY <1>0, <1>2, <1>5, <2>3
    <3>2. Len(measured) = 0 + 1 + 0 + 0 + 0
      BY <2>0, <3>1, Zenon
    <3> QED BY <3>2
  <2>4. CASE t = "sirq"
    <3>1. Len(When("irq")) = 0 /\ Len(When("kernel")) = 0 /\ Len(When("sirq")) = 1 /\ Len(When("user")) = 0 /\ Len(When("net")) = 0
      BY <1>0, <1>2, <1>5, <2>4
    <3>2. Len(measured) = 0 + 0 + 1 + 0 + 0
      BY <2>0, <3>1, Zenon
    <3> QED BY <3>2
  <2>5. CASE t = "user"
    <3>1. Len(When("irq")) = 0 /\ Len(When("kernel")) = 0 /\ Len(When("sirq")) = 0 /\ Len(When("user")) = 1 /\ Len(When("net")) = 0
      BY <1>0, <1>2, <1>5, <2>5
    <3>2. Len(measured) = 0 + 0 + 0 + 1 + 0
      BY <2>0, <3>1, Zenon
    <3> QED BY <3>2
  <2>6. CASE t = "net"
    <3>1. Len(When("irq")) = 0 /\ Len(When("kernel")) = 0 /\ Len(When("sirq")) = 0 /\ Len(When("user")) = 0 /\ Len(When("net")) = 1
      BY <1>0, <1>2, <1>5, <2>6
    <3>2. Len(measured) = 0 + 0 + 0 + 0 + 1
      BY <2>0, <3>1, Zenon
    <3> QED BY <3>2
  <2> QED BY <2>1, <2>2, <2>3, <2>4, <2>5, <2>6 DEF TestNames
<1>6. Options!ToSet(Options!Order(T)) = T
  <2>1. CASE opts.tuning
    BY <1>1, <1>3, <1>4, <2>1
  <2>2. CASE ~ opts.tuning
    BY <1>1, <1>3, <1>4, <2>2
  <2> QED BY <2>1, <2>2
<1>7. Options!ToSet(<<>>) = {}
  BY DEF Options!ToSet
<1>8. \A t : ~ opts.tuning /\ T = {t} => Len(Options!Order(T)) = 1
  BY <1>1, <1>5
<1> QED BY <1>6, <1>7, <1>8

(* A set of one member at most. *)
LEMMA OneAtMost ==
  ASSUME NEW T, T # {}, IsFiniteSet(T), ~ Options!Cardinality(T) > 1
  PROVE  \E t : T = {t}
<1>1. Options!Cardinality(T) = Cardinality(T)
  BY DEF Options!Cardinality, Cardinality
<1>2. PICK t \in T : TRUE
  OBVIOUS
<1>3. /\ IsFiniteSet(T \ {t}) /\ Cardinality(T \ {t}) = Cardinality(T) - 1
      /\ Cardinality(T) \in Nat
  BY <1>2, FS_RemoveElement, FS_CardinalityType
<1>4. Cardinality(T \ {t}) \in Nat
  BY <1>3, FS_CardinalityType
<1>5. Cardinality(T \ {t}) = 0
  BY <1>1, <1>3, <1>4
<1> QED BY <1>2, <1>3, <1>5, FS_EmptySet

(* Five members make a finite set. *)
LEMMA FiveAreFinite ==
  ASSUME NEW a, NEW b, NEW c, NEW d, NEW e PROVE IsFiniteSet({a, b, c, d, e})
<1>1. IsFiniteSet({a}) /\ IsFiniteSet({b}) /\ IsFiniteSet({c}) /\ IsFiniteSet({d}) /\ IsFiniteSet({e})
  BY FS_Singleton
<1>2. IsFiniteSet({a} \cup {b})
  BY <1>1, FS_Union
<1>3. IsFiniteSet({a} \cup {b} \cup {c})
  BY <1>1, <1>2, FS_Union
<1>4. IsFiniteSet({a} \cup {b} \cup {c} \cup {d})
  BY <1>1, <1>3, FS_Union
<1>5. IsFiniteSet({a} \cup {b} \cup {c} \cup {d} \cup {e})
  BY <1>1, <1>4, FS_Union
<1>6. {a, b, c, d, e} = {a} \cup {b} \cup {c} \cup {d} \cup {e}
  OBVIOUS
<1> QED BY <1>5, <1>6

(* A run does what its options say. *)
LEMMA RunFollows ==
  ASSUME OptionsInv, Options!Run
  PROVE  OptionsInv'
<1>1. opts' = opts
  BY DEF Options!Run
<1>2. PICK isolatedList \in CpuLists, oobList \in CpuLists, here \in Cpus, exists \in BOOLEAN, device \in BOOLEAN :
        LET isolated == Options!CpusOf(isolatedList)
            oob == Options!CpusOf(oobList)
            cpu == Options!ResponderCpu(opts.netlat = Options!InbandMode, isolated, oob, here)
        IN plan' =
            IF Options!Fails(exists, device) THEN [status |-> "failed"]
            ELSE [status |-> "runs", tests |-> Options!Order(Options!Tests), verbosity |-> Options!Verbosity,
                  plotting |-> Options!Plotting,
                  cells |-> IF Options!Plotting /\ opts.cells = 0 THEN Options!DefaultCells ELSE opts.cells,
                  priority |-> IF opts.priority < 0 /\ (opts.tuning \/ Options!Tests \cap {"irq", "sirq"} = {})
                               THEN IF opts.netlat # 0 THEN 10 ELSE 98 ELSE opts.priority,
                  reset |-> opts.reset /\ opts.netlat = 0, checkSequence |-> opts.noCheck,
                  cpu |-> cpu, isolated |-> isolated, oob |-> oob]
  BY DEF Options!Run
<1> DEFINE isolated == Options!CpusOf(isolatedList)
           oob == Options!CpusOf(oobList)
           cpu == Options!ResponderCpu(opts.netlat = Options!InbandMode, isolated, oob, here)
<1>3. isolated \in SUBSET Nat /\ oob \in SUBSET Nat
  BY CpusAreNumbers
<1>4. CASE Options!Fails(exists, device)
  <2>1. plan'.status = "failed"
    BY <1>2, <1>4
  <2> QED BY <1>1, <2>1 DEF OptionsInv, OptsType, NetlatFollows, Options!PlanFollowsOptions, Options!CpuFitsTest
<1>5. CASE ~ Options!Fails(exists, device)
  <2>1. /\ plan'.status = "runs" /\ plan'.tests = Options!Order(Options!Tests)
        /\ plan'.verbosity = Options!Verbosity /\ plan'.plotting = Options!Plotting
        /\ plan'.cells = IF Options!Plotting /\ opts.cells = 0 THEN Options!DefaultCells ELSE opts.cells
        /\ plan'.priority = IF opts.priority < 0 /\ (opts.tuning \/ Options!Tests \cap {"irq", "sirq"} = {})
                            THEN IF opts.netlat # 0 THEN 10 ELSE 98 ELSE opts.priority
        /\ plan'.cpu = cpu /\ plan'.isolated = isolated /\ plan'.oob = oob
    BY <1>2, <1>5
  <2> HIDE DEF isolated, oob
  <2>2. Options!CpuFitsTest'
    <3>1. opts.cpu \in Cpus \cup {-1}
      BY DEF OptionsInv, OptsType
    <3> HIDE DEF cpu
    <3>2. cpu = Options!ResponderCpu(opts.netlat = Options!InbandMode, isolated, oob, here)
      BY DEF cpu
    <3>3. LET inband == opts.netlat = Options!InbandMode
              best == IF inband THEN isolated ELSE isolated \cap oob
          IN /\ ~ inband /\ oob # {} => cpu \in oob
             /\ opts.cpu < 0 /\ best # {} => cpu \in best
             /\ opts.cpu >= 0 /\ (inband \/ opts.cpu \in oob \/ oob \cup isolated = {}) => cpu = opts.cpu
      BY <3>1, <3>2, <1>3, ResponderSuits
    <3> DEFINE placedInband == opts.asked \cap {"inband-gpio", "net"} # {} /\ "oob-gpio" \notin opts.asked
               placedOob == opts.asked \cap {"inband-gpio", "net"} = {}
               inband == opts.netlat = 1
    <3>4. /\ NetlatFollows /\ opts.netlat \in {0, 1, 2}
      BY DEF OptionsInv, OptsType
    <3>5. (placedInband => inband) /\ (placedOob => ~ inband)
      BY <3>4 DEF NetlatFollows
    <3> HIDE DEF placedInband, placedOob, inband
    <3>6. /\ placedOob /\ oob # {} =>
                /\ cpu \in oob
                /\ opts.cpu < 0 /\ isolated \cap oob # {} => cpu \in isolated
          /\ placedInband /\ opts.cpu < 0 /\ isolated # {} => cpu \in isolated
          /\ opts.cpu >= 0 /\ (placedInband \/ opts.cpu \in oob \/ oob \cup isolated = {}) => cpu = opts.cpu
      BY <3>3, <3>5 DEF Options!InbandMode, inband
    <3> QED BY <1>1, <2>1, <3>6 DEF Options!CpuFitsTest, placedInband, placedOob
  <2>3. /\ opts.asked \in SUBSET Askable /\ opts.netlat \in {0, 1, 2} /\ opts.tuning \in BOOLEAN
        /\ opts.timeout \in BOOLEAN /\ opts.verbosity \in {0, 1} /\ opts.background \in BOOLEAN
        /\ opts.cells \in {0, 1} /\ opts.priority \in {-1, 5}
        /\ opts.plotFile \in BOOLEAN /\ opts.plotOut \in BOOLEAN
    BY DEF OptionsInv, OptsType
  <2> DEFINE T == Options!Tests
  <2>4. /\ T # {} /\ T \subseteq {"irq", "kernel", "sirq", "user", "net"}
        /\ Options!Flagged # {} => T = Options!Flagged
        /\ Options!Flagged = {} => T = IF opts.tuning THEN {"irq", "kernel", "user"} ELSE {"user"}
    BY <2>3 DEF Options!Tests, Options!Flagged, Options!TimerTests
  <2>5. IF opts.tuning THEN T \subseteq {"irq", "kernel", "user"} ELSE \E t : T = {t}
    <3>1. IF opts.tuning THEN T \subseteq {"irq", "kernel", "user"} ELSE ~ Options!Cardinality(T) > 1
      BY <1>5 DEF Options!Fails
    <3>2. IsFiniteSet({"irq", "kernel", "sirq", "user", "net"})
      BY FiveAreFinite
    <3>3. IsFiniteSet(T)
      BY <2>4, <3>2, FS_Subset
    <3> HIDE DEF T
    <3> QED BY <2>4, <3>1, <3>3, OneAtMost
  <2> HIDE DEF T
  <2>6. /\ Options!ToSet(Options!Order(T)) = T /\ Options!Order(T) # <<>>
        /\ ~ opts.tuning => Len(Options!Order(T)) = 1
    BY <2>4, <2>5, OrderIs
  <2>7. plan'.tests = Options!Order(T)
    BY <2>1 DEF T
  <2>8. plan'.plotting => plan'.cells > 0
    BY <2>1, <2>3 DEF Options!DefaultCells
  <2>9. /\ ~ opts.tuning /\ plan'.verbosity = 0 => opts.timeout \/ opts.background
        /\ opts.background => plan'.verbosity = 0
    BY <2>1, <2>3 DEF Options!Verbosity
  <2>10. T \cap {"user", "net"} # {} => plan'.priority >= 0
    <3>1. CASE opts.tuning
      BY <2>1, <2>3, <3>1
    <3>2. CASE ~ opts.tuning
      <4>1. T \cap {"user", "net"} # {} => T \cap {"irq", "sirq"} = {}
        BY <2>5, <3>2
      <4> QED BY <2>1, <2>3, <4>1 DEF T
    <3> QED BY <3>1, <3>2, <2>3
  <2>11. opts.tuning => T \subseteq Options!TimerTests \ {"sirq"} /\ ~ plan'.plotting
    BY <2>1, <2>5 DEF Options!TimerTests, Options!Plotting
  <2>12. /\ opts.asked \cap {"inband-gpio", "oob-gpio"} = {} => Options!Flagged = opts.asked
         /\ opts.asked \cap {"inband-gpio", "oob-gpio"} # {} => "net" \in Options!Flagged
         /\ "net" \notin Options!Flagged => Options!Flagged = opts.asked
    <3>1. NetlatFollows
      BY DEF OptionsInv
    <3> QED BY <2>3, <3>1 DEF NetlatFollows, Options!Flagged, Askable, Options!TimerTests, Options!GpioTests
  <2> DEFINE Named(default) == IF opts.asked = {} THEN default ELSE opts.asked
  <2>13. opts.tuning => T = Named({"irq", "kernel", "user"}) /\ "sirq" \notin T
    <3> SUFFICES ASSUME opts.tuning PROVE T = Named({"irq", "kernel", "user"}) /\ "sirq" \notin T
      OBVIOUS
    <3>1. T \subseteq {"irq", "kernel", "user"}
      BY <2>5
    <3>2. "net" \notin Options!Flagged /\ "sirq" \notin T
      BY <2>4, <3>1
    <3>3. Options!Flagged = opts.asked
      BY <2>12, <3>2
    <3> QED BY <2>4, <3>2, <3>3
  <2>14. ~ opts.tuning => T = IF opts.asked \cap Options!GpioTests = {} THEN Named({"user"}) ELSE {"net"}
    <3> SUFFICES ASSUME ~ opts.tuning
                 PROVE  T = IF opts.asked \cap Options!GpioTests = {} THEN Named({"user"}) ELSE {"net"}
      OBVIOUS
    <3>1. CASE opts.asked \cap Options!GpioTests = {}
      <4>1. Options!Flagged = opts.asked
        BY <2>12, <3>1 DEF Options!GpioTests
      <4> QED BY <2>4, <3>1, <4>1
    <3>2. CASE opts.asked \cap Options!GpioTests # {}
      <4>1. "net" \in Options!Flagged
        BY <2>12, <3>2 DEF Options!GpioTests
      <4>2. "net" \in T
        BY <2>4, <4>1
      <4>3. T = {"net"}
        BY <2>5, <4>2
      <4> QED BY <3>2, <4>3
    <3> QED BY <3>1, <3>2
  <2>15. OptsType' /\ NetlatFollows'
    BY <1>1 DEF OptionsInv, OptsType, NetlatFollows
  <2>16. Options!ToSet(plan'.tests) = T
    BY <2>6, <2>7
  <2>17. Options!PlanFollowsOptions'
    BY <1>1, <2>6, <2>7, <2>8, <2>9, <2>10, <2>11, <2>13, <2>14, <2>16 DEF Options!PlanFollowsOptions
  <2> QED BY <2>2, <2>15, <2>17 DEF OptionsInv
<1> QED BY <1>4, <1>5

(* The options are read, and then followed. *)
LEMMA OptionsStep == ASSUME OptionsInv, Options!Next PROVE OptionsInv'
<1>1. CASE Options!Option
  <2>1. plan' = plan /\ plan.status = "reading"
    BY <1>1 DEF Options!Option
  <2>2. OptsType' /\ NetlatFollows'
    BY <1>1, ReadType DEF Options!Option, OptionsInv
  <2> QED BY <2>1, <2>2 DEF OptionsInv, Options!PlanFollowsOptions, Options!CpuFitsTest
<1>2. CASE Options!Refuse
  <2>1. plan'.status = "refused" /\ opts' = opts
    BY <1>2 DEF Options!Refuse
  <2> QED BY <2>1 DEF OptionsInv, OptsType, NetlatFollows, Options!PlanFollowsOptions, Options!CpuFitsTest
<1>3. CASE Options!Run
  BY <1>3, RunFollows
<1> QED BY <1>1, <1>2, <1>3 DEF Options!Next

(* None is given at first. *)
LEMMA OptionsStart == ASSUME Options!Init PROVE OptionsInv
<1>1. plan.status = "reading"
  BY DEF Options!Init
<1>2. OptsType /\ NetlatFollows
  BY DEF Options!Init, OptsType, NetlatFollows
<1> QED BY <1>1, <1>2 DEF OptionsInv, Options!PlanFollowsOptions, Options!CpuFitsTest

-----------------------------------------------------------------------------
(* 'evl net': the requests in their order. *)
Asks == {"disable", "enable", "filter", "vlans", "show", "solicit", "query"}
Rank == [r \in Asks |->
           CASE r = "disable" -> 1 [] r = "enable" -> 2 [] r = "filter" -> 3 [] r = "vlans" -> 4
             [] r = "show" -> 5 [] r = "solicit" -> 6 [] r = "query" -> 7]

(* The next request is the first of those which are left. *)
LEMMA NowIs ==
  ASSUME todo \in SUBSET Asks
  PROVE  /\ todo = {} => Netctl!Now = "nothing"
         /\ todo # {} => Netctl!Now \in todo /\ \A r \in todo : Rank[Netctl!Now] <= Rank[r]
<1> DEFINE left == {i \in DOMAIN Netctl!Requests : Netctl!Requests[i] \in todo}
<1>1. DOMAIN Netctl!Requests = 1..7
  BY DEF Netctl!Requests
<1>2. \A i \in 1..7 : Netctl!Requests[i] \in Asks /\ Rank[Netctl!Requests[i]] = i
  BY DEF Netctl!Requests, Asks, Rank
<1>3. \A r \in Asks : Rank[r] \in 1..7 /\ Netctl!Requests[Rank[r]] = r
  BY DEF Netctl!Requests, Asks, Rank
<1>4. left = {Rank[r] : r \in todo}
  BY <1>1, <1>2, <1>3
<1>5. ASSUME todo # {}
      PROVE  \E r \in todo : \A q \in todo : Rank[r] <= Rank[q]
  BY <1>5, Z3T(20) DEF Asks, Rank
<1>6. ASSUME NEW r \in todo, \A q \in todo : Rank[r] <= Rank[q]
      PROVE  Netctl!Now = r
  <2>1. Rank[r] \in left /\ left \in SUBSET Nat /\ \A k \in left : Rank[r] <= k
    BY <1>3, <1>4, <1>6
  <2>2. Netctl!Min(left) = Rank[r]
    BY <2>1, Least
  <2>3. left # {}
    BY <2>1
  <2> HIDE DEF left
  <2>4. Netctl!Now = IF left = {} THEN "nothing" ELSE Netctl!Requests[Netctl!Min(left)]
    BY DEF Netctl!Now, left
  <2> QED BY <2>2, <2>3, <2>4, <1>3
<1>7. todo = {} => Netctl!Now = "nothing"
  <2>1. todo = {} => left = {}
    BY <1>4
  <2> QED BY <2>1 DEF Netctl!Now
<1> QED BY <1>5, <1>6, <1>7

(* What has been done, ... *)
Done == command.wants \ todo

(* ... which files a request has open, ... *)
OpenFiles ==
    CASE call = "serve" -> IF Netctl!Now \in Netctl!OnPort THEN {"device"}
                           ELSE IF Netctl!Now = "solicit" THEN {"socket"} ELSE {"vlans"}
      [] call = "request" -> {"port"}
      [] call = "load" -> {"port", "object"}
      [] OTHER -> {}

(* ... and what the interface is like after the requests D. *)
Interface(D) ==
    /\ "enable" \in D => port
    /\ "disable" \in D /\ "enable" \notin D => ~ port
    /\ "filter" \in D => port /\ (command.module = "empty" \/ filter = command.module)
    /\ "query" \in D => port
    /\ ("vlans" \in D => vlans) /\ ("solicit" \in D => neighbour)

(* A request which was not refused has the files open which its step needs, *)
(* and what was done is there. *)
NetctlInv ==
    /\ command.wants \in SUBSET Asks /\ todo \in SUBSET command.wants
    /\ command.module \in Modules \cup {"none"}
    /\ refused \in BOOLEAN /\ port \in BOOLEAN
    /\ call \in {"options", "open", "serve", "request", "load", "over"}
    /\ call = "options" => ~ refused /\ command.wants = {}
    /\ refused => call = "over" /\ files \cap {"device", "object"} = {}
    /\ ~ refused =>
         /\ files = OpenFiles
         /\ call \in {"open", "serve", "request", "load"} <=> todo # {}
         /\ call = "request" => Netctl!Now \in {"disable", "filter", "query"}
         /\ call = "load" => Netctl!Now = "filter" /\ command.module # "none"
         /\ Netctl!Now \in {"filter", "query"} /\ call \in {"request", "load"} => port
         /\ \A r \in Done, q \in todo : Rank[r] < Rank[q]
         /\ Interface(Done)

(* What is done was asked before what is left. *)
Ranked == \A r \in Done, q \in todo : Rank[r] < Rank[q]

(* The core may refuse a request. *)
LEMMA RefusedCall ==
  ASSUME NetctlInv, call # "options", Netctl!Refuse, UNCHANGED port, files' \cap {"device", "object"} = {}
  PROVE  NetctlInv'
BY DEF NetctlInv, Netctl!Refuse

(* A service may go on with what it has opened. *)
LEMMA WentOn ==
  ASSUME NetctlInv, ~ refused, todo # {}, NEW step \in {"serve", "request", "load"},
         Netctl!Goto(step), UNCHANGED Netctl!core, files' = OpenFiles',
         step = "request" => Netctl!Now \in {"disable", "filter", "query"},
         step = "load" => Netctl!Now = "filter" /\ command.module # "none",
         step \in {"request", "load"} => port
  PROVE  NetctlInv'
<1>1. /\ call' = step /\ command' = command /\ todo' = todo /\ refused' = refused
      /\ port' = port /\ filter' = filter /\ vlans' = vlans /\ neighbour' = neighbour
  BY DEF Netctl!Goto, Netctl!core
<1>2. Netctl!Now' = Netctl!Now
  BY <1>1 DEF Netctl!Now, Netctl!Requests
<1>3. Done' = Done /\ Interface(Done)' = Interface(Done)
  BY <1>1 DEF Done, Interface
<1> QED BY <1>1, <1>2, <1>3 DEF NetctlInv

(* A service which returns has closed what it opened. *)
LEMMA Returned ==
  ASSUME NetctlInv, ~ refused, call \in {"serve", "request", "load"}, NEW closed, closed = OpenFiles,
         Netctl!Return(closed), port' \in BOOLEAN,
         NEW D, D = Done \cup {Netctl!Now}, Interface(D)'
  PROVE  NetctlInv'
<1> DEFINE r == Netctl!Now
<1>1. /\ todo \in SUBSET Asks /\ todo # {} /\ command.wants \in SUBSET Asks /\ todo \in SUBSET command.wants
      /\ files = closed /\ Ranked
  BY DEF NetctlInv, Ranked
<1>2. r \in todo /\ \A q \in todo : Rank[r] <= Rank[q]
  BY <1>1, NowIs
<1>3. /\ todo' = todo \ {r} /\ files' = {} /\ command' = command /\ refused' = refused
      /\ call' = IF todo = {r} THEN "over" ELSE "open"
  BY <1>1 DEF Netctl!Return
<1> HIDE DEF r
<1>4. Done' = Done \cup {r}
  BY <1>1, <1>2, <1>3 DEF Done
<1>5. \A q \in todo \ {r} : Rank[r] < Rank[q]
  <2>1. \A p, q \in Asks : Rank[p] = Rank[q] => p = q
    BY DEF Rank, Asks
  <2>2. \A p \in Asks : Rank[p] \in Int
    BY DEF Rank, Asks
  <2> QED BY <1>1, <1>2, <2>1, <2>2
<1>6. OpenFiles' = {}
  BY <1>3 DEF OpenFiles
<1>7. Ranked'
  BY <1>1, <1>2, <1>3, <1>4, <1>5 DEF Ranked
<1>8. Interface(Done)'
  BY <1>4 DEF r, Interface
<1>9. ~ refused' /\ call' # "options" /\ call' \in {"over", "open"} /\ (call' = "open" <=> todo' # {})
  BY <1>1, <1>2, <1>3
<1> QED BY <1>1, <1>2, <1>3, <1>6, <1>7, <1>8, <1>9 DEF NetctlInv, Ranked

(* The requests of a command line, and what each leaves behind. *)
LEMMA NetctlStep == ASSUME NetctlInv, Netctl!EvlNetNext PROVE NetctlInv'
<1> DEFINE r == Netctl!Now
<1>1. /\ command.wants \in SUBSET Asks /\ todo \in SUBSET Asks /\ port \in BOOLEAN
      /\ call \in {"options", "open", "serve", "request", "load", "over"}
      /\ Done \in SUBSET Asks
  BY DEF NetctlInv, Done
<1>2. call \in {"open", "serve", "request", "load"} => ~ refused /\ todo # {} /\ files = OpenFiles /\ Interface(Done) /\ Ranked
  BY DEF NetctlInv, Ranked
<1>3. todo # {} => r \in todo /\ r \in Asks
  BY <1>1, NowIs
<1>4. /\ call = "serve" => files = IF r \in Netctl!OnPort THEN {"device"}
                                 ELSE IF r = "solicit" THEN {"socket"} ELSE {"vlans"}
      /\ call = "request" => files = {"port"} /\ r \in {"disable", "filter", "query"}
      /\ call = "load" => files = {"port", "object"} /\ r = "filter"
      /\ r \in {"filter", "query"} /\ call \in {"request", "load"} => port
  BY <1>2 DEF NetctlInv, OpenFiles
<1> HIDE DEF r
<1>5. CASE Netctl!Options
  <2>1. /\ call = "options" /\ ~ refused /\ command.wants = {} /\ files = {}
    BY <1>5 DEF Netctl!Options, NetctlInv, OpenFiles
  <2>2. PICK w \in SUBSET Netctl!ToSet(Netctl!Requests), n \in BOOLEAN, m \in Modules :
           /\ command' = [wants |-> w, netif |-> n, module |-> m]
           /\ todo' = w
           /\ refused' \in {TRUE, w = {} \/ (w \cap Netctl!OnPort # {} /\ ~ n)}
           /\ call' = IF refused' THEN "over" ELSE "open"
    BY <1>5 DEF Netctl!Options
  <2>3. w \in SUBSET Asks
    BY DEF Netctl!ToSet, Netctl!Requests, Asks
  <2>4. UNCHANGED <<files, port, filter, vlans, neighbour>>
    BY <1>5 DEF Netctl!Options, Netctl!core
  <2>5. Done' = {} /\ command'.wants = w /\ (~ refused' => w # {}) /\ refused' \in BOOLEAN
    BY <2>2 DEF Done
  <2>6. ~ refused' => OpenFiles' = {} /\ Interface(Done)'
    BY <2>2, <2>5 DEF OpenFiles, Interface
  <2> QED BY <1>1, <2>1, <2>2, <2>3, <2>4, <2>5, <2>6 DEF NetctlInv
<1>6. CASE Netctl!Open
  <2>1. CASE Netctl!Refuse /\ UNCHANGED files
    <3>1. files = {} /\ call = "open" /\ UNCHANGED port
      BY <1>2, <1>6 DEF Netctl!Open, OpenFiles, Netctl!core
    <3> QED BY <2>1, <3>1, RefusedCall
  <2>2. CASE ~ (Netctl!Refuse /\ UNCHANGED files)
    <3>1. /\ call = "open" /\ UNCHANGED Netctl!core /\ Netctl!Goto("serve")
          /\ files' = {CASE r \in Netctl!OnPort -> "device" [] r \in {"vlans", "show"} -> "vlans"
                         [] r = "solicit" -> "socket"}
      BY <1>6, <2>2 DEF Netctl!Open, r
    <3>2. r \in Netctl!OnPort \/ r \in {"vlans", "show"} \/ r = "solicit"
      BY <1>2, <1>3, <3>1 DEF Asks, Netctl!OnPort
    <3>3. files' = IF r \in Netctl!OnPort THEN {"device"} ELSE IF r = "solicit" THEN {"socket"} ELSE {"vlans"}
      BY <3>1, <3>2 DEF Netctl!OnPort
    <3>4. r' = r /\ call' = "serve"
      BY <3>1 DEF r, Netctl!Now, Netctl!Goto, Netctl!Requests
    <3>5. OpenFiles' = files'
      BY <3>3, <3>4 DEF OpenFiles, r
    <3> QED BY <1>2, <3>1, <3>5, WentOn
  <2> QED BY <2>1, <2>2
<1>7. CASE Netctl!EnablePort
  <2>1. CASE Netctl!Refuse /\ files' = {} /\ UNCHANGED Netctl!core
    BY <1>7, <2>1, RefusedCall DEF Netctl!EnablePort, Netctl!core
  <2>2. CASE Netctl!Return({"device"}) /\ port' = TRUE /\ UNCHANGED <<filter, vlans, neighbour>>
    <3>1. call = "serve" /\ r = "enable" /\ files = {"device"}
      BY <1>7, <1>4 DEF Netctl!EnablePort, r, Netctl!OnPort
    <3>2. OpenFiles = {"device"} /\ command' = command
      BY <1>2, <2>2, <3>1 DEF Netctl!Return
    <3>3. ASSUME NEW D, D = Done \cup {"enable"} PROVE Interface(D)'
      BY <1>2, <2>2, <3>1, <3>2, <3>3 DEF Interface
    <3> QED BY <1>2, <2>2, <3>1, <3>2, <3>3, Returned DEF r
  <2> QED BY <1>7, <2>1, <2>2 DEF Netctl!EnablePort
<1>8. CASE Netctl!OpenPort
  <2>0. call = "serve" /\ r \in {"disable", "filter", "query"} /\ UNCHANGED Netctl!core
    BY <1>8 DEF Netctl!OpenPort, r
  <2>1. CASE Netctl!Refuse /\ files' = {}
    BY <2>0, <2>1, RefusedCall DEF Netctl!core
  <2>2. CASE port /\ files' = {"port"} /\ Netctl!Goto("request")
    <3>1. OpenFiles' = files'
      BY <2>2 DEF OpenFiles, Netctl!Goto
    <3> QED BY <1>2, <2>0, <2>2, <3>1, WentOn DEF r
  <2> QED BY <1>8, <2>1, <2>2 DEF Netctl!OpenPort
<1>9. CASE Netctl!DisablePort
  <2>0. call = "request" /\ r = "disable" /\ files = {"port"}
    BY <1>9, <1>4 DEF Netctl!DisablePort, r
  <2>1. CASE Netctl!Refuse /\ UNCHANGED <<files, Netctl!core>>
    BY <2>0, <2>1, RefusedCall DEF Netctl!core
  <2>2. CASE /\ Netctl!Return({"port"}) /\ port' = FALSE /\ filter' \in {"none", filter}
             /\ UNCHANGED <<vlans, neighbour>>
    <3>1. Done = {}
      <4>1. \A p \in Asks : ~ Rank[p] < Rank["disable"]
        BY DEF Rank, Asks
      <4> QED BY <1>1, <1>2, <1>3, <2>0, <4>1 DEF Ranked
    <3>2. OpenFiles = {"port"} /\ command' = command
      BY <1>2, <2>0, <2>2 DEF Netctl!Return
    <3>3. ASSUME NEW D, D = Done \cup {"disable"} PROVE Interface(D)'
      BY <2>2, <3>1, <3>3 DEF Interface
    <3> QED BY <1>2, <2>0, <2>2, <3>2, <3>3, Returned DEF r
  <2> QED BY <1>9, <2>1, <2>2 DEF Netctl!DisablePort
<1>10. CASE Netctl!QueryPort
  <2>0. call = "request" /\ r = "query" /\ files = {"port"} /\ UNCHANGED Netctl!core /\ port
    BY <1>10, <1>4 DEF Netctl!QueryPort, r
  <2>1. CASE Netctl!Refuse /\ files' \in {files, {}}
    BY <2>0, <2>1, RefusedCall DEF Netctl!core
  <2>2. CASE Netctl!Return({"port"})
    <3>2. OpenFiles = {"port"} /\ command' = command
      BY <1>2, <2>0, <2>2 DEF Netctl!Return
    <3>3. ASSUME NEW D, D = Done \cup {"query"} PROVE Interface(D)'
      BY <1>2, <2>0, <3>2, <3>3 DEF Interface, Netctl!core
    <3> QED BY <1>1, <1>2, <2>0, <2>2, <3>2, <3>3, Returned DEF r, Netctl!core
  <2> QED BY <1>10, <2>1, <2>2 DEF Netctl!QueryPort
<1>11. CASE Netctl!RemoveFilter
  <2>0. call = "request" /\ r = "filter" /\ files = {"port"} /\ command.module = "none" /\ port
    BY <1>11, <1>4 DEF Netctl!RemoveFilter, r
  <2>1. CASE Netctl!Refuse /\ UNCHANGED <<files, Netctl!core>>
    BY <2>0, <2>1, RefusedCall DEF Netctl!core
  <2>2. CASE Netctl!Return({"port"}) /\ filter' = "none" /\ UNCHANGED <<port, vlans, neighbour>>
    <3>2. OpenFiles = {"port"} /\ command' = command
      BY <1>2, <2>0, <2>2 DEF Netctl!Return
    <3>3. ASSUME NEW D, D = Done \cup {"filter"} PROVE Interface(D)'
      BY <1>2, <2>0, <2>2, <3>2, <3>3 DEF Interface
    <3> QED BY <1>1, <1>2, <2>0, <2>2, <3>2, <3>3, Returned DEF r
  <2> QED BY <1>11, <2>1, <2>2 DEF Netctl!RemoveFilter
<1>12. CASE Netctl!OpenModule
  <2>0. /\ call = "request" /\ r = "filter" /\ files = {"port"} /\ UNCHANGED Netctl!core /\ port
        /\ command.module # "none"
    BY <1>12, <1>4 DEF Netctl!OpenModule, r
  <2>1. CASE Netctl!Refuse /\ UNCHANGED files
    BY <2>0, <2>1, RefusedCall DEF Netctl!core
  <2>2. CASE Netctl!Goto("load") /\ files' = files \cup {"object"}
    <3>1. OpenFiles' = files'
      BY <2>0, <2>2 DEF OpenFiles, Netctl!Goto
    <3> QED BY <1>2, <2>0, <2>2, <3>1, WentOn DEF r
  <2> QED BY <1>12, <2>1, <2>2 DEF Netctl!OpenModule
<1>13. CASE Netctl!LoadModule
  <2>0. /\ call = "load" /\ r = "filter" /\ files = {"port", "object"} /\ port
        /\ command.module \in {"filter", "empty", "garbage"}
    <3>1. command.module \in Modules \cup {"none"} /\ command.module # "none"
      BY <1>2, <1>13 DEF Netctl!LoadModule, NetctlInv
    <3> QED BY <1>13, <1>4, <3>1, ToolsAssumption DEF Netctl!LoadModule, Netctl!EvlNetConstants
  <2>1. CASE Netctl!Refuse /\ files' = files \ {"object"} /\ UNCHANGED Netctl!core
    BY <2>0, <2>1, RefusedCall DEF Netctl!core
  <2>2. CASE /\ command.module # "garbage" /\ Netctl!Return({"object", "port"})
             /\ filter' = IF command.module = "filter" THEN "filter" ELSE filter
             /\ UNCHANGED <<port, vlans, neighbour>>
    <3>2. OpenFiles = {"object", "port"} /\ command' = command
      BY <1>2, <2>0, <2>2 DEF Netctl!Return
    <3>3. ASSUME NEW D, D = Done \cup {"filter"} PROVE Interface(D)'
      BY <1>2, <2>0, <2>2, <3>2, <3>3 DEF Interface
    <3> QED BY <1>1, <1>2, <2>0, <2>2, <3>2, <3>3, Returned DEF r
  <2> QED BY <1>13, <2>1, <2>2 DEF Netctl!LoadModule
<1>14. CASE Netctl!SetVlans
  <2>0. call = "serve" /\ r = "vlans" /\ files = {"vlans"}
    BY <1>14, <1>4 DEF Netctl!SetVlans, r, Netctl!OnPort
  <2>1. CASE Netctl!Refuse /\ UNCHANGED <<files, Netctl!core>>
    BY <2>0, <2>1, RefusedCall DEF Netctl!core
  <2>2. CASE Netctl!Return({"vlans"}) /\ vlans' = TRUE /\ UNCHANGED <<port, filter, neighbour>>
    <3>2. OpenFiles = {"vlans"} /\ command' = command
      BY <1>2, <2>0, <2>2 DEF Netctl!Return
    <3>3. ASSUME NEW D, D = Done \cup {"vlans"} PROVE Interface(D)'
      BY <1>2, <2>0, <2>2, <3>2, <3>3 DEF Interface
    <3> QED BY <1>1, <1>2, <2>0, <2>2, <3>2, <3>3, Returned DEF r
  <2> QED BY <1>14, <2>1, <2>2 DEF Netctl!SetVlans
<1>15. CASE Netctl!ShowVlans
  <2>0. call = "serve" /\ r = "show" /\ files = {"vlans"} /\ UNCHANGED Netctl!core
    BY <1>15, <1>4 DEF Netctl!ShowVlans, r, Netctl!OnPort
  <2>1. CASE Netctl!Refuse /\ UNCHANGED files
    BY <2>0, <2>1, RefusedCall DEF Netctl!core
  <2>2. CASE Netctl!Return({"vlans"})
    <3>2. OpenFiles = {"vlans"} /\ command' = command
      BY <1>2, <2>0, <2>2 DEF Netctl!Return
    <3>3. ASSUME NEW D, D = Done \cup {"show"} PROVE Interface(D)'
      BY <1>2, <2>0, <2>2, <3>2, <3>3 DEF Interface, Netctl!core
    <3> QED BY <1>1, <1>2, <2>0, <2>2, <3>2, <3>3, Returned DEF r, Netctl!core
  <2> QED BY <1>15, <2>1, <2>2 DEF Netctl!ShowVlans
<1>16. CASE Netctl!Solicit
  <2>0. call = "serve" /\ r = "solicit" /\ files = {"socket"}
    BY <1>16, <1>4 DEF Netctl!Solicit, r, Netctl!OnPort
  <2>1. CASE Netctl!Refuse /\ UNCHANGED <<files, Netctl!core>>
    BY <2>0, <2>1, RefusedCall DEF Netctl!core
  <2>2. CASE Netctl!Return({"socket"}) /\ neighbour' = TRUE /\ UNCHANGED <<port, filter, vlans>>
    <3>2. OpenFiles = {"socket"} /\ command' = command
      BY <1>2, <2>0, <2>2 DEF Netctl!Return
    <3>3. ASSUME NEW D, D = Done \cup {"solicit"} PROVE Interface(D)'
      BY <1>2, <2>0, <2>2, <3>2, <3>3 DEF Interface
    <3> QED BY <1>1, <1>2, <2>0, <2>2, <3>2, <3>3, Returned DEF r
  <2> QED BY <1>16, <2>1, <2>2 DEF Netctl!Solicit
<1> QED
  BY <1>5, <1>6, <1>7, <1>8, <1>9, <1>10, <1>11, <1>12, <1>13, <1>14, <1>15, <1>16 DEF Netctl!EvlNetNext

(* It starts without a request, ... *)
LEMMA NetctlStart == ASSUME Netctl!EvlNetInit PROVE NetctlInv
<1>1. OpenFiles = {} /\ Done = {} /\ todo = {}
  BY DEF Netctl!EvlNetInit, OpenFiles, Done
<1>2. Interface(Done)
  BY <1>1 DEF Interface
<1>3. Netctl!Now = "nothing"
  BY <1>1, NowIs
<1> QED BY <1>1, <1>2, <1>3 DEF Netctl!EvlNetInit, NetctlInv

(* ... and what it did is there in the end. *)
LEMMA NetctlEnds == ASSUME NetctlInv PROVE Netctl!SuccessMeansDone /\ Netctl!ServicesCloseFiles
<1>1. call = "over" /\ ~ refused => todo = {} /\ Done = command.wants /\ Interface(Done) /\ files = {}
  BY DEF NetctlInv, Done, OpenFiles
<1>2. Netctl!ServicesCloseFiles
  BY <1>1 DEF Netctl!ServicesCloseFiles, NetctlInv
<1>3. Netctl!SuccessMeansDone
  BY <1>1 DEF Netctl!SuccessMeansDone, Interface
<1> QED BY <1>2, <1>3

-----------------------------------------------------------------------------
(* The invariants hold whichever program of MCTools runs. *)
LEMMA NetIsSound == MCSpec => [](part = "net" => NetInv /\ NetFigures /\ NetCount)
<1> DEFINE Inv == part = "net" => NetInv /\ NetFigures /\ NetCount
<1>1. MCInit => Inv
  BY InitIsSound, NetStarts DEF MCInit
<1>2. Inv /\ [MCNext]_<<part, net, timer, options, ps, checks, netctl, parser>> => Inv'
  <2> SUFFICES ASSUME part' = "net", Inv,
                      [MCNext]_<<part, net, timer, options, ps, checks, netctl, parser>>
               PROVE  (NetInv /\ NetFigures /\ NetCount)'
    OBVIOUS
  <2>1. CASE MCNext
    <3>1. part = "net" /\ Net!Next
      BY <2>1 DEF MCNext
    <3>2. NetTypes /\ RunnerInv /\ TokenInv /\ LossInv /\ NetFigures /\ NetCount
      BY <3>1 DEF NetInv
    <3> QED
      BY <3>1, <3>2, StepKeepsTypes, StepKeepsTokens, StepKeepsLosses, StepKeepsCount DEF NetInv
  <2>2. CASE UNCHANGED <<part, net, timer, options, ps, checks, netctl, parser>>
    <3>1. part = "net" /\ NetInv /\ NetFigures /\ NetCount /\ UNCHANGED net
      BY <2>2
    <3>2. NetTypes' /\ RunnerInv' /\ TokenInv' /\ NetFigures'
      BY <3>1 DEF net, NetInv, NetTypes, RunnerInv, TokenInv, NetFigures
    <3>3. NetCount'
      BY <3>1 DEF net, NetCount, InBulk
    <3>4. LossInv'
      <4>1. Top \in Nat /\ Top' = Top
        BY <3>1 DEF net, NetInv, NetTypes, Top, Turn
      <4> QED
        BY <3>1, <4>1, OthersKeepLosses DEF net, NetInv
    <3> QED
      BY <3>2, <3>3, <3>4 DEF NetInv
  <2> QED
    BY <2>1, <2>2
<1> QED
  BY <1>1, <1>2, PTL DEF MCSpec

LEMMA TimerIsSound == MCSpec => [](part = "timer" => TimerInv)
<1>1. MCInit => (part = "timer" => TimerInv)
  BY TimerStarts DEF MCInit
<1>2. (part = "timer" => TimerInv) /\ [MCNext]_<<part, net, timer, options, ps, checks, netctl, parser>>
        => (part = "timer" => TimerInv)'
  <2> SUFFICES ASSUME part' = "timer", part = "timer" => TimerInv,
                      [MCNext]_<<part, net, timer, options, ps, checks, netctl, parser>>
               PROVE  TimerInv'
    OBVIOUS
  <2>1. CASE MCNext
    <3>1. TimerInv /\ ~ Timer!Over /\ (Timer!Driver \/ Timer!Logger \/ Timer!Main)
      BY <2>1 DEF MCNext, Timer!Next
    <3>2. TimerSound
      BY <3>1 DEF TimerInv, Timer!Over
    <3>3. CASE Timer!Driver
      <4>1. tester' # "weird"
        BY <3>1, <3>3 DEF Timer!Driver, Timer!Tick, Timer!Pulse, Timer!EndBulk,
                          Timer!SitterReturns, Timer!Over
      <4> QED
        BY <3>2, <3>3, <4>1, DriverKeepsCount DEF TimerInv, TimerSound
    <3> QED
      BY <3>1, <3>2, <3>3, LoggerKeepsCount, MainKeepsCount
  <2>2. CASE UNCHANGED <<part, net, timer, options, ps, checks, netctl, parser>>
    <3>1. TimerInv /\ UNCHANGED timer
      BY <2>2
    <3>2. Left' = Left
      BY <3>1 DEF timer, Left, Timer!InXbuf, Timer!InHand, InLast
    <3> QED
      BY <3>1, <3>2 DEF timer, TimerInv, TimerSound, TimerTypes, TimerSteps, TimerCount, TimerExtremes
  <2> QED
    BY <2>1, <2>2
<1> QED
  BY <1>1, <1>2, PTL DEF MCSpec

(* The command lines as well. *)
LEMMA OptionsAreSound == MCSpec => [](part = "options" => OptionsInv)
<1>1. MCInit => (part = "options" => OptionsInv)
  BY OptionsStart DEF MCInit
<1>2. (part = "options" => OptionsInv) /\ [MCNext]_<<part, net, timer, options, ps, checks, netctl, parser>>
        => (part = "options" => OptionsInv)'
  <2> SUFFICES ASSUME part' = "options", part = "options" => OptionsInv,
                      [MCNext]_<<part, net, timer, options, ps, checks, netctl, parser>>
               PROVE  OptionsInv'
    OBVIOUS
  <2>1. CASE MCNext
    <3>1. OptionsInv /\ Options!Next
      BY <2>1 DEF MCNext
    <3> QED
      BY <3>1, OptionsStep
  <2>2. CASE UNCHANGED <<part, net, timer, options, ps, checks, netctl, parser>>
    <3>1. OptionsInv /\ opts' = opts /\ plan' = plan
      BY <2>2 DEF options
    <3> QED
      BY <3>1 DEF OptionsInv, OptsType, NetlatFollows, Options!PlanFollowsOptions, Options!CpuFitsTest,
             Options!ToSet
  <2> QED
    BY <2>1, <2>2
<1> QED
  BY <1>1, <1>2, PTL DEF MCSpec

LEMMA NetctlIsSound == MCSpec => [](part = "netctl" => NetctlInv)
<1>1. MCInit => (part = "netctl" => NetctlInv)
  BY NetctlStart DEF MCInit
<1>2. (part = "netctl" => NetctlInv) /\ [MCNext]_<<part, net, timer, options, ps, checks, netctl, parser>>
        => (part = "netctl" => NetctlInv)'
  <2> SUFFICES ASSUME part' = "netctl", part = "netctl" => NetctlInv,
                      [MCNext]_<<part, net, timer, options, ps, checks, netctl, parser>>
               PROVE  NetctlInv'
    OBVIOUS
  <2>1. CASE MCNext
    <3>1. NetctlInv /\ Netctl!EvlNetNext
      BY <2>1 DEF MCNext
    <3> QED
      BY <3>1, NetctlStep
  <2>2. CASE UNCHANGED <<part, net, timer, options, ps, checks, netctl, parser>>
    <3>1. NetctlInv /\ UNCHANGED netctl
      BY <2>2
    <3>2. Netctl!Now' = Netctl!Now
      BY <3>1 DEF netctl, Netctl!Now
    <3>3. OpenFiles' = OpenFiles /\ Done' = Done /\ Interface(Done)' = Interface(Done)
      BY <3>1, <3>2 DEF netctl, OpenFiles, Done, Interface
    <3> QED
      BY <3>1, <3>2, <3>3 DEF netctl, NetctlInv
  <2> QED
    BY <2>1, <2>2
<1> QED
  BY <1>1, <1>2, PTL DEF MCSpec

-----------------------------------------------------------------------------
(* Whatever the network does, and however often the peer is started, the   *)
(* network test counts no more packets lost than were lost or garbled on   *)
(* their way to the host, were overtaken by others, or had been counted up *)
(* before the serials went back (rx, parse_input), and both hosts wait for *)
(* ever only once two packets have been lost.                              *)
THEOREM LossesAreCounted == MCSpec => []LossesAreHonest
<1>1. (part = "net" => NetInv) => LossesAreHonest
  <2> SUFFICES ASSUME part = "net", NetInv
               PROVE  Net!LossesNotOvercounted /\ Net!StallsAfterTwoLosses
    BY DEF LossesAreHonest
  <2>1. Net!LossesNotOvercounted
    <3>1. PICK high \in Nat, M \in SUBSET Nat : LossOK(high, M)
      BY DEF NetInv, LossInv
    <3>2. Cardinality(Garbled) \in Nat /\ lost \in Nat /\ missed \in Nat /\ late \in Nat /\ back \in Nat
      BY Counts DEF NetInv, NetTypes
    <3> QED
      BY <3>1, <3>2 DEF Net!LossesNotOvercounted, LossOK, AccountOK
  <2>2. Net!StallsAfterTwoLosses
    BY FS_EmptySet DEF Net!StallsAfterTwoLosses, NetInv, TokenInv, Turn, NetTypes
  <2> QED
    BY <2>1, <2>2
<1> QED
  BY <1>1, NetIsSound, PTL

(* latmus reports each latency which it has put in a histogram once        *)
(* (log_results, log_rx_times, finalize_last_bulk), unless two threads     *)
(* summed them up at once, or the logger was cancelled or left running,    *)
(* and then never twice; the check of more_timer_data() ends no test whose *)
(* figures are right; and a test which was not aborted has logged nothing  *)
(* beyond the threshold (-A).                                              *)
THEOREM LatenciesAreCounted == MCSpec => []LatenciesCountedOnce
<1>1. ASSUME NetFigures, NetCount
      PROVE  Net!NetSamplesCountedOnce
  <2> SUFFICES ASSUME main = "exit", ~ torn, NEW s \in Net!Stats
               PROVE  stats[s].samples = Net!Total(histogram[s])
    BY DEF Net!NetSamplesCountedOnce
  <2>1. stats[s].samples + 0 = Net!Total(histogram[s])
    BY <1>1 DEF NetCount, InBulk
  <2> QED
    BY <1>1, <2>1, FiguresAreThere
<1>2. ASSUME TimerInv
      PROVE  Timer!TimerSamplesCountedOnce /\ Timer!WeirdIfOverlap /\ Timer!ThresholdHonoured
  <2>1. Timer!WeirdIfOverlap
    BY <1>2 DEF TimerInv, Timer!WeirdIfOverlap
  <2>2. ASSUME tester = "exit"
        PROVE  TimerSound
    BY <1>2, <2>2 DEF TimerInv
  <2>3. Timer!ThresholdHonoured
    BY <2>2, Parameters DEF TimerSound, TimerExtremes, Timer!ThresholdHonoured
  <2>4. ASSUME tester = "exit"
        PROVE  st.samples + Left = st.samples + Timer!InXbuf + Timer!InHand
    <3>1. TimerTypes /\ bulkNow.samples = 0 /\ InLast = 0
      BY <2>2, <2>4 DEF TimerSound, TimerSteps, InLast
    <3> QED
      BY <3>1, AmountsAreNatural DEF Left
  <2>5. Timer!TimerSamplesCountedOnce
    BY <2>2, <2>4 DEF TimerSound, TimerCount, Timer!TimerSamplesCountedOnce
  <2> QED
    BY <2>1, <2>3, <2>5
<1>3. (part = "net" => NetInv /\ NetFigures /\ NetCount) /\ (part = "timer" => TimerInv)
        => LatenciesCountedOnce
  BY <1>1, <1>2 DEF LatenciesCountedOnce
<1> QED
  BY <1>3, NetIsSound, TimerIsSound, PTL

(* latmus runs the tests which its options name as usage() describes them, *)
(* but the network test in the place of the GPIO ones, on the CPU which    *)
(* was asked for or on one which suits the test, --net being placed as an  *)
(* in-band one (main, determine_responder_cpu); and an 'evl net' which     *)
(* succeeds has done all that its command line asks for, each service of   *)
(* the library having closed the files which it opened                     *)
(* (evl_net_enable_port, evl_net_set_filter, evl_net_solicit, ...), for    *)
(* any options, CPUs and modules.                                          *)
THEOREM CommandsObey == MCSpec => []CommandsDoAsAsked
<1>1. (part = "options" => OptionsInv) /\ (part = "netctl" => NetctlInv) => CommandsDoAsAsked
  BY NetctlEnds DEF CommandsDoAsAsked, OptionsInv
<1> QED
  BY <1>1, OptionsAreSound, NetctlIsSound, PTL
=============================================================================
