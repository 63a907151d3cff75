------------------------ MODULE ChannelFlow_proofs ------------------------
(***************************************************************************)
(* Proofs that a Channel implements FlowControl in each direction, that no *)
(* credit leaks away while the receiver is reading, and that the threshold *)
(* of _check_add_window cannot stall a sender: for any number of threads,  *)
(* any methods they call and any sizes.                                    *)
(***************************************************************************)
EXTENDS ChannelFlow, Channel_proofs, FiniteSetTheorems, FunctionTheorems

-----------------------------------------------------------------------------
(* Sums                                                                     *)

\* The pairs of one argument, and how many they are.
Column(x, n) == {<<x, k>> : k \in 1 .. n}

\* One pair per unit.
LEMMA ColumnSize ==
    ASSUME NEW x, NEW n \in Nat
    PROVE  IsFiniteSet(Column(x, n)) /\ Cardinality(Column(x, n)) = n
<1> DEFINE f == [k \in 1 .. n |-> <<x, k>>]
<1>1. f \in Bijection(1 .. n, Column(x, n))
  <2>1. f \in [1 .. n -> Column(x, n)]
    BY DEF Column
  <2>2. \A a, b \in 1 .. n : f[a] = f[b] => a = b
    OBVIOUS
  <2>3. \A c \in Column(x, n) : \E a \in 1 .. n : f[a] = c
    BY DEF Column
  <2> QED
    BY <2>1, <2>2, <2>3 DEF Bijection, Injection, Surjection, IsInjective
<1>2. ExistsBijection(1 .. n, Column(x, n))
  BY <1>1 DEF ExistsBijection
<1> QED
  BY <1>2, FS_CountingElements, FS_NatBijection

\* The pairs below a function are the columns of its arguments.
LEMMA CellsAre ==
    ASSUME NEW S, NEW w \in [S -> Nat]
    PROVE  /\ Cells(w) = UNION {Column(x, w[x]) : x \in S}
           /\ \A c : c \in Cells(w) <=> \E x \in S : \E k \in 1 .. w[x] : c = <<x, k>>
  BY DEF Cells, Column

\* There are finitely many of them.
LEMMA CellsFinite ==
    ASSUME NEW S, IsFiniteSet(S), NEW w \in [S -> Nat]
    PROVE  IsFiniteSet(Cells(w)) /\ Total(w) \in Nat
<1> DEFINE T == {Column(x, w[x]) : x \in S}
           f == [x \in S |-> Column(x, w[x])]
<1>1. f \in Surjection(S, T)
  BY DEF Surjection
<1>2. IsFiniteSet(T)
  BY <1>1, FS_Surjection
<1>3. \A c \in T : IsFiniteSet(c)
  BY ColumnSize
<1>4. IsFiniteSet(UNION T)
  BY <1>2, <1>3, FS_UNION
<1>5. Cells(w) = UNION T
  BY CellsAre
<1>6. IsFiniteSet(Cells(w))
  BY <1>4, <1>5
<1> QED
  BY <1>6, FS_CardinalityType DEF Total

\* A sum is one of its terms and the sum of the others.
LEMMA TotalSplit ==
    ASSUME NEW S, IsFiniteSet(S), NEW w \in [S -> Nat], NEW x \in S
    PROVE  Total(w) = w[x] + Total([y \in S \ {x} |-> w[y]])
<1> DEFINE v == [y \in S \ {x} |-> w[y]]
<1>1. v \in [S \ {x} -> Nat] /\ IsFiniteSet(S \ {x})
  BY FS_RemoveElement
<1>2. IsFiniteSet(Cells(v)) /\ Total(v) \in Nat
  BY <1>1, CellsFinite
<1>3. IsFiniteSet(Column(x, w[x])) /\ Cardinality(Column(x, w[x])) = w[x]
  BY ColumnSize
<1>4. Cells(w) = Column(x, w[x]) \cup Cells(v)
  BY <1>1 DEF Cells, Column
<1>5. Column(x, w[x]) \cap Cells(v) = {}
  BY <1>1 DEF Cells, Column
<1>6. Cardinality(Column(x, w[x]) \cup Cells(v)) = w[x] + Total(v) - Cardinality({})
  BY <1>2, <1>3, <1>5, FS_Union DEF Total
<1> QED
  BY <1>2, <1>4, <1>6, FS_EmptySet DEF Total

\* One term changes.
LEMMA TotalChange ==
    ASSUME NEW S, IsFiniteSet(S), NEW w \in [S -> Nat], NEW v \in [S -> Nat], NEW x \in S,
           \A y \in S \ {x} : v[y] = w[y]
    PROVE  Total(v) = Total(w) - w[x] + v[x]
<1>1. [y \in S \ {x} |-> v[y]] = [y \in S \ {x} |-> w[y]]
  OBVIOUS
<1> DEFINE rest == Total([y \in S \ {x} |-> w[y]])
<1>2. Total(w) = w[x] + rest /\ Total(v) = v[x] + rest
  BY <1>1, TotalSplit
<1>3. rest \in Nat
  <2>1. IsFiniteSet(S \ {x}) /\ [y \in S \ {x} |-> w[y]] \in [S \ {x} -> Nat]
    BY FS_RemoveElement
  <2> QED
    BY <2>1, CellsFinite
<1>4. w[x] \in Nat /\ v[x] \in Nat
  OBVIOUS
<1> HIDE DEF rest
<1> QED
  BY <1>2, <1>3, <1>4

\* The same terms under other names.
LEMMA TotalRenamed ==
    ASSUME NEW S, IsFiniteSet(S), NEW w \in [S -> Nat], NEW T, NEW v \in [T -> Nat],
           NEW f \in Bijection(S, T), \A x \in S : v[f[x]] = w[x]
    PROVE  Total(v) = Total(w)
<1> DEFINE g == [c \in Cells(w) |-> <<f[c[1]], c[2]>>]
<1>1. /\ f \in [S -> T] /\ \A a, b \in S : f[a] = f[b] => a = b
      /\ \A t \in T : \E s \in S : f[s] = t
  BY DEF Bijection, Injection, Surjection, IsInjective
<1>2. \A c \in Cells(w) : c = <<c[1], c[2]>> /\ c[1] \in S /\ c[2] \in 1 .. w[c[1]]
  BY CellsAre
<1>3. g \in [Cells(w) -> Cells(v)]
  BY <1>1, <1>2, CellsAre
<1>4. \A a, b \in Cells(w) : g[a] = g[b] => a = b
  BY <1>1, <1>2
<1>5. ASSUME NEW c \in Cells(v) PROVE \E a \in Cells(w) : g[a] = c
  <2>1. PICK t \in T : \E k \in 1 .. v[t] : c = <<t, k>>
    BY CellsAre
  <2>2. PICK k \in 1 .. v[t] : c = <<t, k>>
    BY <2>1
  <2>3. PICK s \in S : f[s] = t
    BY <1>1
  <2>4. <<s, k>> \in Cells(w)
    BY <2>3, CellsAre
  <2> QED
    BY <2>2, <2>3, <2>4
<1>6. g \in Bijection(Cells(w), Cells(v))
  BY <1>3, <1>4, <1>5 DEF Bijection, Injection, Surjection, IsInjective
<1>7. ExistsBijection(Cells(w), Cells(v)) /\ IsFiniteSet(Cells(w))
  BY <1>6, CellsFinite DEF ExistsBijection
<1> QED
  BY <1>7, FS_Bijection DEF Total

\* Terms that are 0 may be left out.
LEMMA TotalSupport ==
    ASSUME NEW S, NEW R, R \subseteq S, NEW w \in [S -> Nat], \A x \in S \ R : w[x] = 0
    PROVE  Total([x \in R |-> w[x]]) = Total(w)
<1> DEFINE v == [x \in R |-> w[x]]
<1>1. v \in [R -> Nat]
  OBVIOUS
<1>2. \A x \in S \ R : 1 .. w[x] = {}
  OBVIOUS
<1>3. \A c : c \in Cells(w) <=> \E x \in S : \E k \in 1 .. w[x] : c = <<x, k>>
  BY CellsAre
<1>4. \A c : c \in Cells(v) <=> \E x \in R : \E k \in 1 .. v[x] : c = <<x, k>>
  BY <1>1, CellsAre
<1>5. \A c : c \in Cells(v) <=> \E x \in R : \E k \in 1 .. w[x] : c = <<x, k>>
  BY <1>4
<1>6. Cells(v) = Cells(w)
  BY <1>2, <1>3, <1>5
<1> QED
  BY <1>6 DEF Total

\* A sum without terms.
LEMMA TotalEmpty == ASSUME NEW w \in [{} -> Nat] PROVE Total(w) = 0
<1>1. Cells(w) = {}
  BY CellsAre
<1> QED
  BY <1>1, FS_EmptySet DEF Total

-----------------------------------------------------------------------------
(* The bytes of a sequence of messages                                      *)

LEMMA SizeType == ASSUME NEW m \in Messages, NEW types PROVE Size(m, types) \in Nat
  BY DEF Size, Messages

\* A sequence of messages, seen as what is summed.
LEMMA BytesAre ==
    ASSUME NEW q \in Seq(Messages), NEW types
    PROVE  /\ [i \in DOMAIN q |-> Size(q[i], types)] \in [1 .. Len(q) -> Nat]
           /\ IsFiniteSet(1 .. Len(q))
           /\ Bytes(q, types) \in Nat
<1>1. DOMAIN q = 1 .. Len(q) /\ Len(q) \in Nat /\ \A i \in DOMAIN q : q[i] \in Messages
  BY LenProperties, ElementOfSeq
<1>2. [i \in DOMAIN q |-> Size(q[i], types)] \in [1 .. Len(q) -> Nat]
  BY <1>1, SizeType
<1>3. IsFiniteSet(1 .. Len(q))
  BY <1>1, FS_Interval
<1> QED
  BY <1>2, <1>3, CellsFinite DEF Bytes

\* No message, no bytes.
LEMMA BytesEmpty == ASSUME NEW types PROVE Bytes(<<>>, types) = 0
<1>1. [i \in DOMAIN <<>> |-> Size(<<>>[i], types)] \in [{} -> Nat]
  OBVIOUS
<1> QED
  BY <1>1, TotalEmpty DEF Bytes

\* A message put on a wire or in an outbox adds its size.
LEMMA BytesAppend ==
    ASSUME NEW q \in Seq(Messages), NEW m \in Messages, NEW types
    PROVE  Bytes(Append(q, m), types) = Bytes(q, types) + Size(m, types)
<1> DEFINE r == Append(q, m)
           n == Len(q) + 1
           w == [i \in DOMAIN r |-> Size(r[i], types)]
           v == [i \in DOMAIN q |-> Size(q[i], types)]
<1>1. /\ r \in Seq(Messages) /\ Len(q) \in Nat /\ Len(r) = n /\ DOMAIN r = 1 .. n
      /\ DOMAIN q = 1 .. Len(q) /\ r[n] = m /\ \A i \in 1 .. Len(q) : r[i] = q[i]
  BY AppendProperties, LenProperties
<1>2. w \in [1 .. n -> Nat] /\ IsFiniteSet(1 .. n)
  BY <1>1, BytesAre
<1>3. n \in 1 .. n /\ (1 .. n) \ {n} = 1 .. Len(q)
  BY <1>1
<1>4. Total(w) = w[n] + Total([y \in (1 .. n) \ {n} |-> w[y]])
  <2> DEFINE S == 1 .. n
  <2>1. w \in [S -> Nat] /\ IsFiniteSet(S) /\ n \in S
    BY <1>2, <1>3
  <2> HIDE DEF w, n, S
  <2>2. Total(w) = w[n] + Total([y \in S \ {n} |-> w[y]])
    BY <2>1, TotalSplit
  <2> QED
    BY <2>2 DEF S
<1>5. w[n] = Size(m, types)
  BY <1>1, <1>3
<1>6. [y \in (1 .. n) \ {n} |-> w[y]] = v
  BY <1>1, <1>3
<1>7. Total(v) \in Nat /\ Size(m, types) \in Nat /\ Total(v) = Bytes(q, types) /\ Total(w) = Bytes(r, types)
  BY BytesAre, SizeType DEF Bytes
<1> HIDE DEF w, v, r
<1> QED
  BY <1>4, <1>5, <1>6, <1>7 DEF r

\* A message taken from the front takes its size with it.
LEMMA BytesTail ==
    ASSUME NEW q \in Seq(Messages), q # <<>>, NEW types
    PROVE  Bytes(q, types) = Size(Head(q), types) + Bytes(Tail(q), types)
<1> DEFINE n == Len(q)
           r == Tail(q)
           w == [i \in DOMAIN q |-> Size(q[i], types)]
           v == [i \in DOMAIN r |-> Size(r[i], types)]
           u == [y \in (1 .. n) \ {1} |-> w[y]]
           f == [i \in (1 .. n) \ {1} |-> i - 1]
<1>1. /\ r \in Seq(Messages) /\ n \in Nat \ {0} /\ Len(r) = n - 1 /\ DOMAIN r = 1 .. n - 1
      /\ DOMAIN q = 1 .. n /\ Head(q) = q[1] /\ \A i \in 1 .. n - 1 : r[i] = q[i + 1]
  BY HeadTailProperties, EmptySeq, LenProperties
<1>2. w \in [1 .. n -> Nat] /\ IsFiniteSet(1 .. n)
  BY BytesAre
<1>3. v \in [1 .. n - 1 -> Nat]
  BY <1>1, BytesAre
<1>4. 1 \in 1 .. n
  BY <1>1
<1>5. Total(w) = w[1] + Total(u)
  <2> HIDE DEF w
  <2> QED
    BY <1>2, <1>4, TotalSplit
<1>6. u \in [(1 .. n) \ {1} -> Nat] /\ IsFiniteSet((1 .. n) \ {1})
  BY <1>2, FS_RemoveElement
<1>7. f \in Bijection((1 .. n) \ {1}, 1 .. n - 1)
  <2>1. f \in [(1 .. n) \ {1} -> 1 .. n - 1]
    BY <1>1
  <2>2. \A a, b \in (1 .. n) \ {1} : f[a] = f[b] => a = b
    OBVIOUS
  <2>3. \A t \in 1 .. n - 1 : t + 1 \in (1 .. n) \ {1} /\ f[t + 1] = t
    BY <1>1
  <2> HIDE DEF f
  <2> QED
    BY <2>1, <2>2, <2>3 DEF Bijection, Injection, Surjection, IsInjective
<1>8. \A x \in (1 .. n) \ {1} : v[f[x]] = u[x]
  BY <1>1
<1>9. Total(v) = Total(u)
  <2> DEFINE S == (1 .. n) \ {1}
             T == 1 .. n - 1
  <2>1. /\ IsFiniteSet(S) /\ u \in [S -> Nat] /\ v \in [T -> Nat]
        /\ f \in Bijection(S, T) /\ \A x \in S : v[f[x]] = u[x]
    BY <1>3, <1>6, <1>7, <1>8
  <2> HIDE DEF u, v, f, S, T
  <2> QED
    BY <2>1, TotalRenamed
<1>10. w[1] = Size(Head(q), types)
  BY <1>1, <1>4
<1> QED
  BY <1>5, <1>9, <1>10 DEF Bytes

\* One message.
LEMMA BytesOne ==
    ASSUME NEW m \in Messages, NEW types
    PROVE  Bytes(<<m>>, types) = Size(m, types)
<1>1. <<>> \in Seq(Messages) /\ Append(<<>>, m) = <<m>>
  OBVIOUS
<1>2. Bytes(<<m>>, types) = Bytes(<<>>, types) + Size(m, types)
  BY <1>1, BytesAppend
<1> QED
  BY <1>2, BytesEmpty, SizeType

-----------------------------------------------------------------------------
(* The bytes that threads hold                                              *)

Data == {"data", "ext"}
Updates == {"adjust"}
Streams == {Data, Updates}
Pockets == {"refeed", "credit"}

Pocket(x, place) == IF x.pc = place THEN x.n ELSE 0

\* What each thread of T adds to Prepared and to Carried.
AtIn(T, s, place) == {x \in Threads : T[x].pc = place /\ Home(x) = s}
OutMap(T, s, types) == [t \in Threads |-> IF Home(t) = s THEN Bytes(T[t].out, types) ELSE 0]
PocketMap(T, s, place) == [t \in Threads |-> IF Home(t) = s THEN Pocket(T[t], place) ELSE 0]

\* The user threads and the two transport threads are finitely many.
LEMMA ThreadsFinite == IsFiniteSet(Threads)
<1>1. IsFiniteSet(Sides)
  <2>1. IsFiniteSet({"client"}) /\ Sides = {"client"} \cup {"server"}
    BY FS_Singleton DEF Sides
  <2> QED
    BY <2>1, FS_AddElement
<1> QED
  BY <1>1, UsersAssumption, FS_Union DEF Threads

\* What a thread has in its outbox and in hand is a number, and only a
\* transmitting thread has an outbox.
LEMMA GoodThreadTypes ==
    ASSUME NEW x \in GoodThreads, NEW types, NEW place
    PROVE  /\ x.out \in Seq(Messages) /\ x.n \in Nat /\ x.pc \in Places
           /\ Bytes(x.out, types) \in Nat /\ Pocket(x, place) \in Nat
           /\ x.pc # "transmit" => Bytes(x.out, types) = 0
<1>1. x.out \in Seq(Messages) /\ x.n \in Nat /\ x.pc \in Places
  BY DEF GoodThreads, ThreadStates
<1>2. x.pc # "transmit" => x.out = <<>>
  BY DEF GoodThreads
<1> QED
  BY <1>1, <1>2, BytesAre, BytesEmpty DEF Pocket

\* Every thread holds a number of bytes.
LEMMA MapTypes ==
    ASSUME NEW T \in [Threads -> GoodThreads], NEW s, NEW types, NEW place
    PROVE  /\ OutMap(T, s, types) \in [Threads -> Nat]
           /\ PocketMap(T, s, place) \in [Threads -> Nat]
  BY GoodThreadTypes DEF OutMap, PocketMap

\* The sums of ChannelFlow go over the threads that hold something: the others add 0.
LEMMA SumsAre ==
    ASSUME NEW T \in [Threads -> GoodThreads], NEW s, NEW types, NEW place
    PROVE  /\ Total([t \in AtIn(T, s, "transmit") |-> Bytes(T[t].out, types)])
                 = Total(OutMap(T, s, types))
           /\ Total([t \in AtIn(T, s, place) |-> T[t].n])
                 = Total(PocketMap(T, s, place))
           /\ Total(OutMap(T, s, types)) \in Nat
           /\ Total(PocketMap(T, s, place)) \in Nat
<1> DEFINE R == AtIn(T, s, "transmit")
           w == OutMap(T, s, types)
           Q == AtIn(T, s, place)
           v == PocketMap(T, s, place)
<1>1. w \in [Threads -> Nat] /\ v \in [Threads -> Nat]
  BY MapTypes
<1>2. Total(w) \in Nat /\ Total(v) \in Nat
  BY <1>1, ThreadsFinite, CellsFinite
<1>3. \A t \in Threads : T[t] \in GoodThreads
  OBVIOUS
<1>4. R \subseteq Threads /\ \A t \in Threads \ R : w[t] = 0
  BY <1>3, GoodThreadTypes DEF OutMap, AtIn
<1>5. [t \in R |-> Bytes(T[t].out, types)] = [t \in R |-> w[t]]
  BY DEF OutMap, AtIn
<1>6. Q \subseteq Threads /\ \A t \in Threads \ Q : v[t] = 0
  BY DEF PocketMap, Pocket, AtIn
<1>7. [t \in Q |-> T[t].n] = [t \in Q |-> v[t]]
  BY DEF PocketMap, Pocket, AtIn
<1>8. Total([t \in R |-> w[t]]) = Total(w)
  <2> HIDE DEF R, w
  <2> QED
    BY <1>1, <1>4, TotalSupport
<1>9. Total([t \in Q |-> v[t]]) = Total(v)
  <2> HIDE DEF Q, v
  <2> QED
    BY <1>1, <1>6, TotalSupport
<1> QED
  BY <1>2, <1>5, <1>7, <1>8, <1>9

\* Prepared and Carried are sums over all the threads.
LEMMA SumTypes ==
    ASSUME ThOK, NEW s, NEW types, NEW place
    PROVE  /\ Prepared(s, types) = Total(OutMap(th, s, types)) /\ Prepared(s, types) \in Nat
           /\ Carried(s, place) = Total(PocketMap(th, s, place)) /\ Carried(s, place) \in Nat
<1>1. th \in [Threads -> GoodThreads]
  BY DEF ThOK
<1>2. /\ Total([t \in AtIn(th, s, "transmit") |-> Bytes(th[t].out, types)])
            = Total(OutMap(th, s, types))
      /\ Total([t \in AtIn(th, s, place) |-> th[t].n])
            = Total(PocketMap(th, s, place))
      /\ Total(OutMap(th, s, types)) \in Nat
      /\ Total(PocketMap(th, s, place)) \in Nat
  BY <1>1, SumsAre
<1>3. /\ Prepared(s, types)
            = Total([t \in AtIn(th, s, "transmit") |-> Bytes(th[t].out, types)])
      /\ Carried(s, place)
            = Total([t \in AtIn(th, s, place) |-> th[t].n])
  <2>1. \A p : ThreadsAt(s, p) = AtIn(th, s, p)
    BY DEF ThreadsAt, AtIn
  <2> QED
    BY <2>1 DEF Prepared, Carried
<1> QED
  BY <1>2, <1>3

\* The same after a step.
LEMMA SumTypesNext ==
    ASSUME ThOK', NEW s, NEW types, NEW place
    PROVE  /\ Prepared(s, types)' = Total(OutMap(th', s, types)) /\ Prepared(s, types)' \in Nat
           /\ Carried(s, place)' = Total(PocketMap(th', s, place)) /\ Carried(s, place)' \in Nat
<1>1. th' \in [Threads -> GoodThreads]
  BY DEF ThOK
<1>2. /\ Total([t \in AtIn(th', s, "transmit") |-> Bytes(th'[t].out, types)])
            = Total(OutMap(th', s, types))
      /\ Total([t \in AtIn(th', s, place) |-> th'[t].n])
            = Total(PocketMap(th', s, place))
      /\ Total(OutMap(th', s, types)) \in Nat
      /\ Total(PocketMap(th', s, place)) \in Nat
  BY <1>1, SumsAre
<1>3. /\ Prepared(s, types)'
            = Total([t \in AtIn(th', s, "transmit") |-> Bytes(th'[t].out, types)])
      /\ Carried(s, place)'
            = Total([t \in AtIn(th', s, place) |-> th'[t].n])
  <2>1. \A p : ThreadsAt(s, p)' = AtIn(th', s, p)
    BY DEF ThreadsAt, AtIn
  <2> QED
    BY <2>1 DEF Prepared, Carried
<1> QED
  BY <1>2, <1>3

\* The step is one of thread t: the other threads are woken at most.
Others(t) ==
    \A s \in Threads \ {t} :
        /\ th'[s].out = th[s].out /\ th'[s].n = th[s].n
        /\ th'[s].pc = th[s].pc \/ (th[s].pc = "sendwait" /\ th'[s].pc = "sendwoken")

\* A step of one thread changes the sums of its side by what it changes itself.
LEMMA ThreadStep ==
    ASSUME ThOK, ThOK', NEW t \in Threads, Others(t), NEW s \in Sides, NEW types, NEW place \in Pockets
    PROVE  /\ Prepared(s, types)' =
                 IF Home(t) = s THEN Prepared(s, types) - Bytes(th[t].out, types) + Bytes(th'[t].out, types)
                                ELSE Prepared(s, types)
           /\ Carried(s, place)' =
                 IF Home(t) = s THEN Carried(s, place) - Pocket(th[t], place) + Pocket(th'[t], place)
                                ELSE Carried(s, place)
<1> DEFINE w == OutMap(th, s, types)
           w2 == OutMap(th', s, types)
           v == PocketMap(th, s, place)
           v2 == PocketMap(th', s, place)
<1>1. /\ w \in [Threads -> Nat] /\ w2 \in [Threads -> Nat]
      /\ v \in [Threads -> Nat] /\ v2 \in [Threads -> Nat]
  BY MapTypes DEF ThOK
<1>2. \A x \in Threads \ {t} : w2[x] = w[x]
  BY DEF OutMap, Others
<1>3. \A x \in Threads \ {t} : v2[x] = v[x]
  BY DEF PocketMap, Pocket, Others, Pockets
<1>4. w[t] = (IF Home(t) = s THEN Bytes(th[t].out, types) ELSE 0)
      /\ w2[t] = (IF Home(t) = s THEN Bytes(th'[t].out, types) ELSE 0)
  BY DEF OutMap
<1>5. v[t] = (IF Home(t) = s THEN Pocket(th[t], place) ELSE 0)
      /\ v2[t] = (IF Home(t) = s THEN Pocket(th'[t], place) ELSE 0)
  BY DEF PocketMap
<1>6. /\ Prepared(s, types) = Total(w) /\ Prepared(s, types)' = Total(w2) /\ Total(w) \in Nat
      /\ Carried(s, place) = Total(v) /\ Carried(s, place)' = Total(v2) /\ Total(v) \in Nat
  BY SumTypes, SumTypesNext
<1> HIDE DEF w, w2, v, v2
<1>7. Total(w2) = Total(w) - w[t] + w2[t] /\ Total(v2) = Total(v) - v[t] + v2[t]
  BY <1>1, <1>2, <1>3, ThreadsFinite, TotalChange
<1> QED
  BY <1>4, <1>5, <1>6, <1>7

-----------------------------------------------------------------------------
(* The steps of FlowControl, for the direction of the data that d sends     *)

Shifts(from, fromNext, to, toNext) ==
    \E k \in Nat : fromNext = from - k /\ toNext = to + k /\ k <= from

SameCredit(d) == ch'[d].outWindow = ch[d].outWindow
SameFlight(d) == Flight(d)' = Flight(d)
SameHeld(d) == Held(d)' = Held(d)
SameTaken(d) == Taken(d)' = Taken(d)
SameReturning(d) == Returning(d)' = Returning(d)

\* Something is lost.
Loses(d) ==
    \/ /\ Flight(d)' \in 0 .. Flight(d)
       /\ SameCredit(d) /\ SameHeld(d) /\ SameTaken(d) /\ SameReturning(d)
    \/ /\ Taken(d)' \in 0 .. Taken(d)
       /\ SameCredit(d) /\ SameFlight(d) /\ SameHeld(d) /\ SameReturning(d)
    \/ /\ Returning(d)' \in 0 .. Returning(d)
       /\ SameCredit(d) /\ SameFlight(d) /\ SameHeld(d) /\ SameTaken(d)

\* Nothing is lost.
Keeps(d) ==
    \/ /\ Shifts(ch[d].outWindow, ch'[d].outWindow, Flight(d), Flight(d)')
       /\ SameHeld(d) /\ SameTaken(d) /\ SameReturning(d)
    \/ /\ Shifts(Flight(d), Flight(d)', Held(d), Held(d)')
       /\ SameCredit(d) /\ SameTaken(d) /\ SameReturning(d)
    \/ /\ Shifts(Held(d), Held(d)', Taken(d), Taken(d)')
       /\ SameCredit(d) /\ SameFlight(d) /\ SameReturning(d)
    \/ /\ Shifts(Taken(d), Taken(d)', Returning(d), Returning(d)')
       /\ SameCredit(d) /\ SameFlight(d) /\ SameHeld(d)
    \/ /\ Shifts(Returning(d), Returning(d)', ch[d].outWindow, ch'[d].outWindow)
       /\ SameFlight(d) /\ SameHeld(d) /\ SameTaken(d)

\* The five places hold numbers of bytes.
Counted(d) ==
    /\ ch[d].outWindow \in Nat /\ Flight(d) \in Nat /\ Held(d) \in Nat
    /\ Taken(d) \in Nat /\ Returning(d) \in Nat

\* What a transport thread is about to feed.
LEMMA FedType ==
    ASSUME ThOK, NEW s \in Sides
    PROVE  Fed(s) \in Nat /\ Fed(s) = Pocket(th[s], "feed")
<1>1. th[s] \in GoodThreads
  BY HomeFacts DEF ThOK
<1> QED
  BY <1>1, GoodThreadTypes DEF Fed, Pocket

\* Every term of the mapping is a number.
LEMMA CountedAlways == Typed => \A d \in Sides : Counted(d)
<1> SUFFICES ASSUME Typed, NEW d \in Sides PROVE Counted(d)
  OBVIOUS
<1>1. Peer(d) \in Sides /\ ThOK /\ ch[d] \in ChannelStates /\ ch[Peer(d)] \in ChannelStates
  BY PeerFacts DEF Typed, ChOK
<1>2. wire[d] \in Seq(Messages) /\ wire[Peer(d)] \in Seq(Messages)
  BY <1>1 DEF Typed, WireOK
<1>3. \A s \in Sides : \A types, place :
        Prepared(s, types) \in Nat /\ Carried(s, place) \in Nat /\ Fed(s) \in Nat
  BY <1>1, SumTypes, FedType
<1>4. \A types : Bytes(wire[d], types) \in Nat /\ Bytes(wire[Peer(d)], types) \in Nat
  BY <1>2, BytesAre
<1>5. /\ ch[d].outWindow \in Nat /\ ch[Peer(d)].inBuffer \in Nat /\ ch[Peer(d)].errBuffer \in Nat
      /\ ch[Peer(d)].inSofar \in Nat
  BY <1>1 DEF ChannelStates
<1> QED
  BY <1>1, <1>3, <1>4, <1>5 DEF Counted, Flight, Held, Taken, Returning, Outgoing

\* Such a step is one of the abstract specification.
LEMMA ToServerStep ==
    ASSUME Counted("client"), Counted("client")', Keeps("client") \/ Loses("client")
    PROVE  ToServer!Next
<1> DEFINE d == "client"
<1>1. Window \in Nat
  BY WindowAssumption
<1>2. InUse(d) = ch[d].outWindow + Flight(d) + Held(d) + Taken(d) + Returning(d)
      /\ InUse(d)' = ch'[d].outWindow + Flight(d)' + Held(d)' + Taken(d)' + Returning(d)'
  BY DEF InUse
<1>3. CASE /\ Shifts(ch[d].outWindow, ch'[d].outWindow, Flight(d), Flight(d)')
           /\ SameHeld(d) /\ SameTaken(d) /\ SameReturning(d)
  BY <1>1, <1>2, <1>3 DEF Counted, Shifts, SameHeld, SameTaken, SameReturning, ToServer!Next, ToServer!Transmit, ToServer!Moves
<1>4. CASE /\ Shifts(Flight(d), Flight(d)', Held(d), Held(d)')
           /\ SameCredit(d) /\ SameTaken(d) /\ SameReturning(d)
  BY <1>1, <1>2, <1>4 DEF Counted, Shifts, SameCredit, SameTaken, SameReturning, ToServer!Next, ToServer!Deliver, ToServer!Moves
<1>5. CASE /\ Shifts(Held(d), Held(d)', Taken(d), Taken(d)')
           /\ SameCredit(d) /\ SameFlight(d) /\ SameReturning(d)
  BY <1>1, <1>2, <1>5 DEF Counted, Shifts, SameCredit, SameFlight, SameReturning, ToServer!Next, ToServer!Take, ToServer!Moves
<1>6. CASE /\ Shifts(Taken(d), Taken(d)', Returning(d), Returning(d)')
           /\ SameCredit(d) /\ SameFlight(d) /\ SameHeld(d)
  BY <1>1, <1>2, <1>6 DEF Counted, Shifts, SameCredit, SameFlight, SameHeld, ToServer!Next, ToServer!GiveBack, ToServer!Moves
<1>7. CASE /\ Shifts(Returning(d), Returning(d)', ch[d].outWindow, ch'[d].outWindow)
           /\ SameFlight(d) /\ SameHeld(d) /\ SameTaken(d)
  BY <1>1, <1>2, <1>7 DEF Counted, Shifts, SameFlight, SameHeld, SameTaken, ToServer!Next, ToServer!Adjust, ToServer!Moves
<1>8. CASE Loses(d)
  BY <1>1, <1>2, <1>8 DEF Counted, Loses, SameCredit, SameFlight, SameHeld, SameTaken, SameReturning,
                      ToServer!Next, ToServer!Lose, ToServer!Moves
<1> QED
  BY <1>3, <1>4, <1>5, <1>6, <1>7, <1>8 DEF Keeps

\* The same from the server to the client.
LEMMA ToClientStep ==
    ASSUME Counted("server"), Counted("server")', Keeps("server") \/ Loses("server")
    PROVE  ToClient!Next
<1> DEFINE d == "server"
<1>1. Window \in Nat
  BY WindowAssumption
<1>2. InUse(d) = ch[d].outWindow + Flight(d) + Held(d) + Taken(d) + Returning(d)
      /\ InUse(d)' = ch'[d].outWindow + Flight(d)' + Held(d)' + Taken(d)' + Returning(d)'
  BY DEF InUse
<1>3. CASE /\ Shifts(ch[d].outWindow, ch'[d].outWindow, Flight(d), Flight(d)')
           /\ SameHeld(d) /\ SameTaken(d) /\ SameReturning(d)
  BY <1>1, <1>2, <1>3 DEF Counted, Shifts, SameHeld, SameTaken, SameReturning, ToClient!Next, ToClient!Transmit, ToClient!Moves
<1>4. CASE /\ Shifts(Flight(d), Flight(d)', Held(d), Held(d)')
           /\ SameCredit(d) /\ SameTaken(d) /\ SameReturning(d)
  BY <1>1, <1>2, <1>4 DEF Counted, Shifts, SameCredit, SameTaken, SameReturning, ToClient!Next, ToClient!Deliver, ToClient!Moves
<1>5. CASE /\ Shifts(Held(d), Held(d)', Taken(d), Taken(d)')
           /\ SameCredit(d) /\ SameFlight(d) /\ SameReturning(d)
  BY <1>1, <1>2, <1>5 DEF Counted, Shifts, SameCredit, SameFlight, SameReturning, ToClient!Next, ToClient!Take, ToClient!Moves
<1>6. CASE /\ Shifts(Taken(d), Taken(d)', Returning(d), Returning(d)')
           /\ SameCredit(d) /\ SameFlight(d) /\ SameHeld(d)
  BY <1>1, <1>2, <1>6 DEF Counted, Shifts, SameCredit, SameFlight, SameHeld, ToClient!Next, ToClient!GiveBack, ToClient!Moves
<1>7. CASE /\ Shifts(Returning(d), Returning(d)', ch[d].outWindow, ch'[d].outWindow)
           /\ SameFlight(d) /\ SameHeld(d) /\ SameTaken(d)
  BY <1>1, <1>2, <1>7 DEF Counted, Shifts, SameFlight, SameHeld, SameTaken, ToClient!Next, ToClient!Adjust, ToClient!Moves
<1>8. CASE Loses(d)
  BY <1>1, <1>2, <1>8 DEF Counted, Loses, SameCredit, SameFlight, SameHeld, SameTaken, SameReturning,
                      ToClient!Next, ToClient!Lose, ToClient!Moves
<1> QED
  BY <1>3, <1>4, <1>5, <1>6, <1>7, <1>8 DEF Keeps

-----------------------------------------------------------------------------
(* What a step of one thread does to the bytes of both directions           *)

\* The numbers that a step of thread t at side h, with peer p, can change.
Amounts(t, h, p) ==
    /\ \A s \in {h, p}, types \in Streams : Bytes(wire[s], types) \in Nat /\ Bytes(wire'[s], types) \in Nat
    /\ \A s \in {h, p} :
          /\ ch[s].outWindow \in Nat /\ ch[s].inBuffer \in Nat /\ ch[s].errBuffer \in Nat /\ ch[s].inSofar \in Nat
          /\ ch'[s].outWindow \in Nat /\ ch'[s].inBuffer \in Nat /\ ch'[s].errBuffer \in Nat /\ ch'[s].inSofar \in Nat
    /\ \A types \in Streams : Bytes(th[t].out, types) \in Nat /\ Bytes(th'[t].out, types) \in Nat
    /\ \A place : Pocket(th[t], place) \in Nat /\ Pocket(th'[t], place) \in Nat
    /\ Counted(h) /\ Counted(p)

\* Only a transport thread feeds.
Feeding(t, x) == IF t \in Sides THEN Pocket(x, "feed") ELSE 0

Ledger(t, h, p) ==
    /\ Flight(h)' = Flight(h) - Bytes(th[t].out, Data) + Bytes(th'[t].out, Data)
                              - Bytes(wire[h], Data) + Bytes(wire'[h], Data)
    /\ Held(h)' = Held(h) - ch[p].inBuffer - ch[p].errBuffer + ch'[p].inBuffer + ch'[p].errBuffer
    /\ Taken(h)' = Taken(h) - ch[p].inSofar + ch'[p].inSofar
    /\ Returning(h)' = Returning(h) - Bytes(wire[p], Updates) + Bytes(wire'[p], Updates)
    /\ Flight(p)' = Flight(p) - Bytes(wire[p], Data) + Bytes(wire'[p], Data)
                              - Feeding(t, th[t]) + Feeding(t, th'[t])
    /\ Held(p)' = Held(p) - ch[h].inBuffer - ch[h].errBuffer + ch'[h].inBuffer + ch'[h].errBuffer
                          - Pocket(th[t], "refeed") + Pocket(th'[t], "refeed")
    /\ Taken(p)' = Taken(p) - ch[h].inSofar + ch'[h].inSofar
                            - Pocket(th[t], "credit") + Pocket(th'[t], "credit")
    /\ Returning(p)' = Returning(p) - Bytes(th[t].out, Updates) + Bytes(th'[t].out, Updates)
                                    - Bytes(wire[h], Updates) + Bytes(wire'[h], Updates)

\* The two ends, seen from a thread.
LEMMA SidesFacts ==
    ASSUME NEW t \in Threads, NEW h, h = Home(t), NEW p, p = Peer(h)
    PROVE  /\ h \in Sides /\ p \in Sides /\ p # h /\ Peer(h) = p /\ Peer(p) = h
           /\ \A d \in Sides : d = h \/ d = p
<1>1. h \in Sides
  BY HomeFacts
<1> QED
  BY <1>1, PeerFacts DEF Sides, Peer

\* What a step moves is made of numbers.
LEMMA AmountTypes ==
    ASSUME Typed, Typed', NEW t \in Threads, NEW h, h = Home(t), NEW p, p = Peer(h)
    PROVE  Amounts(t, h, p)
<1>1. h \in Sides /\ p \in Sides
  BY SidesFacts
<1>2. \A s \in {h, p} : /\ wire[s] \in Seq(Messages) /\ wire'[s] \in Seq(Messages)
                        /\ ch[s] \in ChannelStates /\ ch'[s] \in ChannelStates
  BY <1>1 DEF Typed, WireOK, ChOK
<1>3. th[t] \in GoodThreads /\ th'[t] \in GoodThreads
  BY DEF Typed, ThOK
<1>4. \A s \in {h, p}, types \in Streams : Bytes(wire[s], types) \in Nat /\ Bytes(wire'[s], types) \in Nat
  BY <1>2, BytesAre
<1>5. \A s \in {h, p} :
          /\ ch[s].outWindow \in Nat /\ ch[s].inBuffer \in Nat /\ ch[s].errBuffer \in Nat /\ ch[s].inSofar \in Nat
          /\ ch'[s].outWindow \in Nat /\ ch'[s].inBuffer \in Nat /\ ch'[s].errBuffer \in Nat /\ ch'[s].inSofar \in Nat
  BY <1>2 DEF ChannelStates
<1>6. \A types : Bytes(th[t].out, types) \in Nat /\ Bytes(th'[t].out, types) \in Nat
  BY <1>3, GoodThreadTypes
<1>7. \A place : Pocket(th[t], place) \in Nat /\ Pocket(th'[t], place) \in Nat
  BY <1>3, GoodThreadTypes
<1>8. Counted(h) /\ Counted(p)
  BY <1>1, CountedAlways
<1> QED
  BY <1>4, <1>5, <1>6, <1>7, <1>8 DEF Amounts

\* When no other thread changes what it holds, the sums of ChannelFlow change by
\* what the thread that runs takes up or gives away.
LEMMA LedgerHolds ==
    ASSUME Typed, Typed', NEW t \in Threads, Others(t), NEW h, h = Home(t), NEW p, p = Peer(h)
    PROVE  Ledger(t, h, p)
<1>1. h \in Sides /\ p \in Sides /\ p # h /\ Peer(h) = p /\ Peer(p) = h /\ ThOK /\ ThOK'
  BY SidesFacts DEF Typed
<1>2. Amounts(t, h, p)
  BY AmountTypes
<1>3. /\ \A types : /\ Prepared(h, types)' = Prepared(h, types) - Bytes(th[t].out, types) + Bytes(th'[t].out, types)
                    /\ Prepared(p, types)' = Prepared(p, types)
      /\ \A place \in Pockets :
            /\ Carried(h, place)' = Carried(h, place) - Pocket(th[t], place) + Pocket(th'[t], place)
            /\ Carried(p, place)' = Carried(p, place)
  BY <1>1, ThreadStep DEF Pockets
<1>4. \A s \in Sides : \A types, place :
        Prepared(s, types) \in Nat /\ Carried(s, place) \in Nat /\ Fed(s) \in Nat
  BY <1>1, SumTypes, FedType
<1>5. Fed(p)' = Fed(p)
  <2>1. p \in Threads \ {t}
    BY <1>1, HomeFacts
  <2> QED
    BY <2>1 DEF Others, Fed
<1>6. Fed(h)' = Fed(h) - Feeding(t, th[t]) + Feeding(t, th'[t])
  <2>1. CASE t \in Sides
    <3>1. t = h
      BY <2>1, HomeFacts
    <3> QED
      BY <1>1, <1>2, <2>1, <3>1 DEF Feeding, Fed, Pocket, Amounts
  <2>2. CASE t \notin Sides
    <3>1. h \in Threads \ {t}
      BY <1>1, <2>2, HomeFacts
    <3>2. Fed(h)' = Fed(h)
      BY <3>1 DEF Others, Fed
    <3> QED
      BY <1>1, <1>4, <2>2, <3>2 DEF Feeding
  <2> QED
    BY <2>1, <2>2
<1>7. Feeding(t, th[t]) \in Nat /\ Feeding(t, th'[t]) \in Nat
  BY <1>2 DEF Feeding, Amounts
<1>8. Data \in Streams /\ Updates \in Streams /\ "refeed" \in Pockets /\ "credit" \in Pockets
  BY DEF Streams, Pockets
<1>9. /\ Flight(h) = Prepared(h, Data) + Bytes(wire[h], Data) + Fed(p)
      /\ Flight(h)' = Prepared(h, Data)' + Bytes(wire'[h], Data) + Fed(p)'
      /\ Flight(p) = Prepared(p, Data) + Bytes(wire[p], Data) + Fed(h)
      /\ Flight(p)' = Prepared(p, Data)' + Bytes(wire'[p], Data) + Fed(h)'
  BY <1>1 DEF Flight, Outgoing, Data
<1>10. /\ Returning(h) = Prepared(p, Updates) + Bytes(wire[p], Updates)
       /\ Returning(h)' = Prepared(p, Updates)' + Bytes(wire'[p], Updates)
       /\ Returning(p) = Prepared(h, Updates) + Bytes(wire[h], Updates)
       /\ Returning(p)' = Prepared(h, Updates)' + Bytes(wire'[h], Updates)
  BY <1>1 DEF Returning, Outgoing, Updates
<1>11. /\ Held(h) = ch[p].inBuffer + ch[p].errBuffer + Carried(p, "refeed")
       /\ Held(h)' = ch'[p].inBuffer + ch'[p].errBuffer + Carried(p, "refeed")'
       /\ Held(p) = ch[h].inBuffer + ch[h].errBuffer + Carried(h, "refeed")
       /\ Held(p)' = ch'[h].inBuffer + ch'[h].errBuffer + Carried(h, "refeed")'
  BY <1>1 DEF Held
<1>12. /\ Taken(h) = ch[p].inSofar + Carried(p, "credit")
       /\ Taken(h)' = ch'[p].inSofar + Carried(p, "credit")'
       /\ Taken(p) = ch[h].inSofar + Carried(h, "credit")
       /\ Taken(p)' = ch'[h].inSofar + Carried(h, "credit")'
  BY <1>1 DEF Taken
<1> HIDE DEF Data, Updates
<1>13. /\ Flight(h)' = Flight(h) - Bytes(th[t].out, Data) + Bytes(th'[t].out, Data)
                                - Bytes(wire[h], Data) + Bytes(wire'[h], Data)
       /\ Flight(p)' = Flight(p) - Bytes(wire[p], Data) + Bytes(wire'[p], Data)
                                 - Feeding(t, th[t]) + Feeding(t, th'[t])
  BY <1>1, <1>2, <1>3, <1>4, <1>5, <1>6, <1>7, <1>8, <1>9 DEF Amounts
<1>14. /\ Returning(h)' = Returning(h) - Bytes(wire[p], Updates) + Bytes(wire'[p], Updates)
       /\ Returning(p)' = Returning(p) - Bytes(th[t].out, Updates) + Bytes(th'[t].out, Updates)
                                       - Bytes(wire[h], Updates) + Bytes(wire'[h], Updates)
  BY <1>1, <1>2, <1>3, <1>4, <1>8, <1>10 DEF Amounts
<1>15. /\ Held(h)' = Held(h) - ch[p].inBuffer - ch[p].errBuffer + ch'[p].inBuffer + ch'[p].errBuffer
       /\ Held(p)' = Held(p) - ch[h].inBuffer - ch[h].errBuffer + ch'[h].inBuffer + ch'[h].errBuffer
                             - Pocket(th[t], "refeed") + Pocket(th'[t], "refeed")
  <2>1. /\ ch[h].inBuffer \in Nat /\ ch[h].errBuffer \in Nat /\ ch'[h].inBuffer \in Nat /\ ch'[h].errBuffer \in Nat
        /\ ch[p].inBuffer \in Nat /\ ch[p].errBuffer \in Nat /\ ch'[p].inBuffer \in Nat /\ ch'[p].errBuffer \in Nat
    BY <1>2 DEF Amounts
  <2>2. /\ Carried(h, "refeed")' = Carried(h, "refeed") - Pocket(th[t], "refeed") + Pocket(th'[t], "refeed")
        /\ Carried(p, "refeed")' = Carried(p, "refeed")
    BY <1>3, <1>8
  <2>3. /\ Carried(h, "refeed") \in Nat /\ Carried(p, "refeed") \in Nat
        /\ Pocket(th[t], "refeed") \in Nat /\ Pocket(th'[t], "refeed") \in Nat
    BY <1>1, <1>2, <1>4 DEF Amounts
  <2> QED
    BY <2>1, <2>2, <2>3, <1>11
<1>16. /\ Taken(h)' = Taken(h) - ch[p].inSofar + ch'[p].inSofar
       /\ Taken(p)' = Taken(p) - ch[h].inSofar + ch'[h].inSofar
                               - Pocket(th[t], "credit") + Pocket(th'[t], "credit")
  BY <1>1, <1>2, <1>3, <1>4, <1>8, <1>12 DEF Amounts
<1> QED
  BY <1>13, <1>14, <1>15, <1>16 DEF Ledger

-----------------------------------------------------------------------------
(* Quiet steps, which move no bytes                                         *)

\* The fields of a channel that count bytes.
SameFields(s) ==
    /\ ch'[s].outWindow = ch[s].outWindow /\ ch'[s].inSofar = ch[s].inSofar
    /\ ch'[s].inBuffer = ch[s].inBuffer /\ ch'[s].errBuffer = ch[s].errBuffer

SameWires == \A s \in Sides, types \in Streams : Bytes(wire'[s], types) = Bytes(wire[s], types)

\* Messages that carry no bytes.
Plain(messages) == \A i \in DOMAIN messages : messages[i].type \notin {"data", "ext", "adjust"}

\* Messages of other types carry no bytes of these.
LEMMA BytesNone ==
    ASSUME NEW q \in Seq(Messages), NEW types, \A i \in DOMAIN q : q[i].type \notin types
    PROVE  Bytes(q, types) = 0
<1> DEFINE w == [i \in DOMAIN q |-> Size(q[i], types)]
<1>1. w \in [1 .. Len(q) -> Nat] /\ DOMAIN q = 1 .. Len(q)
  BY BytesAre, LenProperties
<1>2. \A i \in 1 .. Len(q) : w[i] = 0
  BY <1>1 DEF Size
<1> HIDE DEF w
<1>3. Cells(w) = {}
  <2>1. \A i \in 1 .. Len(q) : 1 .. w[i] = {}
    BY <1>2
  <2> QED
    BY <1>1, <2>1, CellsAre
<1> QED
  BY <1>3, FS_EmptySet DEF Bytes, Total, w

\* Messages that are neither data nor adjusts move no bytes.
LEMMA PlainBytes ==
    ASSUME NEW q \in Seq(Messages), Plain(q), NEW types \in Streams
    PROVE  Bytes(q, types) = 0
<1>1. \A i \in DOMAIN q : q[i].type \notin types
  BY DEF Plain, Streams, Data, Updates
<1> QED
  BY <1>1, BytesNone

\* No message, or one that is neither data nor an adjust, is plain.
LEMMA PlainOne ==
    /\ Plain(<<>>)
    /\ \A m : m.type \notin {"data", "ext", "adjust"} => Plain(<<m>>)
  BY DEF Plain

\* Nothing moves.
LEMMA StillKeeps ==
    ASSUME NEW d \in Sides, Counted(d),
           SameCredit(d), SameFlight(d), SameHeld(d), SameTaken(d), SameReturning(d)
    PROVE  Keeps(d)
<1>1. Shifts(ch[d].outWindow, ch'[d].outWindow, Flight(d), Flight(d)')
  <2>1. /\ 0 \in Nat /\ ch'[d].outWindow = ch[d].outWindow - 0 /\ Flight(d)' = Flight(d) + 0
        /\ 0 <= ch[d].outWindow
    BY DEF Counted, SameCredit, SameFlight
  <2> QED
    BY <2>1 DEF Shifts
<1> QED
  BY <1>1 DEF Keeps

\* Thread t moves none.
Quiet(t) ==
    /\ Others(t)
    /\ th[t].pc \notin {"transmit", "refeed", "credit", "feed"}
    /\ th'[t].pc \notin {"refeed", "credit", "feed"}
    /\ Plain(th'[t].out)
    /\ \A s \in Sides : SameFields(s)

\* A thread that takes a quiet step holds no bytes before or after it.
LEMMA QuietThread ==
    ASSUME Typed, Typed', NEW t \in Threads, Quiet(t)
    PROVE  /\ \A types \in Streams : Bytes(th[t].out, types) = 0 /\ Bytes(th'[t].out, types) = 0
           /\ \A place \in {"refeed", "credit", "feed"} : Pocket(th[t], place) = 0 /\ Pocket(th'[t], place) = 0
<1>1. th[t] \in GoodThreads /\ th'[t] \in GoodThreads
  BY DEF Typed, ThOK
<1>2. \A types \in Streams : Bytes(th[t].out, types) = 0
  BY <1>1, GoodThreadTypes DEF Quiet
<1>3. \A types \in Streams : Bytes(th'[t].out, types) = 0
  <2>1. th'[t].out \in Seq(Messages)
    BY <1>1, GoodThreadTypes
  <2> QED
    BY <2>1, PlainBytes DEF Quiet
<1> QED
  BY <1>2, <1>3 DEF Quiet, Pocket

\* A quiet step that leaves the data on the wires alone moves nothing.
LEMMA QuietKeeps ==
    ASSUME Typed, Typed', NEW t \in Threads, Quiet(t), SameWires
    PROVE  \A d \in Sides : Keeps(d)
<1> DEFINE h == Home(t)
           p == Peer(h)
<1>1. /\ h \in Sides /\ p \in Sides /\ p # h /\ Peer(h) = p /\ Peer(p) = h
      /\ \A d \in Sides : d = h \/ d = p
  BY SidesFacts
<1>2. Amounts(t, h, p) /\ Ledger(t, h, p)
  BY AmountTypes, LedgerHolds DEF Quiet
<1>3. /\ \A types \in Streams : Bytes(th[t].out, types) = 0 /\ Bytes(th'[t].out, types) = 0
      /\ \A place \in {"refeed", "credit", "feed"} : Pocket(th[t], place) = 0 /\ Pocket(th'[t], place) = 0
  BY QuietThread
<1>4. Data \in Streams /\ Updates \in Streams
  BY DEF Streams
<1>5. Feeding(t, th[t]) = 0 /\ Feeding(t, th'[t]) = 0
  BY <1>3 DEF Feeding
<1> HIDE DEF h, p
<1>6. ASSUME NEW d \in Sides
      PROVE  SameCredit(d) /\ SameFlight(d) /\ SameHeld(d) /\ SameTaken(d) /\ SameReturning(d)
  <2>1. SameFields(h) /\ SameFields(p)
    BY <1>1 DEF Quiet
  <2>2. SameCredit(d)
    BY DEF Quiet, SameFields, SameCredit
  <2>3. SameFlight(d)
    BY <1>1, <1>2, <1>3, <1>4, <1>5 DEF Ledger, Amounts, Counted, SameFlight, SameWires
  <2>4. SameHeld(d)
    BY <1>1, <1>2, <1>3, <2>1 DEF Ledger, Amounts, Counted, SameHeld, SameFields
  <2>5. SameTaken(d)
    BY <1>1, <1>2, <1>3, <2>1 DEF Ledger, Amounts, Counted, SameTaken, SameFields
  <2>6. SameReturning(d)
    BY <1>1, <1>2, <1>3, <1>4 DEF Ledger, Amounts, Counted, SameReturning, SameWires
  <2> QED
    BY <2>2, <2>3, <2>4, <2>5, <2>6
<1>7. \A d \in Sides : Counted(d)
  BY <1>1, <1>2 DEF Amounts
<1> QED
  BY <1>6, <1>7, StillKeeps

Busy == {"transmit", "refeed", "credit", "feed"}

\* An assignment to one thread leaves the others alone.
LEMMA OthersReplaced ==
    ASSUME ThOK, NEW t \in Threads, NEW x, th' = [th EXCEPT ![t] = x]
    PROVE  Others(t) /\ th'[t] = x
  BY DEF ThOK, Others

\* Waking the senders of an end changes nothing of what they hold.
LEMMA OthersWoken ==
    ASSUME ThOK, NEW t \in Threads, NEW e \in Sides, NEW x, th' = [Wake(th, e) EXCEPT ![t] = x]
    PROVE  Others(t) /\ th'[t] = x
<1> DEFINE w == Wake(th, e)
<1>1. /\ w \in [Threads -> GoodThreads]
      /\ \A s \in Threads : /\ w[s].pc = IF th[s].pc = "sendwait" /\ Home(s) = e THEN "sendwoken" ELSE th[s].pc
                            /\ w[s].out = th[s].out /\ w[s].n = th[s].n
  BY WakeFacts
<1>2. th' = [w EXCEPT ![t] = x]
  OBVIOUS
<1> HIDE DEF w
<1> QED
  BY <1>1, <1>2 DEF Others

\* A thread that goes from a place where it holds nothing to another one.
LEMMA QuietByReplacement ==
    ASSUME ThOK, NEW t \in Threads, th[t].pc \notin Busy, NEW x,
           \/ th' = [th EXCEPT ![t] = x]
           \/ \E e \in Sides : th' = [Wake(th, e) EXCEPT ![t] = x],
           x.pc \notin {"refeed", "credit", "feed"}, Plain(x.out),
           \A s \in Sides : SameFields(s)
    PROVE  Quiet(t)
<1>1. Others(t) /\ th'[t] = x
  BY OthersReplaced, OthersWoken
<1> QED
  BY <1>1 DEF Quiet, Busy

\* A user enters a call, with messages to send or none.
LEMMA QuietEnter ==
    ASSUME Typed, NEW u \in Users, NEW method \in Methods, MayCall(u, method), NEW n \in Nat,
           NEW place \in Places \ Busy, th' = [th EXCEPT ![u] = Enter(u, method, n, place)],
           \A s \in Sides : SameFields(s)
    PROVE  Quiet(u)
<1> DEFINE x == Enter(u, method, n, place)
<1>1. u \in Threads /\ ThOK /\ th[u].pc = "idle" /\ place \in Places /\ place # "transmit"
  BY HomeFacts DEF Typed, MayCall, Busy
<1>2. x.pc = place /\ x.out = <<>>
  BY <1>1, EnterTypes
<1>3. th[u].pc \notin Busy /\ x.pc \notin {"refeed", "credit", "feed"} /\ Plain(x.out)
  BY <1>1, <1>2, PlainOne DEF Busy
<1> HIDE DEF x
<1> QED
  BY <1>1, <1>3, QuietByReplacement DEF x

\* So does a thread that goes on to send plain messages.
LEMMA QuietDispatch ==
    ASSUME Typed, NEW t \in Threads, th[t].pc \notin Busy,
           NEW x \in GoodThreads, x.pc \notin Busy, NEW messages \in Seq(Messages), Plain(messages),
           NEW place \in Resumptions,
           place = "reqwait" => Len(messages) = 1 /\ messages[1].type = "request",
           \/ th' = [th EXCEPT ![t] = Dispatch(x, messages, place)]
           \/ \E e \in Sides : th' = [Wake(th, e) EXCEPT ![t] = Dispatch(x, messages, place)],
           \A s \in Sides : SameFields(s)
    PROVE  Quiet(t)
<1> DEFINE y == Dispatch(x, messages, place)
<1>1. x.pc # "transmit" /\ ThOK
  BY DEF Busy, Typed
<1>2. y.out = messages /\ y.pc = IF messages = <<>> THEN place ELSE "transmit"
  BY <1>1, DispatchTypes
<1>3. y.pc \notin {"refeed", "credit", "feed"} /\ Plain(y.out)
  BY <1>2 DEF Resumptions
<1> HIDE DEF y
<1> QED
  BY <1>1, <1>3, QuietByReplacement DEF y

\* Closing and ending a stream prepare no bytes, and leave the counts.
LEMMA EndPlain ==
    ASSUME NEW c \in ChannelStates
    PROVE  /\ Plain(EofMessages(c)) /\ Plain(CloseMessages(c))
<1>1. \A i \in DOMAIN EofMessages(c) : EofMessages(c)[i].type = "eof"
  BY EndMessagesOnce
<1>2. \A i \in DOMAIN CloseMessages(c) : CloseMessages(c)[i].type \in {"eof", "close"}
  <2>1. Msg("eof", 0) \in Messages /\ Msg("close", 0) \in Messages
        /\ Msg("eof", 0).type = "eof" /\ Msg("close", 0).type = "close"
    BY MsgFacts DEF MsgTypes
  <2>2. /\ <<>> \o <<Msg("close", 0)>> = <<Msg("close", 0)>>
        /\ <<Msg("eof", 0)>> \o <<Msg("close", 0)>> = <<Msg("eof", 0), Msg("close", 0)>>
    BY <2>1, PairOf
  <2>3. CloseMessages(c) \in {<<>>, <<Msg("close", 0)>>, <<Msg("eof", 0), Msg("close", 0)>>}
    BY <2>2 DEF CloseMessages, EofMessages
  <2> QED
    BY <2>1, <2>3
<1> QED
  BY <1>1, <1>2 DEF Plain

\* Closing a channel changes neither its windows nor its buffers.
LEMMA CloseFields ==
    ASSUME NEW c \in ChannelStates
    PROVE  \A b \in {CloseInternal(c), [CloseInternal(c) EXCEPT !.linked = FALSE],
                     [SetClosed(c) EXCEPT !.linked = FALSE]} :
              /\ b.outWindow = c.outWindow /\ b.inSofar = c.inSofar
              /\ b.inBuffer = c.inBuffer /\ b.errBuffer = c.errBuffer
  BY DEF CloseInternal, SetClosed, ChannelStates

\* A channel replaced by one with the same windows and buffers.
LEMMA FieldsReplaced ==
    ASSUME ChOK, NEW e \in Sides, NEW b, ch' = [ch EXCEPT ![e] = b],
           b.outWindow = ch[e].outWindow, b.inSofar = ch[e].inSofar,
           b.inBuffer = ch[e].inBuffer, b.errBuffer = ch[e].errBuffer
    PROVE  \A s \in Sides : SameFields(s)
  BY DEF ChOK, SameFields

\* A channel left alone.
LEMMA FieldsUnchanged == ch' = ch => \A s \in Sides : SameFields(s)
  BY DEF SameFields

\* Wires left alone.
LEMMA WiresUnchanged == wire' = wire => SameWires
  BY DEF SameWires

\* Setting a flag of a channel leaves its counts.
LEMMA FieldsFlagged ==
    ASSUME ChOK, NEW e \in Sides, NEW b, NEW c,
           \/ ch' = [ch EXCEPT ![e].eofSent = b]
           \/ ch' = [ch EXCEPT ![e].eofReceived = b]
           \/ ch' = [ch EXCEPT ![e].status = b]
           \/ ch' = [ch EXCEPT ![e].eofReceived = b, ![e].bufClosed = c]
           \/ ch' = [ch EXCEPT ![e].event = b, ![e].eventReady = c]
    PROVE  \A s \in Sides : SameFields(s)
<1> SUFFICES ASSUME NEW s \in Sides PROVE SameFields(s)
  OBVIOUS
<1>1. ch[s] \in ChannelStates
  BY DEF ChOK
<1> QED
  BY <1>1 DEF ChOK, SameFields, ChannelStates

\* The calls that only begin.
LEMMA QuietCalls ==
    ASSUME Typed, NEW u \in Users,
           \/ \E n \in SendSizes, m \in Methods : CallSend(u, m, n)
           \/ \E n \in ReadSizes, m \in Methods : CallRecv(u, m, n)
           \/ CallRequest(u)
           \/ CallRecvExitStatus(u)
    PROVE  Quiet(u) /\ wire' = wire
<1>1. \A n \in SendSizes \cup ReadSizes : n \in Nat
  BY SizeAssumption
<1>2. {"send", "recv", "statwait", "reqpend", "idle"} \subseteq Places \ Busy
  BY DEF Places, Busy
<1>3. {"request", "recv_exit_status"} \subseteq Methods
  BY DEF Methods
<1>4. ASSUME NEW n \in SendSizes, NEW m \in Methods, CallSend(u, m, n) PROVE Quiet(u) /\ wire' = wire
  BY <1>1, <1>2, <1>4, FieldsUnchanged, QuietEnter DEF CallSend
<1>5. ASSUME NEW n \in ReadSizes, NEW m \in Methods, CallRecv(u, m, n) PROVE Quiet(u) /\ wire' = wire
  BY <1>1, <1>2, <1>5, FieldsUnchanged, QuietEnter DEF CallRecv
<1>6. CASE CallRequest(u)
  <2>1. PICK place \in {"reqpend", "idle"} : th' = [th EXCEPT ![u] = Enter(u, "request", 0, place)]
    BY <1>6 DEF CallRequest
  <2>2. place \in Places \ Busy /\ MayCall(u, "request") /\ "request" \in Methods
    BY <1>2, <1>3, <1>6 DEF CallRequest
  <2>3. ch' = ch /\ wire' = wire
    BY <1>6 DEF CallRequest
  <2> QED
    BY <2>1, <2>2, <2>3, FieldsUnchanged, QuietEnter
<1>7. CASE CallRecvExitStatus(u)
  BY <1>2, <1>3, <1>7, FieldsUnchanged, QuietEnter DEF CallRecvExitStatus
<1> QED
  BY <1>4, <1>5, <1>6, <1>7

\* A call that ends the channel or announces its exit status.
LEMMA QuietClose ==
    ASSUME Typed, NEW u \in Users, CallClose(u) \/ CallSendExitStatus(u)
    PROVE  Quiet(u) /\ wire' = wire
<1> DEFINE e == SideOf[u]
<1>1. u \in Threads /\ e \in Sides /\ ch[e] \in ChannelStates /\ ThOK /\ ChOK
  BY HomeFacts DEF Typed, ChOK
<1>2. "idle" \in Places /\ "idle" \in Resumptions /\ "idle" \notin Busy
  BY DEF Places, Resumptions, Busy
<1>3. ASSUME NEW method \in Methods, MayCall(u, method)
      PROVE  /\ Enter(u, method, 0, "idle") \in GoodThreads
             /\ Enter(u, method, 0, "idle").pc = "idle" /\ th[u].pc \notin Busy
  BY <1>1, <1>2, <1>3, EnterTypes DEF MayCall
<1>4. CASE CallClose(u)
  <2>1. /\ th' = [Wake(th, e) EXCEPT ![u] = Dispatch(Enter(u, "close", 0, "idle"), CloseMessages(ch[e]), "idle")]
        /\ ch' = [ch EXCEPT ![e] = CloseInternal(ch[e])] /\ wire' = wire /\ MayCall(u, "close")
    BY <1>4 DEF CallClose
  <2>2. CloseMessages(ch[e]) \in Seq(Messages) /\ Plain(CloseMessages(ch[e]))
    BY <1>1, EndMessages, EndPlain
  <2>3. \A s \in Sides : SameFields(s)
    BY <1>1, <2>1, CloseFields, FieldsReplaced
  <2>4. "close" \in Methods
    BY DEF Methods
  <2> DEFINE x == Enter(u, "close", 0, "idle")
             q == CloseMessages(ch[e])
  <2>5. x \in GoodThreads /\ x.pc \notin Busy /\ th[u].pc \notin Busy
    BY <1>2, <1>3, <2>1, <2>4
  <2>6. th' = [Wake(th, e) EXCEPT ![u] = Dispatch(x, q, "idle")]
    BY <2>1
  <2> HIDE DEF x, q
  <2>7. Quiet(u)
    BY <1>1, <1>2, <2>2, <2>3, <2>5, <2>6, QuietDispatch DEF q
  <2> QED
    BY <2>1, <2>7
<1>5. CASE CallSendExitStatus(u)
  <2> DEFINE x == Enter(u, "send_exit_status", 0, "idle")
             q == <<Msg("status", 0)>>
  <2>1. th' = [th EXCEPT ![u] = Dispatch(x, q, "idle")] /\ ch' = ch /\ wire' = wire /\ MayCall(u, "send_exit_status")
    BY <1>5 DEF CallSendExitStatus
  <2>2. q \in Seq(Messages) /\ Plain(q)
    <3>1. Msg("status", 0).type = "status" /\ q \in Seq(Messages)
      BY MsgFacts DEF MsgTypes
    <3> QED
      BY <3>1, PlainOne
  <2>3. "send_exit_status" \in Methods
    BY DEF Methods
  <2>4. x \in GoodThreads /\ x.pc \notin Busy /\ th[u].pc \notin Busy
    BY <1>2, <1>3, <2>1, <2>3
  <2> HIDE DEF x, q
  <2>5. Quiet(u)
    BY <1>1, <1>2, <2>1, <2>2, <2>4, FieldsUnchanged, QuietDispatch
  <2> QED
    BY <2>1, <2>5
<1> QED
  BY <1>4, <1>5

\* The write half of shutdown.
LEMMA QuietSendEof ==
    ASSUME Typed, NEW u \in Users, th[u].pc \notin Busy,
           NEW x \in GoodThreads, x.pc \notin Busy, SendEof(u, x)
    PROVE  Quiet(u) /\ wire' = wire
<1> DEFINE e == SideOf[u]
           q == EofMessages(ch[e])
<1>1. u \in Threads /\ e \in Sides /\ ch[e] \in ChannelStates /\ ChOK
  BY HomeFacts DEF Typed, ChOK
<1>2. th' = [th EXCEPT ![u] = Dispatch(x, q, "idle")] /\ ch' = [ch EXCEPT ![e].eofSent = TRUE] /\ wire' = wire
  BY DEF SendEof
<1>3. q \in Seq(Messages) /\ Plain(q)
  BY <1>1, EndMessages, EndPlain
<1>4. \A s \in Sides : SameFields(s)
  BY <1>1, <1>2, FieldsFlagged
<1>5. "idle" \in Resumptions
  BY DEF Resumptions
<1> HIDE DEF q
<1> QED
  BY <1>1, <1>2, <1>3, <1>4, <1>5, QuietDispatch

\* shutdown
LEMMA QuietShutdown ==
    ASSUME Typed, NEW u \in Users, (\E m \in Methods : CallShutdown(u, m)) \/ ShutdownWrite(u)
    PROVE  Quiet(u) /\ wire' = wire
<1>1. u \in Threads /\ SideOf[u] \in Sides /\ th[u] \in GoodThreads /\ ThOK /\ ChOK
  BY HomeFacts DEF Typed, ThOK
<1>2. {"idle", "shutwrite"} \subseteq Places \ Busy /\ "idle" # "transmit"
  BY DEF Places, Busy
<1>3. ASSUME NEW m \in Methods, CallShutdown(u, m) PROVE Quiet(u) /\ wire' = wire
  <2>1. th[u].pc = "idle" /\ MayCall(u, m)
    BY <1>3 DEF CallShutdown, MayCall
  <2>2. CASE SendEof(u, Enter(u, m, 0, "idle"))
    <3>1. Enter(u, m, 0, "idle") \in GoodThreads /\ Enter(u, m, 0, "idle").pc = "idle"
      BY <1>1, <1>2, <2>1, EnterTypes
    <3> QED
      BY <1>2, <2>1, <2>2, <3>1, QuietSendEof
  <2>3. CASE /\ ch' = [ch EXCEPT ![SideOf[u]].eofReceived = TRUE]
             /\ th' = [th EXCEPT ![u] = Enter(u, m, 0, IF m = "shutdown_both" THEN "shutwrite" ELSE "idle")]
             /\ UNCHANGED <<wire, up, sent>>
    <3>1. PICK place \in {"idle", "shutwrite"} : th' = [th EXCEPT ![u] = Enter(u, m, 0, place)]
      BY <2>3
    <3>2. place \in Places \ Busy
      BY <1>2
    <3>3. \A s \in Sides : SameFields(s)
      BY <1>1, <2>3, FieldsFlagged
    <3> QED
      BY <2>1, <2>3, <3>1, <3>2, <3>3, QuietEnter
  <2> QED
    BY <1>3, <2>2, <2>3 DEF CallShutdown
<1>4. CASE ShutdownWrite(u)
  <2>1. th[u].pc \notin Busy /\ SendEof(u, th[u])
    BY <1>4 DEF ShutdownWrite, Busy
  <2> QED
    BY <1>1, <2>1, QuietSendEof
<1> QED
  BY <1>3, <1>4

\* A thread that only moves, to a place where it carries nothing.
LEMMA QuietMove ==
    ASSUME Typed, NEW t \in Threads, th[t].pc \notin Busy, NEW place, place \notin Busy,
           th' = [th EXCEPT ![t].pc = place], \A s \in Sides : SameFields(s)
    PROVE  Quiet(t)
<1> DEFINE x == [th[t] EXCEPT !.pc = place]
<1>1. ThOK /\ th[t] \in GoodThreads /\ th[t].out = <<>>
  BY Empty DEF Typed, ThOK, Busy
<1>2. th' = [th EXCEPT ![t] = x]
  BY <1>1 DEF ThOK
<1>3. x.pc = place /\ x.out = <<>>
  BY <1>1 DEF GoodThreads, ThreadStates
<1>4. x.pc \notin {"refeed", "credit", "feed"} /\ Plain(x.out)
  BY <1>3, PlainOne DEF Busy
<1> HIDE DEF x
<1> QED
  BY <1>1, <1>2, <1>4, QuietByReplacement

\* The waits that end, and a request that goes out.
LEMMA QuietRuns ==
    ASSUME Typed, NEW u \in Users,
           TimesOut(u) \/ WaitForEvent(u) \/ RecvExitStatus(u) \/ EventPending(u)
    PROVE  Quiet(u) /\ wire' = wire
<1>1. u \in Threads /\ SideOf[u] \in Sides /\ th[u] \in GoodThreads /\ ThOK /\ ChOK
  BY HomeFacts DEF Typed, ThOK
<1>2. CASE TimesOut(u) \/ WaitForEvent(u) \/ RecvExitStatus(u)
  <2>1. th[u].pc \notin Busy /\ "idle" \notin Busy
    BY <1>2 DEF TimesOut, WaitForEvent, RecvExitStatus, Busy
  <2>2. th' = [th EXCEPT ![u].pc = "idle"] /\ ch' = ch /\ wire' = wire
    BY <1>2 DEF TimesOut, WaitForEvent, RecvExitStatus
  <2> QED
    BY <1>1, <2>1, <2>2, FieldsUnchanged, QuietMove
<1>3. CASE EventPending(u)
  <2> DEFINE q == <<Msg("request", 0)>>
  <2>1. /\ th' = [th EXCEPT ![u] = Dispatch(th[u], q, "reqwait")] /\ wire' = wire
        /\ ch' = [ch EXCEPT ![SideOf[u]].event = FALSE, ![SideOf[u]].eventReady = FALSE]
    BY <1>3 DEF EventPending
  <2>2. Msg("request", 0).type = "request" /\ q \in Seq(Messages) /\ Len(q) = 1 /\ q[1].type = "request"
    BY MsgFacts DEF MsgTypes
  <2>3. Plain(q)
    BY <2>2, PlainOne
  <2>4. \A s \in Sides : SameFields(s)
    BY <1>1, <2>1, FieldsFlagged
  <2>5. th[u].pc \notin Busy /\ "reqwait" \in Resumptions
    BY <1>3 DEF EventPending, Busy, Resumptions
  <2> HIDE DEF q
  <2> QED
    BY <1>1, <2>1, <2>2, <2>3, <2>4, <2>5, QuietDispatch
<1> QED
  BY <1>2, <1>3

\* A send that allocates nothing: it raises, returns 0 or waits.
LEMMA QuietSends ==
    ASSUME Typed, NEW u \in Users, Send(u) \/ SendResumes(u)
    PROVE  (Quiet(u) \/ (Allocate(u) /\ ch[SideOf[u]].outWindow > 0 /\ th[u].pc \notin Busy)) /\ wire' = wire
<1>1. u \in Threads /\ th[u].pc \notin Busy /\ wire' = wire
  BY HomeFacts DEF Send, SendResumes, Busy
<1>2. CASE Allocate(u) /\ ch[SideOf[u]].outWindow > 0
  BY <1>1, <1>2
<1>3. CASE ch' = ch /\ \E place \in {"idle", "send", "sendwait"} : th' = [th EXCEPT ![u].pc = place]
  <2>1. PICK place \in {"idle", "send", "sendwait"} : th' = [th EXCEPT ![u].pc = place]
    BY <1>3
  <2>2. place \notin Busy
    BY DEF Busy
  <2> QED
    BY <1>1, <1>3, <2>1, <2>2, FieldsUnchanged, QuietMove
<1>4. SentNothing(u) => ch' = ch /\ \E place \in {"idle", "send", "sendwait"} : th' = [th EXCEPT ![u].pc = place]
  BY DEF SentNothing
<1>5. SendBlocks(u) => ch' = ch /\ \E place \in {"idle", "send", "sendwait"} : th' = [th EXCEPT ![u].pc = place]
  BY DEF SendBlocks
<1> QED
  BY <1>2, <1>3, <1>4, <1>5 DEF Send, SendResumes

-----------------------------------------------------------------------------
(* A transport thread takes a message off the wire                          *)

\* What is left of the bytes on the two wires.
LEMMA Popped ==
    ASSUME Typed, NEW e \in Sides, NextMessage(e), NEW types
    PROVE  /\ Bytes(wire[Peer(e)], types) = Size(Head(wire[Peer(e)]), types) + Bytes(wire'[Peer(e)], types)
           /\ Bytes(wire'[e], types) = Bytes(wire[e], types)
           /\ Size(Head(wire[Peer(e)]), types) \in Nat
           /\ wire'[Peer(e)] \in Seq(Messages)
           /\ Head(wire[Peer(e)]) \in Messages
<1> DEFINE p == Peer(e)
<1>1. WireOK /\ p \in Sides /\ p # e
  BY PeerFacts DEF Typed
<1>2. wire[p] \in Seq(Messages) /\ wire[p] # <<>> /\ Head(wire[p]) \in Messages
      /\ wire' = [wire EXCEPT ![p] = Tail(wire[p])]
  BY <1>1, HeadFacts
<1>3. wire'[p] = Tail(wire[p]) /\ wire'[e] = wire[e] /\ Tail(wire[p]) \in Seq(Messages)
  BY <1>1, <1>2 DEF WireOK
<1>4. Bytes(wire[p], types) = Size(Head(wire[p]), types) + Bytes(Tail(wire[p]), types)
  BY <1>2, BytesTail
<1>5. Size(Head(wire[p]), types) \in Nat
  BY <1>2, SizeType
<1> QED
  BY <1>2, <1>3, <1>4, <1>5

\* A message that carries no bytes.
LEMMA PlainPopped ==
    ASSUME Typed, NEW e \in Sides, NextMessage(e),
           Head(wire[Peer(e)]).type \notin {"data", "ext", "adjust"}
    PROVE  SameWires
<1> SUFFICES ASSUME NEW s \in Sides, NEW types \in Streams
             PROVE  Bytes(wire'[s], types) = Bytes(wire[s], types)
  BY DEF SameWires
<1>1. s = e \/ s = Peer(e)
  BY DEF Sides, Peer
<1>2. Size(Head(wire[Peer(e)]), types) = 0
  BY DEF Size, Streams, Data, Updates
<1>3. Bytes(wire'[Peer(e)], types) \in Nat
  BY Popped, BytesAre
<1> QED
  BY <1>1, <1>2, <1>3, Popped

\* The handlers that move no bytes.
LEMMA QuietHandlers ==
    ASSUME Typed, NEW e \in Sides,
           \/ HandleEof(e) \/ HandleClose(e) \/ HandleRequest(e)
           \/ RequestSuccess(e) \/ RequestFailed(e) \/ HandleExitStatus(e)
    PROVE  Quiet(e) /\ SameWires
<1>1. e \in Threads /\ th[e] \in GoodThreads /\ ThOK /\ ChOK /\ ch[e] \in ChannelStates
  BY HomeFacts DEF Typed, ThOK, ChOK
<1>2. /\ NextMessage(e) /\ th[e].pc \notin Busy /\ th[e].pc \notin {"refeed", "credit", "feed"}
      /\ Head(wire[Peer(e)]).type \notin {"data", "ext", "adjust"}
  BY DEF HandleEof, HandleClose, HandleRequest, RequestSuccess, RequestFailed, HandleExitStatus,
         Incoming, NextMessage, Busy
<1>3. SameWires
  BY <1>2, PlainPopped
<1>4. th[e].out = <<>>
  BY <1>1, <1>2, Empty DEF Busy
<1>5. "idle" \in Resumptions
  BY DEF Resumptions
<1>6. CASE HandleEof(e) \/ RequestSuccess(e) \/ HandleExitStatus(e)
  <2>1. th' = th
    BY <1>6 DEF HandleEof, RequestSuccess, HandleExitStatus
  <2>2. \A s \in Sides : SameFields(s)
    <3>1. \/ ch' = ch \/ ch' = [ch EXCEPT ![e].eofReceived = TRUE, ![e].bufClosed = TRUE]
          \/ ch' = [ch EXCEPT ![e].event = TRUE, ![e].eventReady = TRUE] \/ ch' = [ch EXCEPT ![e].status = TRUE]
      BY <1>6 DEF HandleEof, RequestSuccess, HandleExitStatus
    <3> QED
      BY <1>1, <3>1, FieldsUnchanged, FieldsFlagged
  <2>3. th' = [th EXCEPT ![e] = th[e]]
    BY <1>1, <2>1 DEF ThOK
  <2> QED
    BY <1>1, <1>2, <1>3, <1>4, <2>2, <2>3, PlainOne, QuietByReplacement
<1>7. CASE HandleClose(e) \/ RequestFailed(e)
  <2> DEFINE q == CloseMessages(ch[e])
  <2>1. th' = [Wake(th, e) EXCEPT ![e] = Dispatch(th[e], q, "idle")]
    <3>1. th' = [Wake(th, e) EXCEPT ![e] = Dispatch(Wake(th, e)[e], q, "idle")]
      BY <1>1, <1>7, WakeFacts DEF HandleClose, RequestFailed
    <3>2. Wake(th, e)[e] = th[e]
      <4>1. th[e].pc # "sendwait"
        BY <1>7 DEF HandleClose, RequestFailed, Incoming, NextMessage
      <4> QED
        BY <1>1, <4>1, WakeFacts
    <3> QED
      BY <3>1, <3>2
  <2>2. q \in Seq(Messages) /\ Plain(q)
    BY <1>1, EndMessages, EndPlain
  <2>3. \A s \in Sides : SameFields(s)
    <3>1. \/ ch' = [ch EXCEPT ![e] = CloseInternal(ch[e])]
          \/ ch' = [ch EXCEPT ![e] = [CloseInternal(ch[e]) EXCEPT !.linked = FALSE]]
      BY <1>7 DEF HandleClose, RequestFailed
    <3> QED
      BY <1>1, <3>1, CloseFields, FieldsReplaced
  <2> HIDE DEF q
  <2> QED
    BY <1>1, <1>2, <1>3, <1>5, <2>1, <2>2, <2>3, QuietDispatch
<1>8. CASE HandleRequest(e)
  <2>1. PICK answer \in {"success", "failure"} : th' = [th EXCEPT ![e] = Dispatch(th[e], <<Msg(answer, 0)>>, "idle")]
    BY <1>8 DEF HandleRequest
  <2> DEFINE q == <<Msg(answer, 0)>>
  <2>2. q \in Seq(Messages) /\ Msg(answer, 0).type = answer
    BY MsgFacts DEF MsgTypes
  <2>3. Plain(q)
    BY <2>2, PlainOne
  <2>4. \A s \in Sides : SameFields(s)
    BY <1>8, FieldsUnchanged DEF HandleRequest
  <2> HIDE DEF q
  <2> QED
    BY <1>1, <1>2, <1>3, <1>5, <2>1, <2>2, <2>3, <2>4, QuietDispatch DEF q
<1> QED
  BY <1>6, <1>7, <1>8

-----------------------------------------------------------------------------
(* Steps that move bytes from one place to the next                         *)

\* A step of thread t at side h: the types of all that the ledger is about.
LEMMA LedgerOf ==
    ASSUME Typed, Typed', NEW t \in Threads, Others(t), NEW h, h = Home(t), NEW p, p = Peer(h)
    PROVE  /\ Ledger(t, h, p)
           /\ Counted(h) /\ Counted(p)
           /\ Bytes(th[t].out, Data) \in Nat /\ Bytes(th'[t].out, Data) \in Nat
           /\ Bytes(th[t].out, Updates) \in Nat /\ Bytes(th'[t].out, Updates) \in Nat
           /\ Bytes(wire[h], Data) \in Nat /\ Bytes(wire'[h], Data) \in Nat
           /\ Bytes(wire[h], Updates) \in Nat /\ Bytes(wire'[h], Updates) \in Nat
           /\ Bytes(wire[p], Data) \in Nat /\ Bytes(wire'[p], Data) \in Nat
           /\ Bytes(wire[p], Updates) \in Nat /\ Bytes(wire'[p], Updates) \in Nat
           /\ ch[h].inBuffer \in Nat /\ ch[h].errBuffer \in Nat /\ ch[h].inSofar \in Nat /\ ch[h].outWindow \in Nat
           /\ ch[p].inBuffer \in Nat /\ ch[p].errBuffer \in Nat /\ ch[p].inSofar \in Nat /\ ch[p].outWindow \in Nat
           /\ Pocket(th[t], "refeed") \in Nat /\ Pocket(th'[t], "refeed") \in Nat
           /\ Pocket(th[t], "credit") \in Nat /\ Pocket(th'[t], "credit") \in Nat
           /\ Pocket(th[t], "feed") \in Nat /\ Pocket(th'[t], "feed") \in Nat
<1>1. Amounts(t, h, p) /\ Ledger(t, h, p)
  BY AmountTypes, LedgerHolds
<1>2. Data \in Streams /\ Updates \in Streams
  BY DEF Streams
<1> QED
  BY <1>1, <1>2 DEF Amounts

\* A user's step that leaves the wires alone.
LEMMA UserLedger ==
    ASSUME Typed, Typed', NEW u \in Users, Others(u), NEW h, h = Home(u), NEW p, p = Peer(h), SameWires
    PROVE  /\ Flight(h)' = Flight(h) - Bytes(th[u].out, Data) + Bytes(th'[u].out, Data)
           /\ SameFlight(p) /\ SameReturning(h)
           /\ Returning(p)' = Returning(p) - Bytes(th[u].out, Updates) + Bytes(th'[u].out, Updates)
           /\ Held(h)' = Held(h) - ch[p].inBuffer - ch[p].errBuffer + ch'[p].inBuffer + ch'[p].errBuffer
           /\ Taken(h)' = Taken(h) - ch[p].inSofar + ch'[p].inSofar
           /\ Held(p)' = Held(p) - ch[h].inBuffer - ch[h].errBuffer + ch'[h].inBuffer + ch'[h].errBuffer
                                 - Pocket(th[u], "refeed") + Pocket(th'[u], "refeed")
           /\ Taken(p)' = Taken(p) - ch[h].inSofar + ch'[h].inSofar
                                   - Pocket(th[u], "credit") + Pocket(th'[u], "credit")
<1>1. u \in Threads /\ u \notin Sides /\ h \in Sides /\ p \in Sides
  BY HomeFacts, PeerFacts
<1>2. Data \in Streams /\ Updates \in Streams
  BY DEF Streams
<1>3. Ledger(u, h, p) /\ Counted(h) /\ Counted(p)
      /\ Bytes(wire[h], Data) \in Nat /\ Bytes(wire[h], Updates) \in Nat
      /\ Bytes(wire[p], Data) \in Nat /\ Bytes(wire[p], Updates) \in Nat
      /\ Bytes(th[u].out, Data) \in Nat /\ Bytes(th'[u].out, Data) \in Nat
      /\ Bytes(th[u].out, Updates) \in Nat /\ Bytes(th'[u].out, Updates) \in Nat
  BY <1>1, LedgerOf
<1>4. /\ Bytes(wire'[h], Data) = Bytes(wire[h], Data) /\ Bytes(wire'[h], Updates) = Bytes(wire[h], Updates)
      /\ Bytes(wire'[p], Data) = Bytes(wire[p], Data) /\ Bytes(wire'[p], Updates) = Bytes(wire[p], Updates)
  BY <1>1, <1>2 DEF SameWires
<1>5. Feeding(u, th[u]) = 0 /\ Feeding(u, th'[u]) = 0
  BY <1>1 DEF Feeding
<1>6. Flight(h)' = Flight(h) - Bytes(th[u].out, Data) + Bytes(th'[u].out, Data)
  BY <1>3, <1>4 DEF Ledger, Counted
<1>7. Flight(p)' = Flight(p)
  BY <1>3, <1>4, <1>5 DEF Ledger, Counted
<1>8. Returning(h)' = Returning(h)
  BY <1>3, <1>4 DEF Ledger, Counted
<1>9. Returning(p)' = Returning(p) - Bytes(th[u].out, Updates) + Bytes(th'[u].out, Updates)
  BY <1>3, <1>4 DEF Ledger, Counted
<1> QED
  BY <1>3, <1>6, <1>7, <1>8, <1>9 DEF Ledger, SameFlight, SameReturning

\* The other end of a step that leaves its channel alone.
LEMMA PeerStill ==
    ASSUME Typed, NEW p \in Sides, SameFields(p),
           Held(Peer(p))' = Held(Peer(p)) - ch[p].inBuffer - ch[p].errBuffer + ch'[p].inBuffer + ch'[p].errBuffer,
           Taken(Peer(p))' = Taken(Peer(p)) - ch[p].inSofar + ch'[p].inSofar
    PROVE  SameHeld(Peer(p)) /\ SameTaken(Peer(p))
<1>1. ch[p].inBuffer \in Nat /\ ch[p].errBuffer \in Nat /\ ch[p].inSofar \in Nat
  BY DEF Typed, ChOK, ChannelStates
<1>2. Held(Peer(p)) \in Nat /\ Taken(Peer(p)) \in Nat
  BY PeerFacts, CountedAlways DEF Counted
<1> QED
  BY <1>1, <1>2 DEF SameFields, SameHeld, SameTaken

\* _send: part of the window becomes a message in an outbox.
LEMMA AllocateKeeps ==
    ASSUME Typed, Typed', NEW u \in Users, th[u].pc \notin Busy, Allocate(u), wire' = wire
    PROVE  \A d \in Sides : Keeps(d)
<1> DEFINE h == Home(u)
           p == Peer(h)
           size == Allocation(u)
           m == Msg(DataType(u), size)
           x == [th[u] EXCEPT !.n = th[u].n - size]
           place == IF Repeats(u) /\ th[u].n > size THEN "send" ELSE "idle"
<1>1. u \in Threads /\ h = SideOf[u] /\ ThOK /\ ChOK /\ u \notin Sides
  BY HomeFacts DEF Typed
<1>2. /\ h \in Sides /\ p \in Sides /\ p # h /\ Peer(h) = p /\ Peer(p) = h
      /\ \A d \in Sides : d = h \/ d = p
  BY <1>1, SidesFacts
<1>3. size \in Nat /\ size <= ch[h].outWindow /\ th[u].n - size \in Nat
  BY <1>1, AllocationFacts
<1>4. /\ ch' = [ch EXCEPT ![h].outWindow = ch[h].outWindow - size]
      /\ th' = [th EXCEPT ![u] = Dispatch(x, <<m>>, place)]
  BY <1>1, <1>2 DEF Allocate, Typed, ChOK, ThOK
<1>5. m \in Messages /\ m.type = DataType(u) /\ m.n = size /\ <<m>> \in Seq(Messages)
  <2>1. DataType(u) \in MsgTypes
    BY DEF DataType, MsgTypes
  <2> HIDE DEF size
  <2> QED
    BY <1>3, <2>1, MsgFacts
<1>6. Bytes(<<m>>, Data) = size /\ Bytes(<<m>>, Updates) = 0
  <2>1. m.type \in Data /\ m.type \notin Updates
    BY <1>5 DEF DataType, Data, Updates
  <2> HIDE DEF m, size
  <2> QED
    BY <1>5, <2>1, BytesOne DEF Size
<1>7. x \in GoodThreads /\ x.pc # "transmit"
  <2> DEFINE k == th[u].n - size
  <2>1. k \in Nat /\ th[u].pc # "transmit" /\ "idle" \in Places /\ "idle" # "transmit"
    BY <1>3 DEF Busy, Places
  <2> HIDE DEF k
  <2>2. [th[u] EXCEPT !.n = k] \in GoodThreads /\ [th[u] EXCEPT !.n = k].pc = th[u].pc
    BY <1>1, <2>1, MoveCarryTypes
  <2> QED
    BY <2>1, <2>2 DEF k
<1>8. place \in Resumptions /\ place # "reqwait" /\ <<m>> # <<>>
  BY DEF Resumptions
<1>9. ch'[h].outWindow = ch[h].outWindow - size /\ ch'[p].outWindow = ch[p].outWindow
      /\ \A s \in Sides : /\ ch'[s].inSofar = ch[s].inSofar
                          /\ ch'[s].inBuffer = ch[s].inBuffer /\ ch'[s].errBuffer = ch[s].errBuffer
  BY <1>1, <1>2, <1>4 DEF ChOK, ChannelStates
<1> HIDE DEF x, place, m
<1>10. /\ Dispatch(x, <<m>>, place).out = <<m>>
       /\ Dispatch(x, <<m>>, place).pc = "transmit"
  BY <1>5, <1>7, <1>8, DispatchTypes
<1>11. Others(u) /\ th'[u].out = <<m>> /\ th'[u].pc = "transmit"
  BY <1>1, <1>4, <1>10, OthersReplaced
<1>12. th[u].out = <<>> /\ Bytes(th[u].out, Data) = 0 /\ Bytes(th[u].out, Updates) = 0
  BY <1>1, Empty, BytesEmpty DEF Busy
<1>13. /\ Pocket(th[u], "refeed") = 0 /\ Pocket(th[u], "credit") = 0
       /\ Pocket(th'[u], "refeed") = 0 /\ Pocket(th'[u], "credit") = 0
       /\ Feeding(u, th[u]) = 0 /\ Feeding(u, th'[u]) = 0
  BY <1>1, <1>11 DEF Pocket, Feeding, Busy
<1>14. Counted(h) /\ Counted(p) /\ SameWires
  BY <1>2, CountedAlways, WiresUnchanged
<1>15. /\ Flight(h)' = Flight(h) - Bytes(th[u].out, Data) + Bytes(th'[u].out, Data)
       /\ SameFlight(p) /\ SameReturning(h)
       /\ Returning(p)' = Returning(p) - Bytes(th[u].out, Updates) + Bytes(th'[u].out, Updates)
       /\ Held(h)' = Held(h) - ch[p].inBuffer - ch[p].errBuffer + ch'[p].inBuffer + ch'[p].errBuffer
       /\ Taken(h)' = Taken(h) - ch[p].inSofar + ch'[p].inSofar
       /\ Held(p)' = Held(p) - ch[h].inBuffer - ch[h].errBuffer + ch'[h].inBuffer + ch'[h].errBuffer
                             - Pocket(th[u], "refeed") + Pocket(th'[u], "refeed")
       /\ Taken(p)' = Taken(p) - ch[h].inSofar + ch'[h].inSofar
                               - Pocket(th[u], "credit") + Pocket(th'[u], "credit")
  BY <1>11, <1>14, UserLedger
<1>16. /\ ch[h].inBuffer \in Nat /\ ch[h].errBuffer \in Nat /\ ch[h].inSofar \in Nat
       /\ ch[p].inBuffer \in Nat /\ ch[p].errBuffer \in Nat /\ ch[p].inSofar \in Nat
  BY <1>2 DEF Typed, ChOK, ChannelStates
<1> HIDE DEF h, p, size
<1>17. /\ Flight(h)' = Flight(h) + size /\ SameFlight(p)
       /\ SameReturning(h) /\ SameReturning(p)
       /\ SameHeld(h) /\ SameHeld(p) /\ SameTaken(h) /\ SameTaken(p)
  <2>1. Flight(h)' = Flight(h) + size
    BY <1>3, <1>6, <1>11, <1>12, <1>14, <1>15 DEF Counted
  <2>2. SameReturning(p)
    BY <1>6, <1>11, <1>12, <1>14, <1>15 DEF Counted, SameReturning
  <2>3. SameHeld(h) /\ SameTaken(h)
    BY <1>2, <1>9, <1>14, <1>15, <1>16 DEF Counted, SameHeld, SameTaken
  <2>4. SameHeld(p) /\ SameTaken(p)
    BY <1>2, <1>9, <1>13, <1>14, <1>15, <1>16 DEF Counted, SameHeld, SameTaken
  <2> QED
    BY <1>15, <2>1, <2>2, <2>3, <2>4
<1>18. Keeps(h)
  <2>1. Shifts(ch[h].outWindow, ch'[h].outWindow, Flight(h), Flight(h)')
    BY <1>3, <1>9, <1>17 DEF Shifts
  <2> QED
    BY <1>17, <2>1 DEF Keeps
<1>19. Keeps(p)
  BY <1>2, <1>9, <1>14, <1>17, StillKeeps DEF SameCredit
<1> QED
  BY <1>2, <1>18, <1>19

\* A user who sends no data leaves the bytes that its own side sends where they are.
LEMMA OwnBytesStay ==
    ASSUME Typed, Typed', NEW u \in Users, Others(u), NEW h, h = Home(u), NEW p, p = Peer(h), SameWires,
           Bytes(th[u].out, Data) = 0, Bytes(th'[u].out, Data) = 0,
           SameFields(p), SameCredit(h)
    PROVE  Keeps(h)
<1>1. h \in Sides /\ p \in Sides /\ Peer(p) = h /\ Counted(h)
  BY HomeFacts, PeerFacts, CountedAlways
<1>2. /\ Flight(h)' = Flight(h) - Bytes(th[u].out, Data) + Bytes(th'[u].out, Data) /\ SameReturning(h)
      /\ Held(h)' = Held(h) - ch[p].inBuffer - ch[p].errBuffer + ch'[p].inBuffer + ch'[p].errBuffer
      /\ Taken(h)' = Taken(h) - ch[p].inSofar + ch'[p].inSofar
  BY UserLedger
<1>3. SameFlight(h)
  BY <1>1, <1>2 DEF Counted, SameFlight
<1>4. SameHeld(h) /\ SameTaken(h)
  BY <1>1, <1>2, PeerStill
<1> QED
  BY <1>1, <1>2, <1>3, <1>4, StillKeeps

\* A thread moves with another amount in hand.
LEMMA MoveCarry ==
    ASSUME ThOK, NEW t \in Threads, th[t].pc # "transmit", NEW place, NEW n,
           th' = [th EXCEPT ![t].pc = place, ![t].n = n]
    PROVE  Others(t) /\ th'[t].pc = place /\ th'[t].n = n /\ th'[t].out = <<>> /\ th[t].out = <<>>
<1>1. th[t] \in GoodThreads /\ th[t].out = <<>>
  BY Empty DEF ThOK
<1>2. th' = [th EXCEPT ![t] = [th[t] EXCEPT !.pc = place, !.n = n]]
  BY DEF ThOK
<1>3. /\ [th[t] EXCEPT !.pc = place, !.n = n].pc = place
      /\ [th[t] EXCEPT !.pc = place, !.n = n].n = n
      /\ [th[t] EXCEPT !.pc = place, !.n = n].out = th[t].out
  BY <1>1 DEF GoodThreads, ThreadStates
<1> QED
  BY <1>1, <1>2, <1>3, OthersReplaced

\* recv, recv_stderr: a buffer gives up bytes, which the caller has yet to credit.
LEMMA RecvKeeps ==
    ASSUME Typed, Typed', NEW u \in Users, Recv(u)
    PROVE  \A d \in Sides : Keeps(d)
<1> DEFINE h == Home(u)
           p == Peer(h)
           held == IF th[u].call = "recv" THEN ch[h].inBuffer ELSE ch[h].errBuffer
           got == Least(th[u].n, held)
<1>1. u \in Threads /\ h = SideOf[u] /\ ThOK /\ ChOK /\ th[u] \in GoodThreads
  BY HomeFacts DEF Typed, ThOK
<1>2. /\ h \in Sides /\ p \in Sides /\ p # h /\ Peer(h) = p /\ Peer(p) = h
      /\ \A d \in Sides : d = h \/ d = p
  BY <1>1, SidesFacts
<1>3. /\ ch[h] \in ChannelStates /\ ch[h].inBuffer \in Nat /\ ch[h].errBuffer \in Nat
      /\ ch[h].inSofar \in Nat /\ th[u].n \in Nat
  BY <1>1, <1>2, GoodThreadTypes DEF ChOK, ChannelStates
<1>4. got \in Nat /\ got <= held
  BY <1>3 DEF Least
<1>5. /\ th[u].pc = "recv" /\ wire' = wire
      /\ th' = [th EXCEPT ![u].pc = "credit", ![u].n = got]
      /\ \/ th[u].call = "recv" /\ ch' = [ch EXCEPT ![h].inBuffer = ch[h].inBuffer - got]
         \/ th[u].call # "recv" /\ ch' = [ch EXCEPT ![h].errBuffer = ch[h].errBuffer - got]
  BY <1>1, <1>2 DEF Recv, ChOK
<1> HIDE DEF got
<1>6. Others(u) /\ th'[u].pc = "credit" /\ th'[u].n = got /\ th'[u].out = <<>> /\ th[u].out = <<>>
  BY <1>1, <1>5, MoveCarry
<1>7. /\ SameFields(p) /\ SameCredit(h) /\ SameCredit(p) /\ ch'[h].inSofar = ch[h].inSofar
      /\ \/ ch'[h].inBuffer = ch[h].inBuffer - got /\ ch'[h].errBuffer = ch[h].errBuffer
         \/ ch'[h].inBuffer = ch[h].inBuffer /\ ch'[h].errBuffer = ch[h].errBuffer - got
  BY <1>1, <1>2, <1>3, <1>5 DEF ChOK, ChannelStates, SameFields, SameCredit
<1>8. /\ Pocket(th[u], "refeed") = 0 /\ Pocket(th[u], "credit") = 0
      /\ Pocket(th'[u], "refeed") = 0 /\ Pocket(th'[u], "credit") = got
  BY <1>5, <1>6 DEF Pocket
<1>9. \A types : Bytes(th[u].out, types) = 0 /\ Bytes(th'[u].out, types) = 0
  BY <1>6, BytesEmpty
<1>10. Counted(h) /\ Counted(p) /\ SameWires
  BY <1>2, <1>5, CountedAlways, WiresUnchanged
<1>11. got <= ch[h].inBuffer + ch[h].errBuffer /\ ch[h].inBuffer + ch[h].errBuffer <= Held(p)
  <2>1. got <= ch[h].inBuffer + ch[h].errBuffer
    BY <1>3, <1>4
  <2>2. Carried(h, "refeed") \in Nat
    BY <1>1, SumTypes
  <2> QED
    BY <1>2, <1>3, <2>1, <2>2 DEF Held
<1>12. /\ SameFlight(p)
       /\ Returning(p)' = Returning(p) - Bytes(th[u].out, Updates) + Bytes(th'[u].out, Updates)
       /\ Held(p)' = Held(p) - ch[h].inBuffer - ch[h].errBuffer + ch'[h].inBuffer + ch'[h].errBuffer
                             - Pocket(th[u], "refeed") + Pocket(th'[u], "refeed")
       /\ Taken(p)' = Taken(p) - ch[h].inSofar + ch'[h].inSofar
                               - Pocket(th[u], "credit") + Pocket(th'[u], "credit")
  BY <1>6, <1>10, UserLedger
<1>13. Keeps(h)
  BY <1>6, <1>7, <1>9, <1>10, OwnBytesStay
<1> HIDE DEF h, p, held
<1>14. Keeps(p)
  <2>1. SameReturning(p)
    BY <1>9, <1>10, <1>12 DEF Counted, SameReturning
  <2>2. Held(p)' = Held(p) - got /\ Taken(p)' = Taken(p) + got /\ got <= Held(p)
    BY <1>3, <1>4, <1>7, <1>8, <1>10, <1>11, <1>12 DEF Counted
  <2>3. Shifts(Held(p), Held(p)', Taken(p), Taken(p)')
    BY <1>4, <2>2 DEF Shifts
  <2> QED
    BY <1>7, <1>12, <2>1, <2>3 DEF Keeps
<1> QED
  BY <1>2, <1>13, <1>14

\* A step after which direction d either lost nothing or is not read any more.
Accounted(d) == Keeps(d) \/ (Loses(d) /\ ~Reading(d)')

\* _check_add_window: what was read waits for more, goes into an update, or is dropped.
LEMMA CreditAccounted ==
    ASSUME Typed, Typed', NEW u \in Users, Credit(u)
    PROVE  \A d \in Sides : Accounted(d)
<1> DEFINE h == Home(u)
           p == Peer(h)
           n == th[u].n
           sofar == ch[h].inSofar + n
           done == [th[u] EXCEPT !.n = 0]
           m == Msg("adjust", sofar)
<1>1. u \in Threads /\ h = SideOf[u] /\ ThOK /\ ChOK /\ th[u] \in GoodThreads
  BY HomeFacts DEF Typed, ThOK
<1>2. /\ h \in Sides /\ p \in Sides /\ p # h /\ Peer(h) = p /\ Peer(p) = h
      /\ \A d \in Sides : d = h \/ d = p
  BY <1>1, SidesFacts
<1>3. /\ ch[h] \in ChannelStates /\ ch[h].inBuffer \in Nat /\ ch[h].errBuffer \in Nat
      /\ ch[h].inSofar \in Nat /\ n \in Nat /\ sofar \in Nat
  <2>1. ch[h] \in ChannelStates /\ n \in Nat
    BY <1>1, <1>2, GoodThreadTypes DEF ChOK
  <2>2. ch[h].inBuffer \in Nat /\ ch[h].errBuffer \in Nat /\ ch[h].inSofar \in Nat
    BY <2>1 DEF ChannelStates
  <2> QED
    BY <2>1, <2>2
<1>4. th[u].pc = "credit" /\ wire' = wire /\ th[u].out = <<>> /\ UNCHANGED up
  BY <1>1, Empty DEF Credit
<1>5. done \in GoodThreads /\ done.pc = "credit" /\ done.out = <<>>
  <2>1. "idle" \in Places /\ "idle" # "transmit" /\ 0 \in Nat
    BY DEF Places
  <2>2. done \in GoodThreads /\ done.pc = th[u].pc
    BY <1>1, <1>4, <2>1, MoveCarryTypes
  <2> QED
    BY <1>4, <2>2 DEF GoodThreads
<1>6. At(done, "idle").pc = "idle" /\ At(done, "idle").out = <<>>
  BY <1>5 DEF At, GoodThreads, ThreadStates
<1>7. m \in Messages /\ m.type = "adjust" /\ m.n = sofar /\ <<m>> \in Seq(Messages) /\ <<m>> # <<>>
  <2> HIDE DEF sofar
  <2> QED
    BY <1>3, MsgFacts DEF MsgTypes
<1>8. Bytes(<<m>>, Updates) = sofar /\ Bytes(<<m>>, Data) = 0
  <2> HIDE DEF m, sofar
  <2> QED
    BY <1>7, BytesOne DEF Size, Updates, Data
<1>9. Dispatch(done, <<m>>, "idle").pc = "transmit" /\ Dispatch(done, <<m>>, "idle").out = <<m>>
  <2>1. "idle" \in Resumptions /\ done.pc # "transmit"
    BY <1>5 DEF Resumptions
  <2> DEFINE q == <<m>>
  <2>2. q \in Seq(Messages) /\ q # <<>> /\ "idle" # "reqwait"
    BY <1>7
  <2> HIDE DEF q, done
  <2>3. Dispatch(done, q, "idle").out = q /\ Dispatch(done, q, "idle").pc = "transmit"
    BY <1>5, <2>1, <2>2, DispatchTypes
  <2> QED
    BY <2>3 DEF q
<1>10. Counted(h) /\ Counted(p) /\ SameWires
  BY <1>2, <1>4, CountedAlways, WiresUnchanged
<1>11. /\ Pocket(th[u], "refeed") = 0 /\ Pocket(th[u], "credit") = n
       /\ Bytes(th[u].out, Data) = 0 /\ Bytes(th[u].out, Updates) = 0
  BY <1>4, BytesEmpty DEF Pocket
<1>12. ch[h].inSofar <= Taken(p) /\ n <= Taken(p) - ch[h].inSofar
  <2>1. Carried(h, "credit") \in Nat /\ Carried(h, "credit") >= n
    <3>1. Carried(h, "credit") = Total(PocketMap(th, h, "credit"))
      BY <1>1, SumTypes
    <3>2. Total(PocketMap(th, h, "credit")) >= PocketMap(th, h, "credit")[u]
      <4> DEFINE w == PocketMap(th, h, "credit")
                 v == [y \in Threads \ {u} |-> w[y]]
      <4>1. w \in [Threads -> Nat]
        BY <1>1, MapTypes DEF ThOK
      <4> HIDE DEF w
      <4>2. Total(w) = w[u] + Total(v)
        BY <1>1, <4>1, ThreadsFinite, TotalSplit
      <4>3. Total(v) \in Nat
        <5>1. v \in [Threads \ {u} -> Nat] /\ IsFiniteSet(Threads \ {u})
          BY <4>1, ThreadsFinite, FS_RemoveElement
        <5> HIDE DEF v
        <5> QED
          BY <5>1, CellsFinite
      <4>4. w[u] \in Nat
        BY <1>1, <4>1
      <4> QED
        BY <4>2, <4>3, <4>4 DEF w
    <3>3. PocketMap(th, h, "credit")[u] = n
      BY <1>1, <1>11 DEF PocketMap
    <3>4. Carried(h, "credit") \in Nat
      BY <1>1, SumTypes
    <3> QED
      BY <3>1, <3>2, <3>3, <3>4
  <2> QED
    BY <1>2, <1>3, <2>1 DEF Taken
<1> HIDE DEF done
<1>13. CASE /\ ch[h].closed \/ ch[h].eofReceived
            /\ th' = [th EXCEPT ![u] = At(done, "idle")] /\ ch' = ch
  <2>1. Others(u) /\ th'[u].pc = "idle" /\ th'[u].out = <<>>
    BY <1>1, <1>6, <1>13, OthersReplaced
  <2>2. /\ Pocket(th'[u], "refeed") = 0 /\ Pocket(th'[u], "credit") = 0
        /\ Bytes(th'[u].out, Data) = 0 /\ Bytes(th'[u].out, Updates) = 0
    BY <2>1, BytesEmpty DEF Pocket
  <2>3. SameFields(h) /\ SameFields(p) /\ SameCredit(h) /\ SameCredit(p)
    BY <1>13 DEF SameFields, SameCredit
  <2>4. Keeps(h)
    BY <1>10, <1>11, <2>1, <2>2, <2>3, OwnBytesStay
  <2>5. /\ SameFlight(p)
        /\ Returning(p)' = Returning(p) - Bytes(th[u].out, Updates) + Bytes(th'[u].out, Updates)
        /\ Held(p)' = Held(p) - ch[h].inBuffer - ch[h].errBuffer + ch'[h].inBuffer + ch'[h].errBuffer
                              - Pocket(th[u], "refeed") + Pocket(th'[u], "refeed")
        /\ Taken(p)' = Taken(p) - ch[h].inSofar + ch'[h].inSofar
                                - Pocket(th[u], "credit") + Pocket(th'[u], "credit")
    BY <1>10, <2>1, UserLedger
  <2>6. ~Reading(p)'
    BY <1>2, <1>13 DEF Reading
  <2> HIDE DEF h, p, n, sofar
  <2>7. SameReturning(p)
    BY <1>10, <1>11, <2>2, <2>5 DEF Counted, SameReturning
  <2>8. SameHeld(p)
    BY <1>3, <1>10, <1>11, <2>2, <2>3, <2>5 DEF Counted, SameHeld, SameFields
  <2>9. Taken(p)' = Taken(p) - n
    BY <1>3, <1>10, <1>11, <2>2, <2>3, <2>5 DEF Counted, SameFields
  <2>10. Taken(p)' \in 0 .. Taken(p)
    BY <1>3, <1>10, <1>12, <2>9 DEF Counted
  <2> QED
    BY <1>2, <2>3, <2>4, <2>5, <2>6, <2>7, <2>8, <2>10 DEF Accounted, Loses
<1>14. CASE ch' = [ch EXCEPT ![h].inSofar = sofar] /\ th' = [th EXCEPT ![u] = At(done, "idle")]
  <2>1. Others(u) /\ th'[u].pc = "idle" /\ th'[u].out = <<>>
    BY <1>1, <1>6, <1>14, OthersReplaced
  <2>2. /\ Pocket(th'[u], "refeed") = 0 /\ Pocket(th'[u], "credit") = 0
        /\ Bytes(th'[u].out, Data) = 0 /\ Bytes(th'[u].out, Updates) = 0
    BY <2>1, BytesEmpty DEF Pocket
  <2>3. /\ SameFields(p) /\ SameCredit(h) /\ SameCredit(p) /\ ch'[h].inSofar = sofar
        /\ ch'[h].inBuffer = ch[h].inBuffer /\ ch'[h].errBuffer = ch[h].errBuffer
    BY <1>1, <1>2, <1>3, <1>14 DEF ChOK, ChannelStates, SameFields, SameCredit
  <2>4. Keeps(h)
    BY <1>10, <1>11, <2>1, <2>2, <2>3, OwnBytesStay
  <2>5. /\ SameFlight(p)
        /\ Returning(p)' = Returning(p) - Bytes(th[u].out, Updates) + Bytes(th'[u].out, Updates)
        /\ Held(p)' = Held(p) - ch[h].inBuffer - ch[h].errBuffer + ch'[h].inBuffer + ch'[h].errBuffer
                              - Pocket(th[u], "refeed") + Pocket(th'[u], "refeed")
        /\ Taken(p)' = Taken(p) - ch[h].inSofar + ch'[h].inSofar
                                - Pocket(th[u], "credit") + Pocket(th'[u], "credit")
    BY <1>10, <2>1, UserLedger
  <2>6. sofar = ch[h].inSofar + n
    OBVIOUS
  <2> HIDE DEF h, p, n, sofar
  <2>7. SameReturning(p)
    BY <1>10, <1>11, <2>2, <2>5 DEF Counted, SameReturning
  <2>8. SameHeld(p)
    BY <1>3, <1>10, <1>11, <2>2, <2>3, <2>5 DEF Counted, SameHeld
  <2>9. SameTaken(p)
    BY <1>3, <1>10, <1>11, <2>2, <2>3, <2>5, <2>6 DEF Counted, SameTaken
  <2> QED
    BY <1>2, <1>10, <2>3, <2>4, <2>5, <2>7, <2>8, <2>9, StillKeeps DEF Accounted
<1>15. CASE ch' = [ch EXCEPT ![h].inSofar = 0] /\ th' = [th EXCEPT ![u] = Dispatch(done, <<m>>, "idle")]
  <2>1. Others(u) /\ th'[u].pc = "transmit" /\ th'[u].out = <<m>>
    BY <1>1, <1>9, <1>15, OthersReplaced
  <2>2. /\ Pocket(th'[u], "refeed") = 0 /\ Pocket(th'[u], "credit") = 0
        /\ Bytes(th'[u].out, Data) = 0 /\ Bytes(th'[u].out, Updates) = sofar
    BY <1>8, <2>1 DEF Pocket
  <2>3. /\ SameFields(p) /\ SameCredit(h) /\ SameCredit(p) /\ ch'[h].inSofar = 0
        /\ ch'[h].inBuffer = ch[h].inBuffer /\ ch'[h].errBuffer = ch[h].errBuffer
    BY <1>1, <1>2, <1>3, <1>15 DEF ChOK, ChannelStates, SameFields, SameCredit
  <2>4. Keeps(h)
    BY <1>10, <1>11, <2>1, <2>2, <2>3, OwnBytesStay
  <2>5. /\ SameFlight(p)
        /\ Returning(p)' = Returning(p) - Bytes(th[u].out, Updates) + Bytes(th'[u].out, Updates)
        /\ Held(p)' = Held(p) - ch[h].inBuffer - ch[h].errBuffer + ch'[h].inBuffer + ch'[h].errBuffer
                              - Pocket(th[u], "refeed") + Pocket(th'[u], "refeed")
        /\ Taken(p)' = Taken(p) - ch[h].inSofar + ch'[h].inSofar
                                - Pocket(th[u], "credit") + Pocket(th'[u], "credit")
    BY <1>10, <2>1, UserLedger
  <2>6. sofar = ch[h].inSofar + n
    OBVIOUS
  <2> HIDE DEF h, p, n, sofar
  <2>7. Returning(p)' = Returning(p) + sofar
    BY <1>3, <1>10, <1>11, <2>2, <2>5 DEF Counted
  <2>8. SameHeld(p)
    BY <1>3, <1>10, <1>11, <2>2, <2>3, <2>5 DEF Counted, SameHeld
  <2>9. Taken(p)' = Taken(p) - sofar /\ sofar <= Taken(p)
    BY <1>3, <1>10, <1>11, <1>12, <2>2, <2>3, <2>5, <2>6 DEF Counted
  <2>10. Shifts(Taken(p), Taken(p)', Returning(p), Returning(p)')
    BY <1>3, <2>7, <2>9 DEF Shifts
  <2>11. Keeps(p)
    BY <2>3, <2>5, <2>8, <2>10 DEF Keeps
  <2> QED
    BY <1>2, <2>4, <2>11 DEF Accounted
<1> QED
  BY <1>1, <1>13, <1>14, <1>15 DEF Credit, done

\* The places hold numbers after a step, too.
LEMMA CountedNext == Typed' => \A d \in Sides : Counted(d)'
<1>1. Typed => \A d \in Sides : Counted(d)
  BY CountedAlways
<1>2. Typed' => (\A d \in Sides : Counted(d))'
  BY <1>1, PTL
<1> QED
  BY <1>2

\* What is in the two buffers of h and in the hands of u does not change.
Regroups(u, h, p) ==
    /\ Others(u) /\ th'[u].out = <<>>
    /\ Pocket(th[u], "credit") = 0 /\ Pocket(th'[u], "credit") = 0
    /\ SameFields(p) /\ SameCredit(h) /\ SameCredit(p) /\ ch'[h].inSofar = ch[h].inSofar
    /\ ch'[h].inBuffer + ch'[h].errBuffer + Pocket(th'[u], "refeed")
          = ch[h].inBuffer + ch[h].errBuffer + Pocket(th[u], "refeed")

\* set_combine_stderr: bytes change buffers, through the hands of the caller.
LEMMA CombineKeeps ==
    ASSUME Typed, Typed', NEW u \in Users, (\E method \in Methods : CallCombine(u, method)) \/ Refeed(u)
    PROVE  \A d \in Sides : Keeps(d)
<1> DEFINE h == Home(u)
           p == Peer(h)
<1>1. u \in Threads /\ h = SideOf[u] /\ ThOK /\ ChOK /\ th[u] \in GoodThreads
  BY HomeFacts DEF Typed, ThOK
<1>2. /\ h \in Sides /\ p \in Sides /\ p # h /\ Peer(h) = p /\ Peer(p) = h
      /\ \A d \in Sides : d = h \/ d = p
  BY <1>1, SidesFacts
<1>3. ch[h] \in ChannelStates /\ th[u].n \in Nat /\ wire' = wire /\ th[u].pc # "transmit"
  BY <1>1, <1>2, GoodThreadTypes DEF ChOK, CallCombine, MayCall, Refeed
<1>4. ch[h].inBuffer \in Nat /\ ch[h].errBuffer \in Nat /\ ch[h].inSofar \in Nat
  BY <1>3 DEF ChannelStates
<1>5. Counted(h) /\ Counted(p) /\ SameWires /\ th[u].out = <<>>
  BY <1>1, <1>2, <1>3, CountedAlways, WiresUnchanged, Empty
<1>6. Regroups(u, h, p)
  <2>1. ASSUME NEW method \in Methods, CallCombine(u, method) PROVE Regroups(u, h, p)
    <3> DEFINE on == method = "combine_stderr"
               moved == IF on /\ ~ch[h].combine THEN ch[h].errBuffer ELSE 0
               place == IF moved > 0 THEN "refeed" ELSE "idle"
               x == Enter(u, method, moved, place)
    <3>1. /\ ch' = [ch EXCEPT ![h].combine = on, ![h].errBuffer = ch[h].errBuffer - moved]
          /\ th' = [th EXCEPT ![u] = x]
          /\ th[u].pc = "idle"
      BY <1>1, <1>2, <1>3, <2>1 DEF CallCombine, MayCall, ChOK, ChannelStates
    <3>2. moved \in Nat /\ (place = "refeed" \/ moved = 0) /\ place \in Places /\ place # "transmit" /\ place # "credit"
      BY <1>4 DEF Places
    <3> HIDE DEF moved, on, place
    <3>3. x.pc = place /\ x.out = <<>> /\ x.n = moved
      <4>1. x.pc = place /\ x.out = <<>>
        BY <1>1, <3>1, <3>2, EnterTypes
      <4>2. x.n = moved
        BY <1>1, <3>2 DEF Enter, GoodThreads, ThreadStates
      <4> QED
        BY <4>1, <4>2
    <3> HIDE DEF x
    <3>4. Others(u) /\ th'[u].out = <<>> /\ th'[u].pc = place /\ th'[u].n = moved
      BY <1>1, <3>1, <3>3, OthersReplaced
    <3>5. /\ Pocket(th[u], "credit") = 0 /\ Pocket(th'[u], "credit") = 0
          /\ Pocket(th[u], "refeed") = 0 /\ Pocket(th'[u], "refeed") = moved
      BY <3>1, <3>2, <3>4 DEF Pocket
    <3>6. /\ SameFields(p) /\ SameCredit(h) /\ SameCredit(p) /\ ch'[h].inSofar = ch[h].inSofar
          /\ ch'[h].inBuffer = ch[h].inBuffer /\ ch'[h].errBuffer = ch[h].errBuffer - moved
      BY <1>1, <1>2, <1>3, <3>1 DEF ChOK, ChannelStates, SameFields, SameCredit
    <3> QED
      BY <1>4, <3>2, <3>4, <3>5, <3>6 DEF Regroups
  <2>2. CASE Refeed(u)
    <3>1. /\ th[u].pc = "refeed" /\ ch' = [ch EXCEPT ![h].inBuffer = ch[h].inBuffer + th[u].n]
          /\ th' = [th EXCEPT ![u].pc = "idle", ![u].n = 0]
      BY <1>1, <1>2, <2>2 DEF Refeed, ChOK
    <3>2. Others(u) /\ th'[u].pc = "idle" /\ th'[u].n = 0 /\ th'[u].out = <<>>
      BY <1>1, <1>3, <3>1, MoveCarry
    <3>3. /\ Pocket(th[u], "credit") = 0 /\ Pocket(th'[u], "credit") = 0
          /\ Pocket(th[u], "refeed") = th[u].n /\ Pocket(th'[u], "refeed") = 0
      BY <3>1, <3>2 DEF Pocket
    <3>4. /\ SameFields(p) /\ SameCredit(h) /\ SameCredit(p) /\ ch'[h].inSofar = ch[h].inSofar
          /\ ch'[h].inBuffer = ch[h].inBuffer + th[u].n /\ ch'[h].errBuffer = ch[h].errBuffer
      BY <1>1, <1>2, <1>3, <3>1 DEF ChOK, ChannelStates, SameFields, SameCredit
    <3> QED
      BY <1>3, <1>4, <3>2, <3>3, <3>4 DEF Regroups
  <2> QED
    BY <2>1, <2>2
<1>7. /\ Bytes(th[u].out, Data) = 0 /\ Bytes(th'[u].out, Data) = 0
      /\ Bytes(th[u].out, Updates) = 0 /\ Bytes(th'[u].out, Updates) = 0
  BY <1>5, <1>6, BytesEmpty DEF Regroups
<1>8. Keeps(h)
  BY <1>5, <1>6, <1>7, OwnBytesStay DEF Regroups
<1>9. /\ SameFlight(p)
      /\ Returning(p)' = Returning(p) - Bytes(th[u].out, Updates) + Bytes(th'[u].out, Updates)
      /\ Held(p)' = Held(p) - ch[h].inBuffer - ch[h].errBuffer + ch'[h].inBuffer + ch'[h].errBuffer
                            - Pocket(th[u], "refeed") + Pocket(th'[u], "refeed")
      /\ Taken(p)' = Taken(p) - ch[h].inSofar + ch'[h].inSofar
                              - Pocket(th[u], "credit") + Pocket(th'[u], "credit")
  BY <1>5, <1>6, UserLedger DEF Regroups
<1>10. /\ ch'[h].inBuffer \in Nat /\ ch'[h].errBuffer \in Nat
       /\ Pocket(th[u], "refeed") \in Nat /\ Pocket(th'[u], "refeed") \in Nat
  <2>1. ch'[h] \in ChannelStates /\ th'[u] \in GoodThreads
    BY <1>1, <1>2 DEF Typed, ChOK, ThOK
  <2> QED
    BY <1>1, <2>1, GoodThreadTypes DEF ChannelStates
<1> HIDE DEF h, p
<1>11. SameReturning(p) /\ SameTaken(p)
  BY <1>4, <1>5, <1>6, <1>7, <1>9 DEF Counted, SameReturning, SameTaken, Regroups
<1>12. SameHeld(p)
  <2>1. Held(p) \in Nat
    BY <1>5 DEF Counted
  <2>2. ch'[h].inBuffer + ch'[h].errBuffer + Pocket(th'[u], "refeed")
            = ch[h].inBuffer + ch[h].errBuffer + Pocket(th[u], "refeed")
    BY <1>6 DEF Regroups
  <2>3. Held(p)' = Held(p) - ch[h].inBuffer - ch[h].errBuffer + ch'[h].inBuffer + ch'[h].errBuffer
                           - Pocket(th[u], "refeed") + Pocket(th'[u], "refeed")
    BY <1>9
  <2>4. Held(p)' = Held(p)
    BY <1>4, <1>10, <2>1, <2>2, <2>3
  <2> QED
    BY <2>4 DEF SameHeld
<1>13. Keeps(p)
  BY <1>2, <1>5, <1>6, <1>9, <1>11, <1>12, StillKeeps DEF Regroups
<1> QED
  BY <1>2, <1>8, <1>13

\* _send_user_message: a message reaches the wire, or is dropped with a dead transport.
LEMMA TransmitAccounted ==
    ASSUME Typed, Typed', NEW t \in Threads, Transmit(t)
    PROVE  \A d \in Sides : Accounted(d)
<1> DEFINE h == Home(t)
           p == Peer(h)
           m == Head(th[t].out)
           rest == Tail(th[t].out)
           x == [th[t] EXCEPT !.out = rest, !.pc = IF rest = <<>> THEN th[t].after ELSE "transmit"]
<1>1. ThOK /\ ChOK /\ WireOK /\ UpOK /\ th[t] \in GoodThreads
  BY DEF Typed, ThOK
<1>2. /\ h \in Sides /\ p \in Sides /\ p # h /\ Peer(h) = p /\ Peer(p) = h
      /\ \A d \in Sides : d = h \/ d = p
  BY SidesFacts
<1>3. th[t].pc = "transmit" /\ th[t].out \in Seq(Messages) /\ th[t].out # <<>> /\ th[t].after \in Resumptions
  BY <1>1 DEF Transmit, GoodThreads, ThreadStates
<1>4. th' = [th EXCEPT ![t] = x] /\ ch' = ch /\ up' = up
  BY <1>1 DEF Transmit, ThOK
<1>5. m \in Messages /\ rest \in Seq(Messages)
  BY <1>3
<1>6. x.out = rest /\ x.pc \notin {"refeed", "credit", "feed"}
  <2> HIDE DEF rest
  <2> QED
    BY <1>1, <1>3 DEF GoodThreads, ThreadStates, Resumptions
<1> HIDE DEF x
<1>7. Others(t) /\ th'[t].out = rest /\ th'[t].pc \notin {"refeed", "credit", "feed"}
  BY <1>1, <1>4, <1>6, OthersReplaced
<1>8. /\ Pocket(th[t], "refeed") = 0 /\ Pocket(th'[t], "refeed") = 0
      /\ Pocket(th[t], "credit") = 0 /\ Pocket(th'[t], "credit") = 0
      /\ Feeding(t, th[t]) = 0 /\ Feeding(t, th'[t]) = 0
  BY <1>3, <1>7 DEF Pocket, Feeding
<1>9. \A types : /\ Bytes(th[t].out, types) = Size(m, types) + Bytes(th'[t].out, types)
                 /\ Size(m, types) \in Nat
  BY <1>3, <1>5, <1>7, BytesTail, SizeType
<1>10. /\ Ledger(t, h, p) /\ Counted(h) /\ Counted(p)
       /\ Bytes(th'[t].out, Data) \in Nat /\ Bytes(th'[t].out, Updates) \in Nat
       /\ Bytes(wire[h], Data) \in Nat /\ Bytes(wire[h], Updates) \in Nat
       /\ Bytes(wire[p], Data) \in Nat /\ Bytes(wire[p], Updates) \in Nat
       /\ ch[h].inBuffer \in Nat /\ ch[h].errBuffer \in Nat /\ ch[h].inSofar \in Nat
       /\ ch[p].inBuffer \in Nat /\ ch[p].errBuffer \in Nat /\ ch[p].inSofar \in Nat
  BY <1>7, LedgerOf
<1>11. wire'[p] = wire[p] /\ SameCredit(h) /\ SameCredit(p)
  BY <1>1, <1>2, <1>4 DEF Transmit, WireOK, SameCredit
<1>12. /\ Bytes(th[t].out, Data) = Size(m, Data) + Bytes(th'[t].out, Data) /\ Size(m, Data) \in Nat
       /\ Bytes(th[t].out, Updates) = Size(m, Updates) + Bytes(th'[t].out, Updates) /\ Size(m, Updates) \in Nat
  BY <1>9
<1>13. CASE up[h]
  <2>1. wire'[h] = Append(wire[h], m) /\ wire[h] \in Seq(Messages)
    BY <1>1, <1>2, <1>13 DEF Transmit, WireOK
  <2>2. /\ Bytes(wire'[h], Data) = Bytes(wire[h], Data) + Size(m, Data)
        /\ Bytes(wire'[h], Updates) = Bytes(wire[h], Updates) + Size(m, Updates)
    BY <1>5, <2>1, BytesAppend
  <2> HIDE DEF h, p, m, rest
  <2>3. SameFlight(h)
    BY <1>10, <1>12, <2>2 DEF Ledger, Counted, SameFlight
  <2>4. SameFlight(p)
    BY <1>8, <1>10, <1>11 DEF Ledger, Counted, SameFlight
  <2>5. SameReturning(p)
    BY <1>10, <1>12, <2>2 DEF Ledger, Counted, SameReturning
  <2>6. SameReturning(h)
    BY <1>10, <1>11 DEF Ledger, Counted, SameReturning
  <2>7. SameHeld(h) /\ SameTaken(h)
    BY <1>4, <1>10 DEF Ledger, Counted, SameHeld, SameTaken
  <2>8. SameHeld(p) /\ SameTaken(p)
    BY <1>4, <1>8, <1>10 DEF Ledger, Counted, SameHeld, SameTaken
  <2> QED
    BY <1>2, <1>10, <1>11, <2>3, <2>4, <2>5, <2>6, <2>7, <2>8, StillKeeps DEF Accounted
<1>14. CASE ~up[h]
  <2>1. wire'[h] = wire[h] /\ ~Reading(h)' /\ ~Reading(p)'
    BY <1>2, <1>4, <1>14 DEF Transmit, Reading
  <2>2. Counted(h)' /\ Counted(p)'
    BY <1>2, CountedNext
  <2> HIDE DEF h, p, m, rest
  <2>3. Flight(h)' = Flight(h) - Size(m, Data)
    BY <1>10, <1>12, <2>1 DEF Ledger, Counted
  <2>4. SameFlight(p)
    BY <1>8, <1>10, <1>11 DEF Ledger, Counted, SameFlight
  <2>5. Returning(p)' = Returning(p) - Size(m, Updates)
    BY <1>10, <1>12, <2>1 DEF Ledger, Counted
  <2>6. SameReturning(h)
    BY <1>10, <1>11 DEF Ledger, Counted, SameReturning
  <2>7. SameHeld(h) /\ SameTaken(h)
    BY <1>4, <1>10 DEF Ledger, Counted, SameHeld, SameTaken
  <2>8. SameHeld(p) /\ SameTaken(p)
    BY <1>4, <1>8, <1>10 DEF Ledger, Counted, SameHeld, SameTaken
  <2>9. Flight(h)' \in 0 .. Flight(h) /\ Returning(p)' \in 0 .. Returning(p)
    BY <1>10, <1>12, <2>2, <2>3, <2>5 DEF Counted
  <2>10. Loses(h) /\ Loses(p)
    BY <1>11, <2>4, <2>6, <2>7, <2>8, <2>9 DEF Loses
  <2> QED
    BY <1>2, <2>1, <2>10 DEF Accounted
<1> QED
  BY <1>13, <1>14

\* A transport thread takes a message and touches neither the other end nor inSofar.
Handled(e, p) ==
    /\ Others(e)
    /\ th'[e].out = <<>> /\ th'[e].pc \notin {"refeed", "credit"}
    /\ SameFields(p) /\ ch'[e].inSofar = ch[e].inSofar

\* What the step does to the places of both directions.
LEMMA HandlerLedger ==
    ASSUME Typed, Typed', NEW e \in Sides, NextMessage(e), NEW p, p = Peer(e), NEW m, m = Head(wire[p]),
           Handled(e, p)
    PROVE  /\ SameFlight(e) /\ SameHeld(e) /\ SameTaken(e)
           /\ SameCredit(p) /\ SameReturning(p) /\ SameTaken(p)
           /\ Returning(e)' = Returning(e) - Size(m, Updates) /\ Size(m, Updates) \in Nat
           /\ Flight(p)' = Flight(p) - Size(m, Data) + Pocket(th'[e], "feed") /\ Size(m, Data) \in Nat
           /\ Held(p)' = Held(p) - ch[e].inBuffer - ch[e].errBuffer + ch'[e].inBuffer + ch'[e].errBuffer
<1>1. e \in Threads /\ Home(e) = e /\ ThOK /\ p \in Sides /\ p # e /\ Peer(p) = e
  BY HomeFacts, PeerFacts DEF Typed
<1>2. th[e].pc = "idle" /\ th[e].out = <<>>
  BY <1>1, Empty DEF NextMessage
<1>3. /\ Ledger(e, e, p) /\ Counted(e) /\ Counted(p)
      /\ Bytes(wire'[p], Data) \in Nat /\ Bytes(wire'[p], Updates) \in Nat
      /\ Bytes(wire[e], Data) \in Nat /\ Bytes(wire[e], Updates) \in Nat
      /\ ch[e].inBuffer \in Nat /\ ch[e].errBuffer \in Nat /\ ch[e].inSofar \in Nat
      /\ ch[p].inBuffer \in Nat /\ ch[p].errBuffer \in Nat /\ ch[p].inSofar \in Nat
      /\ Pocket(th'[e], "feed") \in Nat
  BY <1>1, LedgerOf DEF Handled
<1>4. /\ Bytes(wire[p], Data) = Size(m, Data) + Bytes(wire'[p], Data) /\ Size(m, Data) \in Nat
      /\ Bytes(wire[p], Updates) = Size(m, Updates) + Bytes(wire'[p], Updates) /\ Size(m, Updates) \in Nat
      /\ Bytes(wire'[e], Data) = Bytes(wire[e], Data) /\ Bytes(wire'[e], Updates) = Bytes(wire[e], Updates)
  BY Popped
<1>5. /\ Bytes(th[e].out, Data) = 0 /\ Bytes(th'[e].out, Data) = 0
      /\ Bytes(th[e].out, Updates) = 0 /\ Bytes(th'[e].out, Updates) = 0
  BY <1>2, BytesEmpty DEF Handled
<1>6. /\ Pocket(th[e], "refeed") = 0 /\ Pocket(th'[e], "refeed") = 0
      /\ Pocket(th[e], "credit") = 0 /\ Pocket(th'[e], "credit") = 0
      /\ Feeding(e, th[e]) = 0 /\ Feeding(e, th'[e]) = Pocket(th'[e], "feed")
  BY <1>2 DEF Pocket, Feeding, Handled
<1>7. /\ Flight(e) \in Nat /\ Held(e) \in Nat /\ Taken(e) \in Nat /\ Returning(e) \in Nat
      /\ Flight(p) \in Nat /\ Held(p) \in Nat /\ Taken(p) \in Nat /\ Returning(p) \in Nat
  BY <1>3 DEF Counted
<1>8. Flight(e)' = Flight(e)
  <2>1. Flight(e)' = Flight(e) - Bytes(th[e].out, Data) + Bytes(th'[e].out, Data)
                               - Bytes(wire[e], Data) + Bytes(wire'[e], Data)
    BY <1>3 DEF Ledger
  <2> QED
    BY <1>3, <1>4, <1>5, <1>7, <2>1
<1>9. Held(e)' = Held(e) /\ Taken(e)' = Taken(e) /\ ch'[p].outWindow = ch[p].outWindow
  <2>1. /\ Held(e)' = Held(e) - ch[p].inBuffer - ch[p].errBuffer + ch'[p].inBuffer + ch'[p].errBuffer
        /\ Taken(e)' = Taken(e) - ch[p].inSofar + ch'[p].inSofar
    BY <1>3 DEF Ledger
  <2>2. /\ ch'[p].inBuffer = ch[p].inBuffer /\ ch'[p].errBuffer = ch[p].errBuffer
        /\ ch'[p].inSofar = ch[p].inSofar /\ ch'[p].outWindow = ch[p].outWindow
    BY DEF SameFields, Handled
  <2> QED
    BY <1>3, <1>7, <2>1, <2>2
<1>10. Returning(p)' = Returning(p)
  <2>1. Returning(p)' = Returning(p) - Bytes(th[e].out, Updates) + Bytes(th'[e].out, Updates)
                                     - Bytes(wire[e], Updates) + Bytes(wire'[e], Updates)
    BY <1>3 DEF Ledger
  <2> QED
    BY <1>3, <1>4, <1>5, <1>7, <2>1
<1>11. Taken(p)' = Taken(p)
  <2>1. Taken(p)' = Taken(p) - ch[e].inSofar + ch'[e].inSofar
                             - Pocket(th[e], "credit") + Pocket(th'[e], "credit")
    BY <1>3 DEF Ledger
  <2>2. ch'[e].inSofar = ch[e].inSofar
    BY DEF Handled
  <2> QED
    BY <1>3, <1>6, <1>7, <2>1, <2>2
<1>12. Returning(e)' = Returning(e) - Size(m, Updates)
  <2>1. Returning(e)' = Returning(e) - Bytes(wire[p], Updates) + Bytes(wire'[p], Updates)
    BY <1>3 DEF Ledger
  <2> QED
    BY <1>3, <1>4, <1>7, <2>1
<1>13. Flight(p)' = Flight(p) - Size(m, Data) + Pocket(th'[e], "feed")
  <2>1. Flight(p)' = Flight(p) - Bytes(wire[p], Data) + Bytes(wire'[p], Data)
                               - Feeding(e, th[e]) + Feeding(e, th'[e])
    BY <1>3 DEF Ledger
  <2> QED
    BY <1>3, <1>4, <1>6, <1>7, <2>1
<1>14. Held(p)' = Held(p) - ch[e].inBuffer - ch[e].errBuffer + ch'[e].inBuffer + ch'[e].errBuffer
  <2>1. Held(p)' = Held(p) - ch[e].inBuffer - ch[e].errBuffer + ch'[e].inBuffer + ch'[e].errBuffer
                           - Pocket(th[e], "refeed") + Pocket(th'[e], "refeed")
    BY <1>3 DEF Ledger
  <2>2. ch'[e].inBuffer \in Nat /\ ch'[e].errBuffer \in Nat
    BY DEF Typed, ChOK, ChannelStates
  <2> QED
    BY <1>3, <1>6, <1>7, <2>1, <2>2
<1> QED
  BY <1>4, <1>8, <1>9, <1>10, <1>11, <1>12, <1>13, <1>14
     DEF SameFlight, SameHeld, SameTaken, SameCredit, SameReturning

\* _feed: data goes from the wire into the buffer.
LEMMA HandleDataKeeps ==
    ASSUME Typed, Typed', NEW e \in Sides, HandleData(e)
    PROVE  \A d \in Sides : Keeps(d)
<1> DEFINE p == Peer(e)
           m == Head(wire[p])
<1>1. e \in Threads /\ ThOK /\ ChOK /\ p \in Sides /\ p # e /\ Peer(p) = e /\ \A d \in Sides : d = e \/ d = p
  BY HomeFacts, PeerFacts DEF Typed, Sides, Peer
<1>2. NextMessage(e) /\ m.type = "data" /\ th[e].pc = "idle" /\ th' = th /\ th[e].out = <<>>
  BY <1>1, Empty DEF HandleData, Incoming, NextMessage
<1>3. m \in Messages /\ m.n = Amount(e) /\ m.n \in Nat
  BY <1>2, Popped DEF Amount, Messages
<1>4. ch' = [ch EXCEPT ![e].inBuffer = ch[e].inBuffer + m.n]
  BY <1>1, <1>3 DEF HandleData, ChOK
<1>5. Others(e) /\ th'[e].out = <<>> /\ th'[e].pc = "idle"
  BY <1>2 DEF Others
<1> HIDE DEF m
<1>6. /\ SameFields(p) /\ ch'[e].inSofar = ch[e].inSofar /\ SameCredit(e)
      /\ ch'[e].inBuffer = ch[e].inBuffer + m.n /\ ch'[e].errBuffer = ch[e].errBuffer
      /\ ch[e].inBuffer \in Nat /\ ch[e].errBuffer \in Nat
  BY <1>1, <1>4 DEF ChOK, ChannelStates, SameFields, SameCredit
<1>7. Size(m, Data) = m.n /\ Size(m, Updates) = 0 /\ Pocket(th'[e], "feed") = 0
  BY <1>2, <1>5 DEF Size, Data, Updates, Pocket, m
<1>8. Counted(e) /\ Counted(p) /\ Counted(p)'
  BY <1>1, CountedAlways, CountedNext
<1>9. /\ SameFlight(e) /\ SameHeld(e) /\ SameTaken(e)
      /\ SameCredit(p) /\ SameReturning(p) /\ SameTaken(p)
      /\ Returning(e)' = Returning(e) - Size(m, Updates)
      /\ Flight(p)' = Flight(p) - Size(m, Data) + Pocket(th'[e], "feed")
      /\ Held(p)' = Held(p) - ch[e].inBuffer - ch[e].errBuffer + ch'[e].inBuffer + ch'[e].errBuffer
  BY <1>2, <1>5, <1>6, HandlerLedger DEF m, Handled
<1> HIDE DEF p
<1>10. SameReturning(e)
  BY <1>7, <1>8, <1>9 DEF Counted, SameReturning
<1>11. Flight(p)' = Flight(p) - m.n /\ m.n <= Flight(p)
  BY <1>3, <1>7, <1>8, <1>9 DEF Counted
<1>12. Held(p)' = Held(p) + m.n
  BY <1>3, <1>6, <1>8, <1>9 DEF Counted
<1>13. Shifts(Flight(p), Flight(p)', Held(p), Held(p)')
  BY <1>3, <1>11, <1>12 DEF Shifts
<1>14. Keeps(p)
  BY <1>9, <1>13 DEF Keeps
<1>15. Keeps(e)
  BY <1>6, <1>8, <1>9, <1>10, StillKeeps
<1> QED
  BY <1>1, <1>14, <1>15

\* _feed_extended, up to its call of feed.
LEMMA HandleExtendedKeeps ==
    ASSUME Typed, Typed', NEW e \in Sides, HandleExtended(e)
    PROVE  \A d \in Sides : Keeps(d)
<1> DEFINE p == Peer(e)
           m == Head(wire[p])
           call == IF ch[e].combine THEN "in" ELSE "err"
           x == [th[e] EXCEPT !.pc = "feed", !.n = m.n, !.call = call]
<1>1. /\ e \in Threads /\ ThOK /\ ChOK /\ p \in Sides /\ p # e /\ Peer(p) = e /\ th[e] \in GoodThreads
      /\ \A d \in Sides : d = e \/ d = p
  BY HomeFacts, PeerFacts DEF Typed, Sides, Peer, ThOK
<1>2. NextMessage(e) /\ m.type = "ext" /\ ch' = ch /\ th[e].out = <<>>
  BY <1>1, Empty DEF HandleExtended, Incoming, NextMessage
<1>3. m \in Messages /\ m.n = Amount(e) /\ m.n \in Nat
  BY <1>2, Popped DEF Amount, Messages
<1>4. th' = [th EXCEPT ![e] = x]
  BY <1>1, <1>3 DEF HandleExtended, ThOK
<1>5. x.pc = "feed" /\ x.n = m.n /\ x.out = <<>>
  <2> HIDE DEF m, call
  <2> QED
    BY <1>1, <1>2 DEF GoodThreads, ThreadStates
<1> HIDE DEF x
<1>6. Others(e) /\ th'[e].out = <<>> /\ th'[e].pc = "feed" /\ th'[e].n = m.n
  BY <1>1, <1>4, <1>5, OthersReplaced
<1> HIDE DEF m
<1>7. /\ SameFields(p) /\ ch'[e].inSofar = ch[e].inSofar /\ SameCredit(e)
      /\ ch'[e].inBuffer = ch[e].inBuffer /\ ch'[e].errBuffer = ch[e].errBuffer
      /\ ch[e].inBuffer \in Nat /\ ch[e].errBuffer \in Nat
  BY <1>1, <1>2 DEF ChOK, ChannelStates, SameFields, SameCredit
<1>8. Size(m, Data) = m.n /\ Size(m, Updates) = 0 /\ Pocket(th'[e], "feed") = m.n
  BY <1>2, <1>6 DEF Size, Data, Updates, Pocket, m
<1>9. Counted(e) /\ Counted(p)
  BY <1>1, CountedAlways
<1>10. /\ SameFlight(e) /\ SameHeld(e) /\ SameTaken(e)
       /\ SameCredit(p) /\ SameReturning(p) /\ SameTaken(p)
       /\ Returning(e)' = Returning(e) - Size(m, Updates)
       /\ Flight(p)' = Flight(p) - Size(m, Data) + Pocket(th'[e], "feed")
       /\ Held(p)' = Held(p) - ch[e].inBuffer - ch[e].errBuffer + ch'[e].inBuffer + ch'[e].errBuffer
  BY <1>2, <1>6, <1>7, HandlerLedger DEF m, Handled
<1> HIDE DEF p
<1>11. SameReturning(e)
  BY <1>8, <1>9, <1>10 DEF Counted, SameReturning
<1>12. SameFlight(p) /\ SameHeld(p)
  BY <1>3, <1>7, <1>8, <1>9, <1>10 DEF Counted, SameFlight, SameHeld
<1> QED
  BY <1>1, <1>7, <1>9, <1>10, <1>11, <1>12, StillKeeps

\* The rest of _feed_extended.
LEMMA FeedExtendedKeeps ==
    ASSUME Typed, Typed', NEW e \in Sides, FeedExtended(e)
    PROVE  \A d \in Sides : Keeps(d)
<1> DEFINE p == Peer(e)
           n == th[e].n
<1>1. /\ e \in Threads /\ Home(e) = e /\ ThOK /\ ChOK /\ p \in Sides /\ p # e /\ Peer(p) = e
      /\ th[e] \in GoodThreads /\ ch[e] \in ChannelStates
      /\ \A d \in Sides : d = e \/ d = p
  BY HomeFacts, PeerFacts DEF Typed, Sides, Peer, ThOK, ChOK
<1>2. th[e].pc = "feed" /\ wire' = wire /\ th' = [th EXCEPT ![e].pc = "idle", ![e].n = 0]
  BY DEF FeedExtended
<1>3. Others(e) /\ th'[e].pc = "idle" /\ th'[e].out = <<>> /\ th[e].out = <<>>
  BY <1>1, <1>2, MoveCarry
<1>4. n \in Nat /\ (ch' = [ch EXCEPT ![e].inBuffer = ch[e].inBuffer + n]
                    \/ ch' = [ch EXCEPT ![e].errBuffer = ch[e].errBuffer + n])
  BY <1>1, GoodThreadTypes DEF FeedExtended, ChOK
<1>5. /\ Pocket(th[e], "feed") = n /\ Pocket(th'[e], "feed") = 0
      /\ Pocket(th[e], "refeed") = 0 /\ Pocket(th'[e], "refeed") = 0
      /\ Pocket(th[e], "credit") = 0 /\ Pocket(th'[e], "credit") = 0
      /\ Feeding(e, th[e]) = n /\ Feeding(e, th'[e]) = 0
  BY <1>2, <1>3 DEF Pocket, Feeding
<1>6. /\ SameFields(p) /\ SameCredit(e) /\ SameCredit(p) /\ ch'[e].inSofar = ch[e].inSofar
      /\ \/ ch'[e].inBuffer = ch[e].inBuffer + n /\ ch'[e].errBuffer = ch[e].errBuffer
         \/ ch'[e].inBuffer = ch[e].inBuffer /\ ch'[e].errBuffer = ch[e].errBuffer + n
  <2> HIDE DEF n
  <2> QED
    BY <1>1, <1>4 DEF ChOK, ChannelStates, SameFields, SameCredit
<1>7. /\ Bytes(th[e].out, Data) = 0 /\ Bytes(th'[e].out, Data) = 0
      /\ Bytes(th[e].out, Updates) = 0 /\ Bytes(th'[e].out, Updates) = 0
  BY <1>3, BytesEmpty
<1>8. /\ Ledger(e, e, p) /\ Counted(e) /\ Counted(p)
      /\ Bytes(wire[e], Data) \in Nat /\ Bytes(wire[e], Updates) \in Nat
      /\ Bytes(wire[p], Data) \in Nat /\ Bytes(wire[p], Updates) \in Nat
      /\ ch[e].inBuffer \in Nat /\ ch[e].errBuffer \in Nat /\ ch[e].inSofar \in Nat
      /\ ch[p].inBuffer \in Nat /\ ch[p].errBuffer \in Nat /\ ch[p].inSofar \in Nat
  BY <1>1, <1>3, LedgerOf
<1>9. Counted(p)'
  BY <1>1, CountedNext
<1> HIDE DEF p, n
<1>10. SameFlight(e) /\ SameReturning(e) /\ SameReturning(p)
  BY <1>2, <1>7, <1>8 DEF Ledger, Counted, SameFlight, SameReturning
<1>11. SameHeld(e) /\ SameTaken(e)
  BY <1>6, <1>8 DEF Ledger, Counted, SameHeld, SameTaken, SameFields
<1>12. SameTaken(p)
  BY <1>5, <1>6, <1>8 DEF Ledger, Counted, SameTaken
<1>13. Held(p)' = Held(p) + n
  <2>1. Held(p)' = Held(p) - ch[e].inBuffer - ch[e].errBuffer + ch'[e].inBuffer + ch'[e].errBuffer
                           - Pocket(th[e], "refeed") + Pocket(th'[e], "refeed")
    BY <1>8 DEF Ledger
  <2> QED
    BY <1>4, <1>5, <1>6, <1>8, <2>1 DEF Counted
<1>14. Flight(p)' = Flight(p) - n
  <2>1. Flight(p)' = Flight(p) - Bytes(wire[p], Data) + Bytes(wire'[p], Data)
                               - Feeding(e, th[e]) + Feeding(e, th'[e])
    BY <1>8 DEF Ledger
  <2> QED
    BY <1>2, <1>4, <1>5, <1>8, <2>1 DEF Counted
<1>15. n <= Flight(p)
  BY <1>4, <1>8, <1>9, <1>14 DEF Counted
<1>16. Shifts(Flight(p), Flight(p)', Held(p), Held(p)')
  BY <1>4, <1>13, <1>14, <1>15 DEF Shifts
<1>17. Keeps(p)
  BY <1>6, <1>10, <1>12, <1>16 DEF Keeps
<1>18. Keeps(e)
  BY <1>6, <1>8, <1>10, <1>11, StillKeeps
<1> QED
  BY <1>1, <1>17, <1>18

\* _window_adjust: an update becomes credit.
LEMMA AdjustKeeps ==
    ASSUME Typed, Typed', NEW e \in Sides, HandleWindowAdjust(e)
    PROVE  \A d \in Sides : Keeps(d)
<1> DEFINE p == Peer(e)
           m == Head(wire[p])
<1>1. e \in Threads /\ ThOK /\ ChOK /\ p \in Sides /\ p # e /\ Peer(p) = e /\ \A d \in Sides : d = e \/ d = p
  BY HomeFacts, PeerFacts DEF Typed, Sides, Peer
<1>2. NextMessage(e) /\ m.type = "adjust" /\ th[e].pc = "idle" /\ th' = Wake(th, e) /\ th[e].out = <<>>
  BY <1>1, Empty DEF HandleWindowAdjust, Incoming, NextMessage
<1>3. m \in Messages /\ m.n = Amount(e) /\ m.n \in Nat
  BY <1>2, Popped DEF Amount, Messages
<1>4. ch' = [ch EXCEPT ![e].outWindow = ch[e].outWindow + m.n]
  BY <1>1, <1>3 DEF HandleWindowAdjust, ChOK
<1>5. Others(e) /\ th'[e] = th[e]
  <2>1. Wake(th, e)[e] = th[e]
    BY <1>1, <1>2, WakeFacts
  <2>2. th' = [Wake(th, e) EXCEPT ![e] = th[e]]
    BY <1>1, <1>2, <2>1, WakeFacts
  <2> QED
    BY <1>1, <2>2, OthersWoken
<1> HIDE DEF m
<1>6. /\ SameFields(p) /\ ch'[e].inSofar = ch[e].inSofar
      /\ ch'[e].outWindow = ch[e].outWindow + m.n
      /\ ch'[e].inBuffer = ch[e].inBuffer /\ ch'[e].errBuffer = ch[e].errBuffer
      /\ ch[e].inBuffer \in Nat /\ ch[e].errBuffer \in Nat /\ ch[e].outWindow \in Nat
  BY <1>1, <1>4 DEF ChOK, ChannelStates, SameFields
<1>7. Size(m, Data) = 0 /\ Size(m, Updates) = m.n /\ Pocket(th'[e], "feed") = 0
  BY <1>2, <1>5 DEF Size, Data, Updates, Pocket, m
<1>8. Counted(e) /\ Counted(p) /\ Counted(e)'
  BY <1>1, CountedAlways, CountedNext
<1>9. /\ SameFlight(e) /\ SameHeld(e) /\ SameTaken(e)
      /\ SameCredit(p) /\ SameReturning(p) /\ SameTaken(p)
      /\ Returning(e)' = Returning(e) - Size(m, Updates)
      /\ Flight(p)' = Flight(p) - Size(m, Data) + Pocket(th'[e], "feed")
      /\ Held(p)' = Held(p) - ch[e].inBuffer - ch[e].errBuffer + ch'[e].inBuffer + ch'[e].errBuffer
  <2>1. Handled(e, p)
    BY <1>2, <1>5, <1>6 DEF Handled
  <2> QED
    BY <1>2, <2>1, HandlerLedger DEF m
<1> HIDE DEF p
<1>10. Returning(e)' = Returning(e) - m.n /\ m.n <= Returning(e)
  BY <1>3, <1>7, <1>8, <1>9 DEF Counted
<1>11. SameFlight(p) /\ SameHeld(p)
  BY <1>6, <1>7, <1>8, <1>9 DEF Counted, SameFlight, SameHeld
<1>12. Shifts(Returning(e), Returning(e)', ch[e].outWindow, ch'[e].outWindow)
  BY <1>3, <1>6, <1>10 DEF Shifts
<1>13. Keeps(e)
  BY <1>9, <1>12 DEF Keeps
<1>14. Keeps(p)
  BY <1>1, <1>8, <1>9, <1>11, StillKeeps
<1> QED
  BY <1>1, <1>13, <1>14

\* A message for a channel that is no longer linked: both ends have closed it.
LEMMA IgnoreAccounted ==
    ASSUME Typed, Typed', AllEndsKnown, NEW e \in Sides, Ignore(e)
    PROVE  \A d \in Sides : Accounted(d)
<1> DEFINE p == Peer(e)
           m == Head(wire[p])
<1>1. e \in Threads /\ ThOK /\ ChOK /\ p \in Sides /\ p # e /\ Peer(p) = e /\ \A d \in Sides : d = e \/ d = p
  BY HomeFacts, PeerFacts DEF Typed, Sides, Peer
<1>2. NextMessage(e) /\ th[e].pc = "idle" /\ th' = th /\ ch' = ch /\ up' = up /\ th[e].out = <<>> /\ ~ch[e].linked
  BY <1>1, Empty DEF Ignore, NextMessage
<1>3. ~Reading(e)' /\ ~Reading(p)'
  <2>1. EndsKnown(e) /\ EndsKnown(p)
    BY <1>1 DEF AllEndsKnown
  <2>2. ch[e].closed /\ (~up[e] \/ ch[p].closed)
    BY <1>1, <1>2, <2>1 DEF EndsKnown
  <2> QED
    BY <1>1, <1>2, <2>2 DEF Reading
<1>4. /\ Handled(e, p) /\ SameFields(e) /\ SameCredit(e)
  <2>1. Others(e) /\ th'[e].out = <<>> /\ th'[e].pc = "idle"
    BY <1>2 DEF Others
  <2>2. SameFields(e) /\ SameFields(p) /\ ch'[e].inSofar = ch[e].inSofar /\ SameCredit(e)
    BY <1>2 DEF SameFields, SameCredit
  <2> QED
    BY <2>1, <2>2 DEF Handled
<1> HIDE DEF m
<1>5. /\ SameFlight(e) /\ SameHeld(e) /\ SameTaken(e)
      /\ SameCredit(p) /\ SameReturning(p) /\ SameTaken(p)
      /\ Returning(e)' = Returning(e) - Size(m, Updates) /\ Size(m, Updates) \in Nat
      /\ Flight(p)' = Flight(p) - Size(m, Data) + Pocket(th'[e], "feed") /\ Size(m, Data) \in Nat
      /\ Held(p)' = Held(p) - ch[e].inBuffer - ch[e].errBuffer + ch'[e].inBuffer + ch'[e].errBuffer
  BY <1>2, <1>4, HandlerLedger DEF m
<1>6. Counted(e) /\ Counted(p) /\ Counted(e)' /\ Counted(p)'
  BY <1>1, CountedAlways, CountedNext
<1>7. Pocket(th'[e], "feed") = 0 /\ ch[e].inBuffer \in Nat /\ ch[e].errBuffer \in Nat
  BY <1>1, <1>2 DEF Pocket, ChOK, ChannelStates
<1> HIDE DEF p
<1>8. Returning(e)' \in 0 .. Returning(e)
  BY <1>5, <1>6 DEF Counted
<1>9. Flight(p)' \in 0 .. Flight(p)
  BY <1>5, <1>6, <1>7 DEF Counted
<1>10. SameHeld(p)
  BY <1>4, <1>5, <1>6, <1>7 DEF Counted, SameHeld, SameFields
<1>11. Loses(e) /\ Loses(p)
  BY <1>4, <1>5, <1>8, <1>9, <1>10 DEF Loses
<1> QED
  BY <1>1, <1>3, <1>11 DEF Accounted

\* The end of Transport.run: what its thread was sending is dropped.
LEMMA DieAccounted ==
    ASSUME Typed, Typed', NEW e \in Sides, Die(e), th[e].pc \in {"idle", "transmit"}
    PROVE  \A d \in Sides : Accounted(d)
<1> DEFINE p == Peer(e)
           w == Wake(th, e)
           x == [w[e] EXCEPT !.pc = "dead", !.out = <<>>]
<1>1. /\ e \in Threads /\ Home(e) = e /\ ThOK /\ ChOK /\ UpOK /\ p \in Sides /\ p # e /\ Peer(p) = e
      /\ ch[e] \in ChannelStates /\ \A d \in Sides : d = e \/ d = p
  BY HomeFacts, PeerFacts DEF Typed, Sides, Peer, ChOK
<1>2. w \in [Threads -> GoodThreads]
  BY <1>1, WakeFacts
<1>3. th' = [w EXCEPT ![e] = x]
  <2>1. th' = [w EXCEPT ![e].pc = "dead", ![e].out = <<>>]
    BY DEF Die
  <2> HIDE DEF w
  <2> QED
    BY <1>1, <1>2, <2>1 DEF x
<1>4. x.pc = "dead" /\ x.out = <<>>
  <2>1. w[e] \in GoodThreads
    BY <1>1, <1>2
  <2> HIDE DEF w
  <2> QED
    BY <2>1 DEF GoodThreads, ThreadStates
<1>5. Others(e) /\ th'[e].pc = "dead" /\ th'[e].out = <<>>
  <2> HIDE DEF x
  <2>1. th' = [Wake(th, e) EXCEPT ![e] = x]
    BY <1>3
  <2> QED
    BY <1>1, <1>4, <2>1, OthersWoken
<1>6. \A s \in Sides : SameFields(s)
  <2>1. ch' = ch \/ ch' = [ch EXCEPT ![e] = [SetClosed(ch[e]) EXCEPT !.linked = FALSE]]
    BY DEF Die
  <2> QED
    BY <1>1, <2>1, FieldsUnchanged, CloseFields, FieldsReplaced
<1>7. ~Reading(e)' /\ ~Reading(p)' /\ wire' = wire
  <2>1. up'[e] = FALSE /\ wire' = wire
    BY <1>1 DEF Die, UpOK
  <2> QED
    BY <1>1, <2>1 DEF Reading
<1>8. SameFields(e) /\ SameFields(p) /\ SameCredit(e) /\ SameCredit(p)
  BY <1>1, <1>6 DEF SameFields, SameCredit
<1>9. /\ Pocket(th[e], "refeed") = 0 /\ Pocket(th'[e], "refeed") = 0
      /\ Pocket(th[e], "credit") = 0 /\ Pocket(th'[e], "credit") = 0
      /\ Feeding(e, th[e]) = 0 /\ Feeding(e, th'[e]) = 0
  BY <1>5 DEF Pocket, Feeding
<1>10. Bytes(th'[e].out, Data) = 0 /\ Bytes(th'[e].out, Updates) = 0
  BY <1>5, BytesEmpty
<1>11. /\ Ledger(e, e, p) /\ Counted(e) /\ Counted(p)
       /\ Bytes(th[e].out, Data) \in Nat /\ Bytes(th[e].out, Updates) \in Nat
       /\ Bytes(wire[e], Data) \in Nat /\ Bytes(wire[e], Updates) \in Nat
       /\ Bytes(wire[p], Data) \in Nat /\ Bytes(wire[p], Updates) \in Nat
       /\ ch[e].inBuffer \in Nat /\ ch[e].errBuffer \in Nat /\ ch[e].inSofar \in Nat
       /\ ch[p].inBuffer \in Nat /\ ch[p].errBuffer \in Nat /\ ch[p].inSofar \in Nat
  BY <1>1, <1>5, LedgerOf
<1>12. Counted(e)' /\ Counted(p)'
  BY <1>1, CountedNext
<1> HIDE DEF p, w, x
<1>13. Flight(e)' = Flight(e) - Bytes(th[e].out, Data)
  BY <1>7, <1>10, <1>11 DEF Ledger, Counted
<1>14. Returning(p)' = Returning(p) - Bytes(th[e].out, Updates)
  BY <1>7, <1>10, <1>11 DEF Ledger, Counted
<1>15. SameReturning(e)
  BY <1>7, <1>11 DEF Ledger, Counted, SameReturning
<1>16. SameFlight(p)
  BY <1>7, <1>9, <1>11 DEF Ledger, Counted, SameFlight
<1>17. SameHeld(e) /\ SameTaken(e)
  BY <1>8, <1>11 DEF Ledger, Counted, SameHeld, SameTaken, SameFields
<1>18. SameHeld(p) /\ SameTaken(p)
  BY <1>8, <1>9, <1>11 DEF Ledger, Counted, SameHeld, SameTaken, SameFields
<1>19. Flight(e)' \in 0 .. Flight(e) /\ Returning(p)' \in 0 .. Returning(p)
  BY <1>11, <1>12, <1>13, <1>14 DEF Counted
<1>20. Loses(e) /\ Loses(p)
  BY <1>8, <1>15, <1>16, <1>17, <1>18, <1>19 DEF Loses
<1> QED
  BY <1>1, <1>7, <1>20 DEF Accounted

-----------------------------------------------------------------------------
(* Every step accounts for the bytes of both directions                     *)

\* The step of a user.
LEMMA UserAccounted ==
    ASSUME Typed, Typed', NEW u \in Users, UserCalls(u) \/ UserRuns(u) \/ TimesOut(u)
    PROVE  \A d \in Sides : Accounted(d)
<1>1. u \in Threads
  BY HomeFacts
<1>2. CASE Quiet(u) /\ wire' = wire
  BY <1>1, <1>2, WiresUnchanged, QuietKeeps DEF Accounted
<1>3. CASE UserCalls(u)
  BY <1>2, <1>3, QuietCalls, QuietClose, QuietShutdown, CombineKeeps DEF UserCalls, Accounted
<1>4. CASE Send(u) \/ SendResumes(u)
  BY <1>2, <1>4, QuietSends, AllocateKeeps DEF Accounted
<1>5. CASE Recv(u) \/ Refeed(u)
  BY <1>5, RecvKeeps, CombineKeeps DEF Accounted
<1>6. CASE Credit(u) \/ Transmit(u)
  BY <1>1, <1>6, CreditAccounted, TransmitAccounted
<1>7. CASE ShutdownWrite(u)
  BY <1>2, <1>7, QuietShutdown
<1>8. CASE EventPending(u) \/ WaitForEvent(u) \/ RecvExitStatus(u) \/ TimesOut(u)
  BY <1>2, <1>8, QuietRuns
<1> QED
  BY <1>3, <1>4, <1>5, <1>6, <1>7, <1>8 DEF UserRuns

\* The step of a transport thread.
LEMMA TransportAccounted ==
    ASSUME Typed, Typed', AllEndsKnown, NEW e \in Sides, TransportRuns(e) \/ ConnectionLost(e)
    PROVE  \A d \in Sides : Accounted(d)
<1>1. e \in Threads
  BY HomeFacts
<1>2. CASE HandleData(e) \/ HandleExtended(e) \/ FeedExtended(e) \/ HandleWindowAdjust(e)
  BY <1>2, HandleDataKeeps, HandleExtendedKeeps, FeedExtendedKeeps, AdjustKeeps DEF Accounted
<1>3. CASE \/ HandleEof(e) \/ HandleClose(e) \/ HandleRequest(e)
           \/ RequestSuccess(e) \/ RequestFailed(e) \/ HandleExitStatus(e)
  BY <1>1, <1>3, QuietHandlers, QuietKeeps DEF Accounted
<1>4. CASE Ignore(e) \/ Transmit(e)
  BY <1>1, <1>4, IgnoreAccounted, TransmitAccounted
<1>5. CASE EndOfStream(e) \/ ConnectionLost(e)
  <2>1. Die(e) /\ th[e].pc \in {"idle", "transmit"}
    BY <1>5 DEF EndOfStream, ConnectionLost
  <2> QED
    BY <2>1, DieAccounted
<1> QED
  BY <1>2, <1>3, <1>4, <1>5 DEF TransportRuns

\* A step of anybody.
LEMMA StepAccounted ==
    ASSUME Typed, AllEndsKnown, Next
    PROVE  \A d \in Sides : Accounted(d)
<1>1. Typed'
  BY NextTyped
<1> QED
  BY <1>1, UserAccounted, TransportAccounted DEF Next

\* How a step changes the channel of side e.
ChannelChange(e) ==
    \/ ch' = ch
    \/ \E n : ch' = [ch EXCEPT ![e].outWindow = n]
    \/ \E n : ch' = [ch EXCEPT ![e].inBuffer = n]
    \/ \E n : ch' = [ch EXCEPT ![e].errBuffer = n]
    \/ \E n : ch' = [ch EXCEPT ![e].inSofar = n] /\ n <= Threshold
    \/ \E b, n : ch' = [ch EXCEPT ![e].combine = b, ![e].errBuffer = n]
    \/ \E b : ch' = [ch EXCEPT ![e].event = b, ![e].eventReady = b]
    \/ ch' = [ch EXCEPT ![e].eofSent = TRUE]
    \/ ch' = [ch EXCEPT ![e].status = TRUE]
    \/ ch' = [ch EXCEPT ![e].eofReceived = TRUE]
    \/ ch' = [ch EXCEPT ![e].eofReceived = TRUE, ![e].bufClosed = TRUE]
    \/ ch' = [ch EXCEPT ![e] = CloseInternal(ch[e])]
    \/ ch' = [ch EXCEPT ![e] = [CloseInternal(ch[e]) EXCEPT !.linked = FALSE]]
    \/ ch' = [ch EXCEPT ![e] = [SetClosed(ch[e]) EXCEPT !.linked = FALSE]]

\* What a step of a user thread does to the channels.
LEMMA UserChanges ==
    ASSUME Typed, NEW u \in Users, UserCalls(u) \/ UserRuns(u) \/ TimesOut(u)
    PROVE  ChannelChange(SideOf[u]) /\ up' = up
<1>1. SideOf[u] \in Sides /\ ChOK
  BY HomeFacts DEF Typed
<1>2. CASE UserCalls(u)
  <2>1. CASE \/ \E n \in SendSizes, m \in Methods : CallSend(u, m, n)
             \/ \E n \in ReadSizes, m \in Methods : CallRecv(u, m, n)
             \/ CallRequest(u) \/ CallSendExitStatus(u) \/ CallRecvExitStatus(u)
    BY <2>1 DEF CallSend, CallRecv, CallRequest, CallSendExitStatus, CallRecvExitStatus, ChannelChange
  <2>2. CASE CallClose(u) \/ \E m \in Methods : CallShutdown(u, m)
    BY <2>2 DEF CallClose, CallShutdown, SendEof, ChannelChange
  <2>3. ASSUME NEW m \in Methods, CallCombine(u, m) PROVE ChannelChange(SideOf[u]) /\ up' = up
    <3> DEFINE e == SideOf[u]
               on == m = "combine_stderr"
               moved == IF on /\ ~ch[e].combine THEN ch[e].errBuffer ELSE 0
               left == ch[e].errBuffer - moved
    <3>1. ch' = [ch EXCEPT ![e].combine = on, ![e].errBuffer = left] /\ up' = up
      <4>1. ch[e] \in ChannelStates
        BY <1>1 DEF ChOK
      <4> QED
        BY <1>1, <2>3, <4>1 DEF CallCombine, ChOK, ChannelStates
    <3> HIDE DEF e, on, left
    <3>2. \E b, n : ch' = [ch EXCEPT ![e].combine = b, ![e].errBuffer = n]
      BY <3>1
    <3>3. ChannelChange(e)
      BY <3>2 DEF ChannelChange
    <3> QED
      BY <3>1, <3>3 DEF e
  <2> QED
    BY <1>2, <2>1, <2>2, <2>3 DEF UserCalls
<1>3. CASE Send(u) \/ SendResumes(u)
  BY <1>1, <1>3 DEF Send, SendResumes, Allocate, SentNothing, SendBlocks, ChannelChange
<1>4. CASE Recv(u) \/ Refeed(u)
  BY <1>1, <1>4 DEF Recv, Refeed, ChannelChange
<1>5. CASE Credit(u)
  <2>1. 0 <= Threshold
    BY WindowAssumption DEF Threshold
  <2> QED
    BY <1>1, <1>5, <2>1 DEF Credit, ChannelChange
<1>6. CASE \/ Transmit(u) \/ ShutdownWrite(u) \/ EventPending(u) \/ WaitForEvent(u) \/ RecvExitStatus(u)
           \/ TimesOut(u)
  BY <1>1, <1>6 DEF Transmit, ShutdownWrite, SendEof, EventPending, WaitForEvent, RecvExitStatus, TimesOut, ChannelChange
<1> QED
  BY <1>2, <1>3, <1>4, <1>5, <1>6 DEF UserRuns

\* What a step of a transport thread does to the channels.
LEMMA TransportChanges ==
    ASSUME Typed, NEW e \in Sides, TransportRuns(e) \/ ConnectionLost(e)
    PROVE  ChannelChange(e) /\ (up' = up \/ up' = [up EXCEPT ![e] = FALSE])
<1>1. CASE \/ Ignore(e) \/ HandleData(e) \/ HandleExtended(e) \/ FeedExtended(e) \/ HandleWindowAdjust(e)
  BY <1>1 DEF Ignore, HandleData, HandleExtended, FeedExtended, HandleWindowAdjust, ChannelChange
<1>2. CASE \/ HandleEof(e) \/ HandleClose(e) \/ HandleRequest(e)
           \/ RequestSuccess(e) \/ RequestFailed(e) \/ HandleExitStatus(e) \/ Transmit(e)
  BY <1>2 DEF HandleEof, HandleClose, HandleRequest, RequestSuccess, RequestFailed, HandleExitStatus, Transmit, ChannelChange
<1>3. CASE EndOfStream(e) \/ ConnectionLost(e)
  BY <1>3 DEF EndOfStream, ConnectionLost, Die, ChannelChange
<1> QED
  BY <1>1, <1>2, <1>3 DEF TransportRuns

\* What has not been credited is below the threshold of _check_add_window.
BelowThreshold == \A e \in Sides : ch[e].inSofar <= Threshold

\* An end that closed, saw EOF or died stays so, and inSofar stays below the threshold.
LEMMA ChangeFacts ==
    ASSUME ChOK, NEW e \in Sides, ChannelChange(e), NEW s \in Sides
    PROVE  /\ ch[s].closed => ch'[s].closed
           /\ ch[s].eofReceived => ch'[s].eofReceived
           /\ ch'[s].inSofar = ch[s].inSofar \/ ch'[s].inSofar <= Threshold
<1>1. ch[e] \in ChannelStates /\ ch[s] \in ChannelStates
  BY DEF ChOK
<1>2. CASE s # e
  BY <1>1, <1>2 DEF ChOK, ChannelChange
<1>3. CASE s = e
  <2>1. CASE \/ ch' = [ch EXCEPT ![e] = CloseInternal(ch[e])]
             \/ ch' = [ch EXCEPT ![e] = [CloseInternal(ch[e]) EXCEPT !.linked = FALSE]]
             \/ ch' = [ch EXCEPT ![e] = [SetClosed(ch[e]) EXCEPT !.linked = FALSE]]
    <3> DEFINE c == ch[e]
    <3>1. \A b \in {CloseInternal(c), [CloseInternal(c) EXCEPT !.linked = FALSE],
                    [SetClosed(c) EXCEPT !.linked = FALSE]} :
             /\ c.closed => b.closed
             /\ b.eofReceived = c.eofReceived /\ b.inSofar = c.inSofar
      BY <1>1 DEF CloseInternal, SetClosed, ChannelStates
    <3>2. ch'[e] \in {CloseInternal(c), [CloseInternal(c) EXCEPT !.linked = FALSE],
                      [SetClosed(c) EXCEPT !.linked = FALSE]}
      BY <2>1 DEF ChOK
    <3> QED
      BY <1>3, <3>1, <3>2
  <2>2. CASE \/ ch' = ch
             \/ \E n : ch' = [ch EXCEPT ![e].outWindow = n]
             \/ \E n : ch' = [ch EXCEPT ![e].inBuffer = n]
             \/ \E n : ch' = [ch EXCEPT ![e].errBuffer = n]
             \/ \E n : ch' = [ch EXCEPT ![e].inSofar = n] /\ n <= Threshold
             \/ \E b, n : ch' = [ch EXCEPT ![e].combine = b, ![e].errBuffer = n]
    BY <1>1, <1>3, <2>2 DEF ChOK, ChannelStates
  <2>3. ASSUME NEW b, \/ ch' = [ch EXCEPT ![e].event = b, ![e].eventReady = b]
                      \/ ch' = [ch EXCEPT ![e].eofSent = TRUE]
                      \/ ch' = [ch EXCEPT ![e].status = TRUE]
        PROVE  ch'[e].closed = ch[e].closed /\ ch'[e].eofReceived = ch[e].eofReceived /\ ch'[e].inSofar = ch[e].inSofar
    BY <1>1, <2>3 DEF ChOK, ChannelStates
  <2>4. CASE \/ ch' = [ch EXCEPT ![e].eofReceived = TRUE]
             \/ ch' = [ch EXCEPT ![e].eofReceived = TRUE, ![e].bufClosed = TRUE]
    <3>1. ch'[e].closed = ch[e].closed /\ ch'[e].eofReceived = TRUE /\ ch'[e].inSofar = ch[e].inSofar
      BY <1>1, <2>4 DEF ChOK, ChannelStates
    <3> QED
      BY <1>3, <3>1
  <2> QED
    BY <1>3, <2>1, <2>2, <2>3, <2>4 DEF ChannelChange
<1> QED
  BY <1>2, <1>3

\* An end that has stopped reading does not start again, and what is unacknowledged
\* stays below the threshold of _check_add_window.
LEMMA EndsStay ==
    ASSUME Typed, Next
    PROVE  /\ \A d \in Sides : Reading(d)' => Reading(d)
           /\ BelowThreshold => BelowThreshold'
<1>1. PICK e \in Sides : ChannelChange(e) /\ (up' = up \/ up' = [up EXCEPT ![e] = FALSE])
  BY UserChanges, TransportChanges, HomeFacts DEF Next
<1>2. \A s \in Sides : /\ ch[s].closed => ch'[s].closed
                       /\ ch[s].eofReceived => ch'[s].eofReceived
                       /\ ch'[s].inSofar = ch[s].inSofar \/ ch'[s].inSofar <= Threshold
  BY <1>1, ChangeFacts DEF Typed
<1>3. \A s \in Sides : up'[s] => up[s]
  BY <1>1 DEF Typed, UpOK
<1>4. \A d \in Sides : Reading(d)' => Reading(d)
  BY <1>2, <1>3, PeerFacts DEF Reading
<1>5. BelowThreshold => BelowThreshold'
  BY <1>2 DEF BelowThreshold
<1> QED
  BY <1>4, <1>5

-----------------------------------------------------------------------------
(* The refinement and the invariants                                        *)

\* At first the sender has the whole window.
LEMMA FlowInit ==
    ASSUME Init, NEW d \in Sides
    PROVE  /\ ch[d].outWindow = Window
           /\ Flight(d) = 0 /\ Held(d) = 0 /\ Taken(d) = 0 /\ Returning(d) = 0
           /\ InUse(d) = Window
<1>1. Peer(d) \in Sides /\ \A s \in Sides : s \in Threads
  BY PeerFacts, HomeFacts
<1>2. \A t \in Threads : th[t].pc = "idle"
  BY DEF Init
<1>3. \A s \in Sides : \A types, place :
         /\ Prepared(s, types) = 0
         /\ place # "idle" => Carried(s, place) = 0
         /\ Bytes(wire[s], types) = 0 /\ Fed(s) = 0
  <2> SUFFICES ASSUME NEW s \in Sides, NEW types, NEW place
               PROVE  /\ Prepared(s, types) = 0
                      /\ place # "idle" => Carried(s, place) = 0
                      /\ Bytes(wire[s], types) = 0 /\ Fed(s) = 0
    OBVIOUS
  <2>1. ThreadsAt(s, "transmit") = {} /\ (place # "idle" => ThreadsAt(s, place) = {})
    BY <1>2 DEF ThreadsAt
  <2>2. Prepared(s, types) = 0
    <3>1. [t \in ThreadsAt(s, "transmit") |-> Bytes(th[t].out, types)] \in [{} -> Nat]
      BY <2>1
    <3> QED
      BY <3>1, TotalEmpty DEF Prepared
  <2>3. ASSUME place # "idle" PROVE Carried(s, place) = 0
    <3>1. [t \in ThreadsAt(s, place) |-> th[t].n] \in [{} -> Nat]
      BY <2>1, <2>3
    <3> QED
      BY <3>1, TotalEmpty DEF Carried
  <2>4. wire[s] = <<>>
    BY DEF Init
  <2> QED
    BY <1>1, <1>2, <2>2, <2>3, <2>4, BytesEmpty DEF Fed
<1>4. \A s \in Sides : /\ ch[s].outWindow = Window /\ ch[s].inSofar = 0
                       /\ ch[s].inBuffer = 0 /\ ch[s].errBuffer = 0
  BY DEF Init, NewChannel
<1>5. Flight(d) = 0 /\ Held(d) = 0 /\ Taken(d) = 0 /\ Returning(d) = 0
  BY <1>1, <1>3, <1>4 DEF Flight, Held, Taken, Returning, Outgoing
<1> QED
  BY <1>4, <1>5, WindowAssumption DEF InUse

\* The inductive invariant: the types, what is known of an unlinked channel, that the
\* five places of a direction that is being read hold the whole window, and that
\* what is not credited yet is below the threshold.
FlowInv == Typed /\ OneOfEach /\ AllEndsKnown /\ NoCreditLost /\ BelowThreshold

\* A channel starts with its whole window as credit.
LEMMA FlowInvInit == Init => FlowInv /\ ToServer!Init /\ ToClient!Init
<1> SUFFICES ASSUME Init PROVE FlowInv /\ ToServer!Init /\ ToClient!Init
  OBVIOUS
<1>1. Typed /\ OneOfEach /\ AllEndsKnown
  BY InitTyped, OnceInit, EndsKnownInit
<1>2. NoCreditLost
  BY FlowInit DEF NoCreditLost
<1>3. BelowThreshold
  <2>1. 0 <= Threshold
    BY WindowAssumption DEF Threshold
  <2>2. \A e \in Sides : ch[e].inSofar = 0
    BY DEF Init, NewChannel
  <2> QED
    BY <2>1, <2>2 DEF BelowThreshold
<1>4. "client" \in Sides /\ "server" \in Sides /\ Window - Window = 0
  BY WindowAssumption DEF Sides
<1>5. ToServer!Init
  <2>1. /\ ch["client"].outWindow = Window /\ InUse("client") = Window
        /\ Flight("client") = 0 /\ Held("client") = 0 /\ Taken("client") = 0 /\ Returning("client") = 0
    BY <1>4, FlowInit
  <2> QED
    BY <1>4, <2>1 DEF ToServer!Init
<1>6. ToClient!Init
  <2>1. /\ ch["server"].outWindow = Window /\ InUse("server") = Window
        /\ Flight("server") = 0 /\ Held("server") = 0 /\ Taken("server") = 0 /\ Returning("server") = 0
    BY <1>4, FlowInit
  <2> QED
    BY <1>4, <2>1 DEF ToClient!Init
<1> QED
  BY <1>1, <1>2, <1>3, <1>5, <1>6 DEF FlowInv

\* A step that loses nothing leaves the sum of the five places.
LEMMA KeepsSum ==
    ASSUME NEW d \in Sides, Counted(d), Keeps(d)
    PROVE  InUse(d)' = InUse(d)
<1>1. /\ InUse(d) = ch[d].outWindow + Flight(d) + Held(d) + Taken(d) + Returning(d)
      /\ InUse(d)' = ch'[d].outWindow + Flight(d)' + Held(d)' + Taken(d)' + Returning(d)'
  BY DEF InUse
<1> QED
  BY <1>1 DEF Counted, Keeps, Shifts, SameCredit, SameFlight, SameHeld, SameTaken, SameReturning

\* A step that loses something uses less of the window.
LEMMA LosesSum ==
    ASSUME NEW d \in Sides, Counted(d), Loses(d)
    PROVE  InUse(d)' <= InUse(d) /\ InUse(d)' \in Nat /\ InUse(d) \in Nat
<1>1. /\ InUse(d) = ch[d].outWindow + Flight(d) + Held(d) + Taken(d) + Returning(d)
      /\ InUse(d)' = ch'[d].outWindow + Flight(d)' + Held(d)' + Taken(d)' + Returning(d)'
  BY DEF InUse
<1> QED
  BY <1>1 DEF Counted, Loses, SameCredit, SameFlight, SameHeld, SameTaken, SameReturning

\* Nothing moves when the variables do not change.
LEMMA FlowStutters ==
    ASSUME UNCHANGED vars, NEW d
    PROVE  /\ ch'[d].outWindow = ch[d].outWindow
           /\ Flight(d)' = Flight(d) /\ Held(d)' = Held(d) /\ Taken(d)' = Taken(d)
           /\ Returning(d)' = Returning(d) /\ InUse(d)' = InUse(d) /\ (Reading(d)' <=> Reading(d))
<1>1. ch' = ch /\ th' = th /\ wire' = wire /\ up' = up
  BY DEF vars
<1>2. \A s, place : ThreadsAt(s, place)' = ThreadsAt(s, place)
  BY <1>1 DEF ThreadsAt
<1>3. \A s, types, place : /\ Prepared(s, types)' = Prepared(s, types)
                           /\ Carried(s, place)' = Carried(s, place) /\ Fed(s)' = Fed(s)
  BY <1>1, <1>2 DEF Prepared, Carried, Fed
<1>4. \A s, types : Outgoing(s, types)' = Outgoing(s, types)
  BY <1>1, <1>3 DEF Outgoing
<1>5. /\ Flight(d)' = Flight(d) /\ Held(d)' = Held(d) /\ Taken(d)' = Taken(d) /\ Returning(d)' = Returning(d)
  BY <1>1, <1>3, <1>4 DEF Flight, Held, Taken, Returning
<1> QED
  BY <1>1, <1>5 DEF InUse, Reading

\* The invariant is kept, and the step is one of FlowControl in either direction.
LEMMA FlowStep ==
    ASSUME FlowInv, [Next]_vars
    PROVE  /\ FlowInv'
           /\ [ToServer!Next]_(ToServer!vars)
           /\ [ToClient!Next]_(ToClient!vars)
<1>1. Typed' /\ OneOfEach' /\ AllEndsKnown'
  BY NextTyped, OnceStep, EndsKnownStep DEF FlowInv
<1>2. "client" \in Sides /\ "server" \in Sides
  BY DEF Sides
<1>3. CASE UNCHANGED vars
  <2>1. NoCreditLost'
    BY <1>3, FlowStutters DEF FlowInv, NoCreditLost
  <2>2. BelowThreshold'
    BY <1>3 DEF FlowInv, BelowThreshold, vars
  <2>3. UNCHANGED ToServer!vars
    BY <1>3, FlowStutters DEF ToServer!vars
  <2>4. UNCHANGED ToClient!vars
    BY <1>3, FlowStutters DEF ToClient!vars
  <2> QED
    BY <1>1, <2>1, <2>2, <2>3, <2>4 DEF FlowInv
<1>4. CASE Next
  <2>1. \A d \in Sides : Accounted(d) /\ Counted(d) /\ Counted(d)'
    BY <1>1, <1>4, StepAccounted, CountedAlways, CountedNext DEF FlowInv
  <2>2. (\A d \in Sides : Reading(d)' => Reading(d)) /\ BelowThreshold'
    BY <1>4, EndsStay DEF FlowInv
  <2>3. NoCreditLost'
    <3> SUFFICES ASSUME NEW d \in Sides, Reading(d)' PROVE InUse(d)' = Window
      BY DEF NoCreditLost
    <3>1. Keeps(d) /\ Counted(d) /\ InUse(d) = Window
      BY <2>1, <2>2 DEF Accounted, FlowInv, NoCreditLost
    <3> QED
      BY <3>1, KeepsSum
  <2>4. ToServer!Next
    BY <1>2, <2>1, ToServerStep DEF Accounted
  <2>5. ToClient!Next
    BY <1>2, <2>1, ToClientStep DEF Accounted
  <2> QED
    BY <1>1, <2>2, <2>3, <2>4, <2>5 DEF FlowInv
<1> QED
  BY <1>3, <1>4

\* The inductive invariant holds in every reachable state.
LEMMA FlowInvAlways == Spec => []FlowInv
<1>1. Init => FlowInv
  BY FlowInvInit
<1>2. FlowInv /\ [Next]_vars => FlowInv'
  BY FlowStep
<1> QED
  BY <1>1, <1>2, PTL DEF Spec

\* Channel implements FlowControl in both directions, whatever the users call and whatever
\* the sizes (_send, _feed, _feed_extended, recv, _check_add_window, _window_adjust).
THEOREM ChannelImplementsFlow == Spec => ImplementsFlowControl
<1>1. Init => ToServer!Init /\ ToClient!Init
  BY FlowInvInit
<1>2. FlowInv /\ [Next]_vars => [ToServer!Next]_(ToServer!vars) /\ [ToClient!Next]_(ToClient!vars)
  BY FlowStep
<1> QED
  BY <1>1, <1>2, FlowInvAlways, PTL DEF Spec, ImplementsFlowControl, ToServer!Spec, ToClient!Spec

\* While its receiver is reading, no byte of a direction's window is lost.
THEOREM ChannelNoCreditLost == Spec => []NoCreditLost
<1>1. FlowInv => NoCreditLost
  BY DEF FlowInv
<1> QED
  BY <1>1, FlowInvAlways, PTL

\* A receiver never has to buffer more than the window it advertised (_feed and
\* _feed_extended do not check): each direction uses at most its window, since a step keeps
\* what is in use or loses some of it.
THEOREM ChannelNoOverrun == Spec => []NoOverrun
<1> DEFINE Within == \A d \in Sides : InUse(d) <= Window
<1>1. Init => Within
  <2> SUFFICES ASSUME Init, NEW d \in Sides PROVE InUse(d) <= Window
    OBVIOUS
  <2> QED
    BY FlowInit, WindowAssumption
<1>2. FlowInv /\ FlowInv' /\ Within /\ [Next]_vars => Within'
  <2> SUFFICES ASSUME FlowInv, FlowInv', [Next]_vars, NEW d \in Sides, InUse(d) <= Window
               PROVE  InUse(d)' <= Window
    OBVIOUS
  <2>1. CASE UNCHANGED vars
    BY <2>1, FlowStutters
  <2>2. CASE Next
    <3>1. Counted(d) /\ (Keeps(d) \/ Loses(d))
      BY <2>2, StepAccounted, CountedAlways DEF FlowInv, Accounted
    <3>2. CASE Keeps(d)
      BY <3>1, <3>2, KeepsSum
    <3>3. CASE Loses(d)
      BY <3>1, <3>3, LosesSum, WindowAssumption
    <3> QED
      BY <3>1, <3>2, <3>3
  <2> QED
    BY <2>1, <2>2
<1>3. FlowInv /\ Within => NoOverrun
  <2> SUFFICES ASSUME FlowInv, Within, NEW d \in Sides
               PROVE  Held(d) + Flight(d) + ch[d].outWindow <= Window
    BY DEF NoOverrun
  <2>1. Counted(d) /\ InUse(d) <= Window
    BY CountedAlways DEF FlowInv
  <2>2. InUse(d) = ch[d].outWindow + Flight(d) + Held(d) + Taken(d) + Returning(d)
    BY DEF InUse
  <2> QED
    BY <2>1, <2>2, WindowAssumption DEF Counted
<1> QED
  BY <1>1, <1>2, <1>3, FlowInvAlways, PTL DEF Spec

\* The threshold of _check_add_window cannot stall a channel: with everything read and no
\* update under way, the sender has window left.
THEOREM ChannelNoWindowStall == Spec => []NoWindowStall
<1>1. FlowInv => NoWindowStall
  <2> SUFFICES ASSUME FlowInv, NEW e \in Sides, Reading(e),
                      Flight(e) + Held(e) + Returning(e) + Carried(Peer(e), "credit") = 0
               PROVE  ch[e].outWindow > 0
    BY DEF NoWindowStall
  <2>1. InUse(e) = Window /\ Counted(e) /\ Peer(e) \in Sides
    BY CountedAlways, PeerFacts DEF FlowInv, NoCreditLost
  <2>2. ch[Peer(e)].inSofar <= Threshold /\ ch[Peer(e)].inSofar \in Nat
    BY <2>1 DEF FlowInv, BelowThreshold, Typed, ChOK, ChannelStates
  <2>3. Threshold < Window /\ Threshold \in Nat /\ Window \in Nat
    BY WindowAssumption DEF Threshold
  <2>4. Carried(Peer(e), "credit") \in Nat
    BY SumTypes DEF FlowInv, Typed
  <2>5. Taken(e) = ch[Peer(e)].inSofar + Carried(Peer(e), "credit")
    BY DEF Taken
  <2>6. Flight(e) = 0 /\ Held(e) = 0 /\ Returning(e) = 0 /\ Carried(Peer(e), "credit") = 0
    BY <2>1, <2>4 DEF Counted
  <2>7. Window = ch[e].outWindow + Flight(e) + Held(e) + Taken(e) + Returning(e)
    BY <2>1 DEF InUse
  <2> QED
    BY <2>1, <2>2, <2>3, <2>5, <2>6, <2>7 DEF Counted
<1> QED
  BY <1>1, FlowInvAlways, PTL

=============================================================================
