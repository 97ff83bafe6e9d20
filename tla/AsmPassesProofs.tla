-------------------------- MODULE AsmPassesProofs ---------------------------
(***************************************************************************)
(* The assembler, for every text, every set of names that are too long and *)
(* every size of the tables.                                               *)
(*   PassesAgree       the passes agree on addresses (JumpsLand).  Neither *)
(*     stores where a line begins, and the proof needs to know it: the     *)
(*     invariant says that there is a ruler, the address of every line     *)
(*     that pass 1 has read, by which all labels were bound and the cells  *)
(*     of pass 2 are laid out.                                             *)
(*   TypeCorrect        tables and cells keep within their sizes (TypeOK). *)
(*   AssemblesTheText   it comes to what Asm says of the text as a whole   *)
(*     (ImplementsAsm).  Three more invariants: the tables list the lines  *)
(*     read so far, in order (Tabled); every line that pass 2 is through   *)
(*     with lies in the cells, at the address the ruler gives it (Laid);   *)
(*     and when the assembler has stopped, the line it stopped at gave the *)
(*     reason (Told).  RulerIsOffset, TablesAgree, Pass1Fine and Pass2Fine *)
(*     translate them into the sums, sets and first errors of Asm.         *)
(*   AssembledCodeDecodes   the machine finds instructions and immediates  *)
(*     where it expects them (CodeDecodes), from the same invariants: a    *)
(*     cell belongs to the line before which the ruler stands, and a label *)
(*     stands where the ruler says a line begins, or at the end.           *)
(*   AssembledCodeLoads   what LamVM assumes of the code it runs is true   *)
(*     of it (LoadsIntoMachine).  One more invariant: the ids in the table *)
(*     of atoms are declared ones (Declared).                              *)
(***************************************************************************)
EXTENDS AsmPasses, FiniteSetTheorems, SequenceTheorems, WellFoundedInduction, TLAPS

Size(l) == IF l.kind = "instr" THEN WidthOf(l.mnem) ELSE 0

IsLabel(i) == src[i].kind = "label"

Names == {l.name : l \in Lines}

(* The lines that pass 1 has read.                                         *)
Seen == IF pass = 1 THEN line ELSE Len(src)

IsRuler(r) ==
  /\ r \in [1 .. Seen + 1 -> Nat] /\ r[1] = 0
  /\ \A i \in 1 .. Seen : r[i + 1] = r[i] + Size(src[i])

Agrees(r) ==
  /\ addr = r[Seen + 1]
  /\ \A i \in 1 .. Seen : IsLabel(i) => labels[LabelsBefore(i)][2] = r[i]
  /\ Len(cells) = IF pass = 1 THEN 0 ELSE r[line + 1]

Typed ==
  /\ src \in Seq(Lines) /\ pass \in {1, 2} /\ line \in 0 .. Len(src)
  /\ labels \in Seq(Names \X Nat) /\ Len(labels) = LabelsBefore(Seen)
  /\ \E S : cells \in Seq(S)
  /\ \A i \in 1 .. Seen : src[i].kind = "instr" => src[i].mnem \in Mnemonics

Inv == Typed /\ \E r : IsRuler(r) /\ Agrees(r)

-----------------------------------------------------------------------------
(* Sequences.                                                              *)
LEMMA Wider ==
  ASSUME NEW S, NEW T, S \subseteq T, NEW s \in Seq(S)
  PROVE  s \in Seq(T)
BY SMT

LEMMA LenConcat ==
  ASSUME NEW S, NEW T, NEW s \in Seq(S), NEW t \in Seq(T)
  PROVE  s \o t \in Seq(S \cup T) /\ Len(s \o t) = Len(s) + Len(t)
<1>1. s \in Seq(S \cup T) /\ t \in Seq(S \cup T)
  BY Wider
<1> QED
  BY <1>1

-----------------------------------------------------------------------------
LEMMA MinOf ==
  ASSUME NEW S, S \subseteq Nat, S # {}
  PROVE  Min(S) \in S /\ \A y \in S : Min(S) <= y
<1>1. PICK x \in S : \A y \in S : ~(<<y, x>> \in OpToRel(<, Nat))
  BY NatLessThanWellFounded, WFMin
<1>2. OpToRel(<, Nat) = {ss \in Nat \X Nat : ss[1] < ss[2]}
  BY Zenon DEF OpToRel
<1>3. \A y \in S : <<y, x>> \notin {ss \in Nat \X Nat : ss[1] < ss[2]}
  BY <1>1, <1>2
<1>4. ASSUME NEW y \in S PROVE x <= y
  <2>1. x \in Nat /\ y \in Nat /\ <<y, x>> \in Nat \X Nat
    OBVIOUS
  <2>2. ~(y < x)
    BY <1>3, <2>1
  <2> QED
    BY <2>1, <2>2
<1> QED
  BY <1>4 DEF Min

(* The operands that split_args keeps, after n of them.  There is such a   *)
(* function: otherwise take the first n up to which there is none.         *)
KeptOf(ops) ==
  LET Kept[n \in 0 .. Len(ops)] ==
        IF n = 0 THEN <<>>
        ELSE IF ops[n] = <<"none">> THEN Kept[n - 1] ELSE Append(Kept[n - 1], ops[n])
  IN  Kept

KeptAt(ops, f, n) ==
  IF n = 0 THEN <<>>
  ELSE IF ops[n] = <<"none">> THEN f[n - 1] ELSE Append(f[n - 1], ops[n])

LEMMA KeptEquation ==
  ASSUME NEW ops, Len(ops) \in Nat
  PROVE  KeptOf(ops) = [n \in 0 .. Len(ops) |-> KeptAt(ops, KeptOf(ops), n)]
<1> DEFINE N == Len(ops)
           Part(k, f) == f = [n \in 0 .. k |-> KeptAt(ops, f, n)]
           Some(k) == \E f : Part(k, f)
           Bad == {k \in 0 .. N : ~Some(k)}
<1>1. N \in Nat
  OBVIOUS
<1> HIDE DEF N, Some
<1>2. (\A k \in Bad : k \in 0 .. N /\ ~Some(k)) /\ (\A k \in 0 .. N : k \notin Bad => Some(k))
  OBVIOUS
<1> HIDE DEF Bad
<1>3. ASSUME Bad # {} PROVE FALSE
  <2> DEFINE m == Min(Bad)
  <2>1. Bad \subseteq Nat
    BY <1>1, <1>2
  <2>2. m \in Bad /\ \A y \in Bad : m <= y
    BY <1>3, <2>1, MinOf
  <2> HIDE DEF m
  <2>3. m \in 0 .. N /\ ~Some(m)
    BY <1>2, <2>2
  <2>4. m # 0
    <3> DEFINE f == [n \in 0 .. 0 |-> <<>>]
    <3>1. \A n \in 0 .. 0 : n = 0
      OBVIOUS
    <3>2. Part(0, f)
      BY <3>1 DEF KeptAt
    <3> QED
      BY <2>3, <3>2 DEF Some
  <2>5. m - 1 \in 0 .. N /\ m - 1 \notin Bad
    BY <1>1, <2>2, <2>3, <2>4
  <2>6. PICK f : Part(m - 1, f)
    BY <1>2, <2>5 DEF Some
  <2> DEFINE g == [n \in 0 .. m |-> IF n = m THEN KeptAt(ops, f, m) ELSE f[n]]
  <2>7. \A n \in 0 .. m - 1 : g[n] = f[n] /\ f[n] = KeptAt(ops, f, n)
    <3>1. \A n \in 0 .. m - 1 : f[n] = KeptAt(ops, f, n)
      BY <2>6
    <3>2. \A n \in 0 .. m - 1 : n \in 0 .. m /\ n # m
      BY <1>1, <2>3
    <3> QED
      BY <3>1, <3>2
  <2>8. g[m] = KeptAt(ops, f, m)
    BY <1>1, <2>3
  <2>9. g = [n \in 0 .. m |-> g[n]]
    OBVIOUS
  <2> HIDE DEF g
  <2>10. ASSUME NEW n \in 0 .. m PROVE g[n] = KeptAt(ops, g, n)
    <3>1. n # 0 => f[n - 1] = g[n - 1]
      BY <1>1, <2>3, <2>7, <2>10
    <3>2. KeptAt(ops, f, n) = KeptAt(ops, g, n)
      BY <3>1 DEF KeptAt
    <3>3. n = m \/ n \in 0 .. m - 1
      BY <1>1, <2>3, <2>10
    <3> QED
      BY <2>7, <2>8, <3>2, <3>3
  <2>11. Part(m, g)
    BY <2>9, <2>10
  <2> QED
    BY <2>3, <2>11 DEF Some
<1>4. PICK f : Part(N, f)
  <2>1. N \in 0 .. N /\ N \notin Bad
    BY <1>1, <1>3
  <2> QED
    BY <1>2, <2>1 DEF Some
<1> QED
  BY <1>4 DEF KeptOf, KeptAt, N

LEMMA ArgsType ==
  ASSUME NEW S, NEW ops \in Seq(S)
  PROVE  SplitArgs(ops) \in Seq(S)
<1> DEFINE K == KeptOf(ops)
           Bad == {n \in 0 .. Len(ops) : K[n] \notin Seq(S)}
           m == Min(Bad)
<1>1. Len(ops) \in Nat /\ SplitArgs(ops) = K[Len(ops)]
  BY DEF SplitArgs, KeptOf
<1>2. K = [n \in 0 .. Len(ops) |-> KeptAt(ops, K, n)]
  BY <1>1, KeptEquation
<1> HIDE DEF K
<1>3. \A n \in 0 .. Len(ops) : K[n] = KeptAt(ops, K, n)
  BY <1>2
<1>4. ASSUME Bad # {} PROVE FALSE
  <2>1. Bad \subseteq Nat
    BY <1>1
  <2>2. m \in Bad /\ \A y \in Bad : m <= y
    BY <1>4, <2>1, MinOf
  <2> HIDE DEF m
  <2>3. m \in 0 .. Len(ops) /\ K[m] \notin Seq(S)
    BY <2>2
  <2>4. m # 0
    <3>1. K[0] = <<>>
      BY <1>1, <1>3 DEF KeptAt
    <3>2. <<>> \in Seq(S)
      OBVIOUS
    <3> QED
      BY <2>3, <3>1, <3>2
  <2>5. m - 1 \in 0 .. Len(ops) /\ m \in 1 .. Len(ops) /\ ~(m <= m - 1)
    BY <1>1, <2>3, <2>4
  <2>6. K[m - 1] \in Seq(S) /\ ops[m] \in S
    BY <2>2, <2>5
  <2>7. K[m] = IF ops[m] = <<"none">> THEN K[m - 1] ELSE Append(K[m - 1], ops[m])
    BY <1>3, <2>3, <2>4 DEF KeptAt
  <2>8. Append(K[m - 1], ops[m]) \in Seq(S)
    BY <2>6
  <2> QED
    BY <2>3, <2>6, <2>7, <2>8
<1> QED
  BY <1>1, <1>4

(* Short sequences.                                                        *)
LEMMA Pairs ==
  ASSUME NEW x, NEW y
  PROVE  <<x>> \o <<y>> = <<x, y>>
<1> DEFINE S == {x, y}
           s == <<x>>
           t == <<y>>
           u == <<x, y>>
<1>1. /\ s \in Seq(S) /\ t \in Seq(S) /\ u \in Seq(S) /\ Len(s) = 1 /\ Len(t) = 1 /\ Len(u) = 2
      /\ s[1] = x /\ t[1] = y /\ u[1] = x /\ u[2] = y
  OBVIOUS
<1> HIDE DEF S, s, t, u
<1>2. s \o t \in Seq(S) /\ Len(s \o t) = 2 /\ (s \o t)[1] = x /\ (s \o t)[2] = y
  BY <1>1, ConcatProperties
<1>3. \A i \in 1 .. 2 : (s \o t)[i] = u[i]
  BY <1>1, <1>2
<1>4. s \o t = u
  BY <1>1, <1>2, <1>3, SeqEqual
<1> QED
  BY <1>4 DEF s, t, u

LEMMA Fours ==
  ASSUME NEW x, NEW y, NEW z, NEW w
  PROVE  <<x, y, z>> \o <<w>> = <<x, y, z, w>> /\ SubSeq(<<x, y, z, w>>, 1, 3) = <<x, y, z>>
<1> DEFINE S == {x, y, z, w}
           s == <<x, y, z>>
           t == <<w>>
           u == <<x, y, z, w>>
<1>0. s \in Seq(S) /\ t \in Seq(S) /\ u \in Seq(S)
  OBVIOUS
<1>1. Len(s) = 3 /\ Len(t) = 1 /\ Len(u) = 4
  OBVIOUS
<1>2. s[1] = x /\ s[2] = y /\ s[3] = z /\ t[1] = w
  OBVIOUS
<1>3. u[1] = x /\ u[2] = y /\ u[3] = z /\ u[4] = w
  OBVIOUS
<1> HIDE DEF S, s, t, u
<1>4. /\ s \o t \in Seq(S) /\ Len(s \o t) = Len(s) + Len(t)
      /\ \A i \in 1 .. Len(s) + Len(t) : (s \o t)[i] = IF i <= Len(s) THEN s[i] ELSE t[i - Len(s)]
  BY ONLY <1>0, ConcatProperties
<1>5. \A i \in 1 .. 4 : (s \o t)[i] = u[i]
  <2>1. ASSUME NEW i \in 1 .. 4 PROVE (s \o t)[i] = u[i]
    <3>1. (s \o t)[i] = IF i <= 3 THEN s[i] ELSE t[i - 3]
      BY ONLY <1>1, <1>4, <2>1
    <3>2. i = 1 \/ i = 2 \/ i = 3 \/ i = 4
      OBVIOUS
    <3> QED
      BY ONLY <1>2, <1>3, <3>1, <3>2
  <2> QED
    BY <2>1
<1>6. s \o t = u
  <2>1. Len(s \o t) = 4
    BY ONLY <1>1, <1>4
  <2> QED
    BY <1>0, <1>1, <1>4, <1>5, <2>1, SeqEqual
<1>7. /\ SubSeq(u, 1, 3) \in Seq(S) /\ Len(SubSeq(u, 1, 3)) = 3
      /\ \A i \in 1 .. 3 : SubSeq(u, 1, 3)[i] = u[1 + i - 1]
  <2>1. \A i \in 1 .. 3 : u[i] \in S
    <3>1. x \in S /\ y \in S /\ z \in S
      BY DEF S
    <3> QED
      BY <1>3, <3>1
  <2> QED
    BY <2>1, SubSeqProperties
<1>8. \A i \in 1 .. 3 : SubSeq(u, 1, 3)[i] = s[i]
  <2>1. ASSUME NEW i \in 1 .. 3 PROVE SubSeq(u, 1, 3)[i] = s[i]
    <3>1. SubSeq(u, 1, 3)[i] = u[i]
      BY ONLY <1>7, <2>1
    <3>2. i = 1 \/ i = 2 \/ i = 3
      OBVIOUS
    <3> QED
      BY ONLY <1>2, <1>3, <3>1, <3>2
  <2> QED
    BY <2>1
<1>9. SubSeq(u, 1, 3) = s
  BY <1>0, <1>1, <1>7, <1>8, SeqEqual
<1> QED
  BY <1>6, <1>9 DEF s, t, u

-----------------------------------------------------------------------------
(* How many of the first n numbers are in P, and of the first n lines are  *)
(* of a kind.                                                              *)
Upto(P, n)     == Cardinality((1 .. n) \cap P)
OfKind(kind)   == {i \in DOMAIN src : src[i].kind = kind}
Count(kind, n) == Upto(OfKind(kind), n)

LEMMA Counting ==
  ASSUME NEW P, NEW n \in Nat
  PROVE  /\ Upto(P, n) \in Nat /\ Upto(P, 0) = 0
         /\ Upto(P, n + 1) = Upto(P, n) + (IF n + 1 \in P THEN 1 ELSE 0)
         /\ \A i \in 0 .. n : Upto(P, i) \in 0 .. Upto(P, n)
<1> DEFINE First(k) == (1 .. k) \cap P
<1>1. \A k \in Nat : IsFiniteSet(First(k)) /\ Upto(P, k) = Cardinality(First(k)) /\ Upto(P, k) \in Nat
  <2> SUFFICES ASSUME NEW k \in Nat
               PROVE  /\ IsFiniteSet(First(k)) /\ Upto(P, k) = Cardinality(First(k))
                      /\ Upto(P, k) \in Nat
    OBVIOUS
  <2>1. IsFiniteSet(1 .. k)
    BY FS_Interval
  <2>2. IsFiniteSet(First(k))
    BY <2>1, FS_Subset
  <2> QED
    BY <2>2, FS_CardinalityType DEF Upto
<1>2. Upto(P, 0) = 0
  <2>1. First(0) = {}
    OBVIOUS
  <2> QED
    BY <2>1, FS_EmptySet DEF Upto
<1>3. ASSUME NEW i \in 0 .. n PROVE Upto(P, i) \in 0 .. Upto(P, n)
  <2>1. First(i) \subseteq First(n) /\ i \in Nat
    OBVIOUS
  <2>2. Cardinality(First(i)) <= Cardinality(First(n))
    BY <1>1, <2>1, FS_Subset
  <2> QED
    BY <1>1, <2>1, <2>2
<1>4. Upto(P, n + 1) = Upto(P, n) + (IF n + 1 \in P THEN 1 ELSE 0)
  <2>1. CASE n + 1 \in P
    <3>1. First(n + 1) = First(n) \cup {n + 1} /\ n + 1 \notin First(n)
      BY <2>1
    <3>2. Cardinality(First(n + 1)) = Cardinality(First(n)) + 1
      BY <1>1, <3>1, FS_AddElement
    <3> QED
      BY <1>1, <2>1, <3>2
  <2>2. CASE n + 1 \notin P
    <3>1. First(n + 1) = First(n)
      BY <2>2
    <3>2. Upto(P, n + 1) = Upto(P, n) /\ Upto(P, n) \in Nat
      BY <1>1, <3>1 DEF Upto
    <3> QED
      BY <2>2, <3>2
  <2> QED
    BY <2>1, <2>2
<1> QED
  BY <1>1, <1>2, <1>3, <1>4

LEMMA KindCount ==
  ASSUME src \in Seq(Lines), NEW kind, NEW n \in 0 .. Len(src)
  PROVE  /\ Count(kind, n) \in Nat
         /\ Count(kind, 0) = 0
         /\ \A i \in 1 .. n : src[i].kind = kind => Count(kind, i) \in 1 .. Count(kind, n)
         /\ \A i, j \in 1 .. n : src[j].kind = kind /\ i < j => Count(kind, i) < Count(kind, j)
         /\ n < Len(src) =>
              Count(kind, n + 1) = Count(kind, n) + (IF src[n + 1].kind = kind THEN 1 ELSE 0)
<1>1. Len(src) \in Nat /\ n \in Nat /\ DOMAIN src = 1 .. Len(src)
  OBVIOUS
<1>2. Count(kind, n) \in Nat /\ Count(kind, 0) = 0
  BY <1>1, Counting DEF Count
<1>3. ASSUME NEW j \in 1 .. n, src[j].kind = kind
      PROVE  /\ Count(kind, j) \in Nat /\ Count(kind, j) <= Count(kind, n)
             /\ Count(kind, j) = Count(kind, j - 1) + 1 /\ Count(kind, j - 1) \in Nat
             /\ \A i \in 1 .. n : i < j => Count(kind, i) <= Count(kind, j - 1)
  <2>1. j - 1 \in Nat /\ (j - 1) + 1 = j /\ j \in 0 .. n /\ j \in DOMAIN src
    BY <1>1
  <2>2. j \in OfKind(kind)
    BY <1>3, <2>1 DEF OfKind
  <2>3. Count(kind, j) = Count(kind, j - 1) + 1 /\ Count(kind, j - 1) \in Nat
    BY <2>1, <2>2, Counting DEF Count
  <2>4. Count(kind, j) <= Count(kind, n)
    BY <1>1, <2>1, Counting DEF Count
  <2>5. ASSUME NEW i \in 1 .. n, i < j PROVE Count(kind, i) <= Count(kind, j - 1)
    <3>1. i \in 0 .. j - 1
      BY <1>1, <2>1, <2>5
    <3>2. Upto(OfKind(kind), i) \in 0 .. Upto(OfKind(kind), j - 1)
      BY <2>1, <3>1, Counting
    <3> QED
      BY <2>3, <3>2 DEF Count
  <2> QED
    BY <2>3, <2>4, <2>5
<1>4. \A i \in 1 .. n : src[i].kind = kind => Count(kind, i) \in 1 .. Count(kind, n)
  <2> SUFFICES ASSUME NEW i \in 1 .. n, src[i].kind = kind PROVE Count(kind, i) \in 1 .. Count(kind, n)
    OBVIOUS
  <2>1. /\ Count(kind, i) \in Nat /\ Count(kind, i) <= Count(kind, n)
        /\ Count(kind, i) = Count(kind, i - 1) + 1 /\ Count(kind, i - 1) \in Nat
    BY <1>3
  <2> QED
    BY ONLY <1>2, <2>1
<1>5. \A i, j \in 1 .. n : src[j].kind = kind /\ i < j => Count(kind, i) < Count(kind, j)
  <2> SUFFICES ASSUME NEW i \in 1 .. n, NEW j \in 1 .. n, src[j].kind = kind, i < j
               PROVE  Count(kind, i) < Count(kind, j)
    OBVIOUS
  <2>1. i \in Nat
    OBVIOUS
  <2>2. Count(kind, i) \in Nat
    BY <2>1, Counting DEF Count
  <2>3. /\ Count(kind, j) = Count(kind, j - 1) + 1 /\ Count(kind, j - 1) \in Nat
        /\ Count(kind, i) <= Count(kind, j - 1)
    BY <1>3
  <2> QED
    BY ONLY <2>2, <2>3
<1>6. ASSUME n < Len(src)
      PROVE  Count(kind, n + 1) = Count(kind, n) + (IF src[n + 1].kind = kind THEN 1 ELSE 0)
  <2>1. n + 1 \in OfKind(kind) <=> src[n + 1].kind = kind
    BY <1>1, <1>6 DEF OfKind
  <2> QED
    BY <1>1, <2>1, Counting DEF Count
<1> QED
  BY <1>2, <1>4, <1>5, <1>6

LEMMA LabelCount ==
  ASSUME src \in Seq(Lines), NEW n \in 0 .. Len(src)
  PROVE  /\ LabelsBefore(n) = Count("label", n)
         /\ LabelsBefore(n) \in Nat
         /\ LabelsBefore(0) = 0
         /\ \A i \in 1 .. n : IsLabel(i) => LabelsBefore(i) \in 1 .. LabelsBefore(n)
         /\ n < Len(src) =>
              LabelsBefore(n + 1) = LabelsBefore(n) + (IF IsLabel(n + 1) THEN 1 ELSE 0)
<1>1. \A k \in 0 .. Len(src) : LabelsBefore(k) = Count("label", k)
  <2> SUFFICES ASSUME NEW k \in 0 .. Len(src) PROVE LabelsBefore(k) = Count("label", k)
    OBVIOUS
  <2>1. {i \in 1 .. k : src[i].kind = "label"} = (1 .. k) \cap OfKind("label")
    BY DEF OfKind
  <2> QED
    BY <2>1 DEF LabelsBefore, Count, Upto
<1>2. Len(src) \in Nat /\ n \in Nat /\ 0 \in 0 .. Len(src)
  OBVIOUS
<1>3. /\ Count("label", n) \in Nat /\ Count("label", 0) = 0
      /\ \A i \in 1 .. n : src[i].kind = "label" => Count("label", i) \in 1 .. Count("label", n)
      /\ n < Len(src) =>
           Count("label", n + 1) = Count("label", n) + (IF src[n + 1].kind = "label" THEN 1 ELSE 0)
  BY KindCount
<1> QED
  BY <1>1, <1>2, <1>3 DEF IsLabel

-----------------------------------------------------------------------------
(* What emit pushes is what width_of said: of the operands at most one     *)
(* adds a cell.                                                            *)
Kinds  == {"reg", "yreg", "slots"}
Adding == {"label", "const", "functor"}

Formed(m, args) ==
  /\ Len(args) = Len(Operands(m))
  /\ \A i \in DOMAIN Operands(m) : OperandError(Operands(m)[i], args[i]) # "BadOperand"

Adds(m, args, i, c) ==
  /\ i \in DOMAIN Operands(m) /\ Operands(m)[i] \in Adding
  /\ \A j \in DOMAIN Operands(m) : j # i => Operands(m)[j] \in Kinds
  /\ Symbol(Operands(m)[i], args[i]) = <<c>> /\ Symbols(m, args) = <<c>>

LEMMA RightFormed ==
  ASSUME NEW m, NEW args, Right(m, args)
  PROVE  Formed(m, args)
BY DEF Right, WrongAt, Formed

LEMMA NoSymbol ==
  ASSUME NEW t
  PROVE  Symbol("reg", t) = <<>> /\ Symbol("yreg", t) = <<>> /\ Symbol("slots", t) = <<>>
BY DEF Symbol

LEMMA SymbolOf ==
  ASSUME NEW t
  PROVE  /\ Symbol("label", t) = <<<<"LABEL", t>>>>
         /\ Symbol("functor", t) = <<<<"ATOM", t[2]>>>>
         /\ t[1] = "atom" => Symbol("const", t) = <<<<"ATOM", t[2]>>>>
         /\ t[1] = "int" => Symbol("const", t) = <<<<"INT", t[2]>>>>
         /\ OperandError("const", t) # "BadOperand" => t[1] \in {"atom", "int"}
<1>1. Symbol("label", t) = <<<<"LABEL", t>>>>
  BY DEF Symbol
<1>2. Symbol("functor", t) = <<<<"ATOM", t[2]>>>>
  BY DEF Symbol
<1>3. t[1] = "atom" => Symbol("const", t) = <<<<"ATOM", t[2]>>>>
  BY DEF Symbol
<1>4. t[1] = "int" => Symbol("const", t) = <<<<"INT", t[2]>>>>
  BY DEF Symbol
<1>5. ASSUME t[1] \notin {"atom", "int"} PROVE OperandError("const", t) = "BadOperand"
  <2>1. OperandError("const", t) = Unless(t[1] = "int")
    BY <1>5 DEF OperandError
  <2> QED
    BY <1>5, <2>1 DEF Unless
<1> QED
  BY <1>1, <1>2, <1>3, <1>4, <1>5

LEMMA ConstSymbol ==
  ASSUME NEW t, OperandError("const", t) # "BadOperand"
  PROVE  \E c : Symbol("const", t) = <<c>>
BY SymbolOf

LEMMA JoinedOf ==
  /\ Joined(<<>>) = <<>>
  /\ \A a : Joined(<<a>>) = a
  /\ \A a, b : Joined(<<a, b>>) = a \o b
  /\ <<>> \o <<>> = <<>>
  /\ \A c : <<>> \o <<c>> = <<c>>
<1>1. Joined(<<>>) = <<>>
  BY DEF Joined
<1>2. \A a : Joined(<<a>>) = a
  BY DEF Joined
<1>3. \A a, b : Joined(<<a, b>>) = a \o b
  BY DEF Joined
<1> QED
  BY SMTT(30), <1>1, <1>2, <1>3

LEMMA OneSymbol ==
  ASSUME NEW m \in Mnemonics, NEW args, Formed(m, args)
  PROVE  IF IsTwoCell(m) THEN \E i, c : Adds(m, args, i, c)
         ELSE Symbols(m, args) = <<>> /\ \A i \in DOMAIN Operands(m) : Operands(m)[i] \in Kinds
<1> USE DEF Mnemonics, Plain, Jumps, Moves, IsTwoCell, Kinds, Adding
<1>0. \A i \in DOMAIN Operands(m) : OperandError(Operands(m)[i], args[i]) # "BadOperand"
  BY DEF Formed
<1>1. CASE m \in Plain
  <2>1. Operands(m) = <<>>
    BY <1>1 DEF Operands
  <2>2. Symbols(m, args) = Joined(<<>>)
    BY <2>1 DEF Symbols
  <2>3. \A i \in DOMAIN Operands(m) : Operands(m)[i] \in Kinds
    BY <2>1
  <2>4. Symbols(m, args) = <<>>
    BY ONLY <2>2, NoSymbol, JoinedOf
  <2> QED
    BY <1>1, <2>3, <2>4
<1>2. CASE m \in Jumps
  <2>1. Operands(m) = <<"label">>
    BY <1>2 DEF Operands
  <2>2. Symbols(m, args) = Joined(<<Symbol("label", args[1])>>)
    BY <2>1 DEF Symbols
  <2>3. PICK c : Symbol("label", args[1]) = <<c>>
    BY SymbolOf
  <2>4. Symbols(m, args) = <<c>>
    BY ONLY <2>2, <2>3, NoSymbol, JoinedOf
  <2>5. Adds(m, args, 1, c)
    BY <2>1, <2>3, <2>4 DEF Adds
  <2> QED
    BY <1>2, <2>5
<1>3. CASE m \in Moves
  <2>1. Operands(m) = <<"reg", "reg">>
    BY <1>3 DEF Operands
  <2>2. Symbols(m, args) = Joined(<<Symbol("reg", args[1]), Symbol("reg", args[2])>>)
    BY <2>1 DEF Symbols
  <2>3. \A i \in DOMAIN Operands(m) : Operands(m)[i] \in Kinds
    BY <2>1
  <2>4. Symbols(m, args) = <<>>
    BY ONLY <2>2, NoSymbol, JoinedOf
  <2> QED
    BY <1>3, <2>3, <2>4
<1>4. CASE m \in {"PUT_CONST", "GET_CONST"}
  <2>1. Operands(m) = <<"reg", "const">>
    BY <1>4 DEF Operands
  <2>2. Symbols(m, args) = Joined(<<Symbol("reg", args[1]), Symbol("const", args[2])>>)
    BY <2>1 DEF Symbols
  <2>3. PICK c : Symbol("const", args[2]) = <<c>>
    BY <1>0, <2>1, ConstSymbol
  <2>4. Symbols(m, args) = <<c>>
    BY ONLY <2>2, <2>3, NoSymbol, JoinedOf
  <2>5. Adds(m, args, 2, c)
    BY <2>1, <2>3, <2>4 DEF Adds
  <2> QED
    BY <1>4, <2>5
<1>5. CASE m = "GET_STRUCT"
  <2>1. Operands(m) = <<"reg", "functor">>
    BY <1>5 DEF Operands
  <2>2. Symbols(m, args) = Joined(<<Symbol("reg", args[1]), Symbol("functor", args[2])>>)
    BY <2>1 DEF Symbols
  <2>3. PICK c : Symbol("functor", args[2]) = <<c>>
    BY SymbolOf
  <2>4. Symbols(m, args) = <<c>>
    BY ONLY <2>2, <2>3, NoSymbol, JoinedOf
  <2>5. Adds(m, args, 2, c)
    BY <2>1, <2>3, <2>4 DEF Adds
  <2> QED
    BY <1>5, <2>5
<1>6. CASE m \in {"PUT_Y_VAL", "GET_Y_VAR"}
  <2>1. Operands(m) = <<"yreg", "reg">>
    BY <1>6 DEF Operands
  <2>2. Symbols(m, args) = Joined(<<Symbol("yreg", args[1]), Symbol("reg", args[2])>>)
    BY <2>1 DEF Symbols
  <2>3. \A i \in DOMAIN Operands(m) : Operands(m)[i] \in Kinds
    BY <2>1
  <2>4. Symbols(m, args) = <<>>
    BY ONLY <2>2, NoSymbol, JoinedOf
  <2> QED
    BY <1>6, <2>3, <2>4
<1>7. CASE m = "ALLOCATE"
  <2>1. Operands(m) = <<"slots">>
    BY <1>7 DEF Operands
  <2>2. Symbols(m, args) = Joined(<<Symbol("slots", args[1])>>)
    BY <2>1 DEF Symbols
  <2>3. \A i \in DOMAIN Operands(m) : Operands(m)[i] \in Kinds
    BY <2>1
  <2>4. Symbols(m, args) = <<>>
    BY ONLY <2>2, NoSymbol, JoinedOf
  <2> QED
    BY <1>7, <2>3, <2>4
<1>8. CASE m \in {"B_WRITE", "UNIFY_VAR", "UNIFY_VAL"}
  <2>1. Operands(m) = <<"reg">>
    BY <1>8 DEF Operands
  <2>2. Symbols(m, args) = Joined(<<Symbol("reg", args[1])>>)
    BY <2>1 DEF Symbols
  <2>3. \A i \in DOMAIN Operands(m) : Operands(m)[i] \in Kinds
    BY <2>1
  <2>4. Symbols(m, args) = <<>>
    BY ONLY <2>2, NoSymbol, JoinedOf
  <2> QED
    BY <1>8, <2>3, <2>4
<1>9. CASE m = "UNIFY_CONST"
  <2>1. Operands(m) = <<"const">>
    BY <1>9 DEF Operands
  <2>2. Symbols(m, args) = Joined(<<Symbol("const", args[1])>>)
    BY <2>1 DEF Symbols
  <2>3. PICK c : Symbol("const", args[1]) = <<c>>
    BY <1>0, <2>1, ConstSymbol
  <2>4. Symbols(m, args) = <<c>>
    BY ONLY <2>2, <2>3, NoSymbol, JoinedOf
  <2>5. Adds(m, args, 1, c)
    BY <2>1, <2>3, <2>4 DEF Adds
  <2> QED
    BY <1>9, <2>5
<1> QED
  BY <1>1, <1>2, <1>3, <1>4, <1>5, <1>6, <1>7, <1>8, <1>9

LEMMA EmittedLength ==
  ASSUME NEW m \in Mnemonics, NEW args, Right(m, args)
  PROVE  /\ \E T : Emitted(m, args) \in Seq(T)
         /\ Len(Emitted(m, args)) = WidthOf(m)
<1> DEFINE symbols == Symbols(m, args)
           words   == [i \in DOMAIN symbols |-> Resolved(symbols[i])]
<1>1. CASE IsTwoCell(m)
  <2>1. PICK c : symbols = <<c>>
    BY <1>1, OneSymbol, RightFormed DEF Adds
  <2>2. words = <<Resolved(c)>>
    BY <2>1
  <2>3. Emitted(m, args) = <<Fields(m, args)>> \o <<Resolved(c)>>
    BY <2>2 DEF Emitted
  <2>4. <<Fields(m, args)>> \in Seq({Fields(m, args)}) /\ <<Resolved(c)>> \in Seq({Resolved(c)})
    OBVIOUS
  <2>5. /\ Emitted(m, args) \in Seq({Fields(m, args)} \cup {Resolved(c)})
        /\ Len(Emitted(m, args)) = 2
    BY <2>3, <2>4, LenConcat
  <2> QED
    BY <1>1, <2>5 DEF WidthOf
<1>2. CASE ~IsTwoCell(m)
  <2>1. words = <<>>
    BY <1>2, OneSymbol, RightFormed
  <2>2. Emitted(m, args) = <<Fields(m, args)>>
    BY <2>1 DEF Emitted
  <2>3. Emitted(m, args) \in Seq({Fields(m, args)})
    BY <2>2
  <2> QED
    BY <1>2, <2>2, <2>3 DEF WidthOf
<1> QED
  BY <1>1, <1>2

-----------------------------------------------------------------------------
(* The invariant, a line at a time.                                        *)
LEMMA AddrType == Inv => addr \in Nat
<1> SUFFICES ASSUME Inv PROVE addr \in Nat
  OBVIOUS
<1>1. PICK r : IsRuler(r) /\ Agrees(r)
  BY DEF Inv
<1>2. Seen \in Nat
  BY DEF Inv, Typed, Seen
<1> QED
  BY <1>1, <1>2 DEF IsRuler, Agrees

LEMMA Counts ==
  ASSUME Typed, UNCHANGED src
  PROVE  \A n \in 0 .. Len(src) : LabelsBefore(n)' = LabelsBefore(n) /\ (IsLabel(n)' <=> IsLabel(n))
BY DEF LabelsBefore, IsLabel

(* Pass 1 reads a line.                                                    *)
LEMMA Measured ==
  ASSUME Inv, pass = 1, line < Len(src), line' = line + 1, UNCHANGED <<src, pass, cells>>,
         addr' = addr + Size(src[line + 1]),
         src[line + 1].kind = "instr" => src[line + 1].mnem \in Mnemonics,
         labels' = IF IsLabel(line + 1) THEN Append(labels, <<src[line + 1].name, addr>>) ELSE labels
  PROVE  Inv'
<1>1. PICK r : IsRuler(r) /\ Agrees(r)
  BY DEF Inv
<1>2. /\ src \in Seq(Lines) /\ line \in Nat /\ Len(src) \in Nat /\ line + 1 \in 1 .. Len(src)
      /\ labels \in Seq(Names \X Nat) /\ Len(labels) = LabelsBefore(line)
      /\ src[line + 1] \in Lines /\ Seen = line /\ Seen' = line + 1
  BY DEF Inv, Typed, Seen
<1>3. Size(src[line + 1]) \in Nat
  BY DEF Size, WidthOf
<1>4. /\ r \in [1 .. line + 1 -> Nat] /\ r[1] = 0 /\ addr = r[line + 1] /\ addr \in Nat
      /\ \A i \in 1 .. line : r[i + 1] = r[i] + Size(src[i])
      /\ \A i \in 1 .. line : IsLabel(i) => labels[LabelsBefore(i)][2] = r[i]
      /\ Len(cells) = 0
  BY <1>1, <1>2 DEF IsRuler, Agrees
<1>5. /\ LabelsBefore(line + 1) = LabelsBefore(line) + (IF IsLabel(line + 1) THEN 1 ELSE 0)
      /\ \A i \in 1 .. line : IsLabel(i) => LabelsBefore(i) \in 1 .. Len(labels)
      /\ \A n \in 0 .. Len(src) : LabelsBefore(n)' = LabelsBefore(n) /\ (IsLabel(n)' <=> IsLabel(n))
  BY <1>2, LabelCount, Counts DEF Inv
<1>6. PICK q :
        /\ q \in [1 .. line + 2 -> Nat] /\ q[1] = 0 /\ addr' = q[line + 2]
        /\ \A i \in 1 .. line + 1 : q[i] = r[i]
        /\ \A i \in 1 .. line + 1 : q[i + 1] = q[i] + Size(src[i])
  <2> DEFINE q == [i \in 1 .. line + 2 |-> IF i = line + 2 THEN addr + Size(src[line + 1]) ELSE r[i]]
  <2>1. \A i \in 1 .. line + 1 : q[i] = r[i] /\ (i = line + 1 \/ i \in 1 .. line)
    BY <1>2
  <2>2. q[line + 2] = addr + Size(src[line + 1])
    BY <1>2
  <2>3. q \in [1 .. line + 2 -> Nat]
    BY <1>2, <1>3, <1>4
  <2> HIDE DEF q
  <2>4. \A i \in 1 .. line + 1 : q[i + 1] = q[i] + Size(src[i])
    <3> SUFFICES ASSUME NEW i \in 1 .. line + 1 PROVE q[i + 1] = q[i] + Size(src[i])
      OBVIOUS
    <3>1. CASE i = line + 1
      BY <1>2, <1>4, <2>1, <2>2, <3>1
    <3>2. CASE i \in 1 .. line
      <4>1. i + 1 \in 1 .. line + 1
        BY <1>2, <3>2
      <4> QED
        BY <1>4, <2>1, <3>2, <4>1
    <3> QED
      BY <2>1, <3>1, <3>2
  <2>5. q[1] = 0 /\ addr' = q[line + 2]
    BY <1>2, <1>4, <2>1, <2>2
  <2> QED
    BY <2>1, <2>3, <2>4, <2>5
<1>7. /\ labels' \in Seq(Names \X Nat) /\ Len(labels') = LabelsBefore(line + 1)
      /\ \A k \in 1 .. Len(labels) : labels'[k] = labels[k]
      /\ IsLabel(line + 1) => labels'[LabelsBefore(line + 1)][2] = addr
  <2>1. CASE IsLabel(line + 1)
    <3>1. <<src[line + 1].name, addr>> \in Names \X Nat
      BY <1>2, <1>4 DEF Names
    <3>2. labels' = Append(labels, <<src[line + 1].name, addr>>)
      BY <2>1
    <3> QED
      BY <1>2, <1>5, <2>1, <3>1, <3>2
  <2>2. CASE ~IsLabel(line + 1)
    BY <1>2, <1>5, <2>2
  <2> QED
    BY <2>1, <2>2
<1>8. \A i \in 1 .. line + 1 : IsLabel(i) => labels'[LabelsBefore(i)][2] = q[i]
  <2> SUFFICES ASSUME NEW i \in 1 .. line + 1, IsLabel(i)
               PROVE  labels'[LabelsBefore(i)][2] = q[i]
    OBVIOUS
  <2>1. CASE i = line + 1
    BY <1>4, <1>6, <1>7, <2>1
  <2>2. CASE i \in 1 .. line
    BY <1>4, <1>5, <1>6, <1>7, <2>2
  <2>3. i = line + 1 \/ i \in 1 .. line
    BY <1>2
  <2> QED
    BY <2>1, <2>2, <2>3
<1>9. IsRuler(q)'
  <2>1. Seen' + 1 = line + 2 /\ \A i \in 1 .. line + 1 : Size(src[i])' = Size(src[i])
    BY <1>2 DEF Size
  <2> QED
    BY <1>2, <1>6, <2>1 DEF IsRuler
<1>10. Agrees(q)'
  <2>1. addr' = q[Seen' + 1]
    BY <1>2, <1>6
  <2>2. \A i \in 1 .. Seen' : IsLabel(i)' => labels'[LabelsBefore(i)'][2] = q[i]
    <3> SUFFICES ASSUME NEW i \in 1 .. line + 1, IsLabel(i)'
                 PROVE  labels'[LabelsBefore(i)'][2] = q[i]
      BY <1>2
    <3>1. i \in 0 .. Len(src)
      BY <1>2
    <3>2. LabelsBefore(i)' = LabelsBefore(i) /\ IsLabel(i)
      BY <1>5, <3>1
    <3> QED
      BY <1>8, <3>2
  <2>3. Len(cells') = 0 /\ pass' = 1
    BY <1>4
  <2> QED
    BY <2>1, <2>2, <2>3 DEF Agrees
<1>11. Typed'
  BY <1>2, <1>5, <1>7 DEF Inv, Typed
<1> QED
  BY <1>9, <1>10, <1>11 DEF Inv

(* Pass 2 reads a line.                                                    *)
LEMMA Appends ==
  ASSUME Inv, pass = 2, line < Len(src), line' = line + 1, UNCHANGED <<src, pass, labels, addr>>,
         NEW T, NEW w \in Seq(T), cells' = cells \o w, Len(w) = Size(src[line + 1])
  PROVE  Inv'
<1>1. PICK r : IsRuler(r) /\ Agrees(r)
  BY DEF Inv
<1>2. PICK S : cells \in Seq(S)
  BY DEF Inv, Typed
<1>3. cells' \in Seq(S \cup T) /\ Len(cells') = Len(cells) + Size(src[line + 1])
  <2>1. w \in Seq(T)
    OBVIOUS
  <2>2. cells \o w \in Seq(S \cup T) /\ Len(cells \o w) = Len(cells) + Len(w)
    BY ONLY <1>2, <2>1, LenConcat
  <2> QED
    BY <2>2
<1>4. /\ src \in Seq(Lines) /\ line \in Nat /\ line + 1 \in 1 .. Len(src)
      /\ Seen = Len(src) /\ Seen' = Len(src)
  BY DEF Inv, Typed, Seen
<1>5. \A n \in 0 .. Len(src) : LabelsBefore(n)' = LabelsBefore(n) /\ (IsLabel(n)' <=> IsLabel(n))
  BY Counts DEF Inv
<1>6. IsRuler(r)'
  BY <1>1, <1>4 DEF IsRuler, Size
<1>7. Len(cells') = r[line + 2]
  BY <1>1, <1>3, <1>4 DEF IsRuler, Agrees
<1>8. Agrees(r)'
  BY <1>1, <1>4, <1>5, <1>7 DEF Agrees
<1>9. Typed'
  <2>1. \E U : cells' \in Seq(U)
    BY <1>3
  <2>2. line' \in 0 .. Len(src') /\ LabelsBefore(Seen)' = LabelsBefore(Seen)
    BY <1>4, <1>5
  <2> QED
    BY <1>4, <2>1, <2>2 DEF Inv, Typed
<1> QED
  BY <1>6, <1>8, <1>9 DEF Inv

(* Nothing the invariant speaks of changes.                                *)
LEMMA Same ==
  ASSUME Inv, UNCHANGED <<src, pass, line, labels, addr, cells>>
  PROVE  Inv'
<1>1. PICK r : IsRuler(r) /\ Agrees(r)
  BY DEF Inv
<1>2. Seen' = Seen /\ Seen \in 0 .. Len(src)
  BY DEF Seen, Inv, Typed
<1>3. \A n \in 0 .. Len(src) : LabelsBefore(n)' = LabelsBefore(n) /\ (IsLabel(n)' <=> IsLabel(n))
  BY Counts DEF Inv
<1>4. IsRuler(r)'
  BY <1>1, <1>2 DEF IsRuler, Size
<1>5. Agrees(r)'
  BY <1>1, <1>2, <1>3 DEF Agrees
<1>6. Typed'
  BY <1>2, <1>3 DEF Inv, Typed
<1> QED
  BY <1>4, <1>5, <1>6 DEF Inv

LEMMA InitInv == Init => Inv
<1> SUFFICES ASSUME Init PROVE Inv
  OBVIOUS
<1>1. src \in Seq(Lines) /\ pass = 1 /\ line = 0 /\ labels = <<>> /\ addr = 0 /\ cells = <<>>
  BY AsmAssumption DEF Init
<1>2. Seen = 0 /\ LabelsBefore(0) = 0
  BY <1>1, LabelCount DEF Seen
<1> DEFINE r == [i \in 1 .. 1 |-> 0]
<1>3. IsRuler(r) /\ Agrees(r)
  BY <1>1, <1>2 DEF IsRuler, Agrees
<1>4. Typed
  <2>1. cells \in Seq({})
    BY <1>1
  <2> QED
    BY <1>1, <1>2, <2>1 DEF Typed
<1> QED
  BY <1>3, <1>4 DEF Inv

LEMMA Pass1Inv == Inv /\ Pass1 => Inv'
<1> SUFFICES ASSUME Inv, Pass1 PROVE Inv'
  OBVIOUS
<1> USE DEF AtLine, NextLine, Cur, Refuse
<1>1. CASE Blank
  <2>1. /\ pass = 1 /\ line < Len(src) /\ line' = line + 1 /\ UNCHANGED <<src, pass, cells>>
        /\ src[line + 1].kind = "blank" /\ UNCHANGED <<labels, addr>>
    BY <1>1 DEF Blank
  <2>2. Size(src[line + 1]) = 0 /\ (IsLabel(line + 1) <=> FALSE)
    BY <2>1 DEF Size, IsLabel
  <2>3. addr' = addr + Size(src[line + 1])
    BY <2>1, <2>2, AddrType
  <2> QED
    BY <2>1, <2>2, <2>3, Measured
<1>2. CASE BadDirective
  BY <1>2, Same DEF BadDirective
<1>3. CASE DeclareAtom
  <2>1. /\ pass = 1 /\ line < Len(src) /\ line' = line + 1 /\ UNCHANGED <<src, pass, cells>>
        /\ src[line + 1].kind = "dir" /\ UNCHANGED <<labels, addr>>
    BY <1>3 DEF DeclareAtom, Directive
  <2>2. Size(src[line + 1]) = 0 /\ (IsLabel(line + 1) <=> FALSE)
    BY <2>1 DEF Size, IsLabel
  <2>3. addr' = addr + Size(src[line + 1])
    BY <2>1, <2>2, AddrType
  <2> QED
    BY <2>1, <2>2, <2>3, Measured
<1>4. CASE BindLabel
  <2>1. /\ pass = 1 /\ line < Len(src) /\ line' = line + 1 /\ UNCHANGED <<src, pass, cells>>
        /\ src[line + 1].kind = "label" /\ addr' = addr /\ labels' = Append(labels, <<Cur.name, addr>>)
    BY <1>4 DEF BindLabel, Label
  <2>2. Size(src[line + 1]) = 0 /\ (IsLabel(line + 1) <=> TRUE)
    BY <2>1 DEF Size, IsLabel
  <2>3. addr' = addr + Size(src[line + 1])
    BY <2>1, <2>2, AddrType
  <2> QED
    BY <2>1, <2>2, <2>3, Measured
<1>5. CASE NameTooLong
  BY <1>5, Same DEF NameTooLong
<1>6. CASE TableFull
  BY <1>6, Same DEF TableFull
<1>7. CASE Measure
  <2>1. /\ pass = 1 /\ line < Len(src) /\ line' = line + 1 /\ UNCHANGED <<src, pass, cells>>
        /\ src[line + 1].kind = "instr" /\ src[line + 1].mnem \in Mnemonics
        /\ labels' = labels /\ addr' = addr + WidthOf(src[line + 1].mnem)
    BY <1>7 DEF Measure
  <2>2. Size(src[line + 1]) = WidthOf(src[line + 1].mnem) /\ (IsLabel(line + 1) <=> FALSE)
    BY <2>1 DEF Size, IsLabel
  <2>3. addr' = addr + Size(src[line + 1])
    BY <2>1, <2>2, AddrType
  <2> QED
    BY <2>1, <2>2, <2>3, Measured
<1>8. CASE UnknownOpcode
  BY <1>8, Same DEF UnknownOpcode
<1>9. CASE EndPass1
  <2>1. PICK r : IsRuler(r) /\ Agrees(r)
    BY DEF Inv
  <2>2. /\ src \in Seq(Lines) /\ pass = 1 /\ line = Len(src) /\ line' = 0 /\ pass' = 2
        /\ UNCHANGED <<src, labels, addr, cells>> /\ Seen = Len(src) /\ Seen' = Len(src)
    BY <1>9 DEF EndPass1, Inv, Typed, Seen
  <2>3. \A n \in 0 .. Len(src) : LabelsBefore(n)' = LabelsBefore(n) /\ (IsLabel(n)' <=> IsLabel(n))
    BY <2>2, Counts DEF Inv
  <2>4. IsRuler(r)'
    BY <2>1, <2>2 DEF IsRuler, Size
  <2>5. Agrees(r)'
    BY <2>1, <2>2, <2>3 DEF Agrees, IsRuler
  <2>6. Typed'
    BY <2>2, <2>3 DEF Inv, Typed
  <2> QED
    BY <2>4, <2>5, <2>6 DEF Inv
<1> QED
  BY <1>1, <1>2, <1>3, <1>4, <1>5, <1>6, <1>7, <1>8, <1>9 DEF Pass1

LEMMA Pass2Inv == Inv /\ Pass2 => Inv'
<1> SUFFICES ASSUME Inv, Pass2 PROVE Inv'
  OBVIOUS
<1> USE DEF AtLine, NextLine, Cur, Refuse
<1>1. CASE PassOver
  <2>1. PICK S : cells \in Seq(S)
    BY DEF Inv, Typed
  <2>2. cells = cells \o <<>> /\ <<>> \in Seq(S) /\ Len(<<>>) = 0
    BY <2>1
  <2>3. /\ Size(src[line + 1]) = 0 /\ pass = 2 /\ line < Len(src) /\ line' = line + 1
        /\ UNCHANGED <<src, pass, labels, addr, cells>>
    BY <1>1 DEF PassOver, Size
  <2> QED
    BY <2>2, <2>3, Appends
<1>2. CASE BadLine
  BY <1>2, Same DEF BadLine
<1>3. CASE Emit
  <2>1. /\ Right(Cur.mnem, Args) /\ Cur.kind = "instr" /\ pass = 2 /\ line < Len(src)
        /\ cells' = cells \o Emitted(Cur.mnem, Args) /\ line' = line + 1
        /\ UNCHANGED <<src, pass, labels, addr>>
    BY <1>3 DEF Emit
  <2>2. Cur.mnem \in Mnemonics
    BY <2>1 DEF Inv, Typed, Seen
  <2>3. PICK T : Emitted(Cur.mnem, Args) \in Seq(T)
    BY <2>1, <2>2, EmittedLength
  <2>4. Len(Emitted(Cur.mnem, Args)) = Size(src[line + 1])
    BY <2>1, <2>2, EmittedLength DEF Size
  <2> QED
    BY <2>1, <2>3, <2>4, Appends
<1>4. CASE CellOverflow
  BY <1>4, Same DEF CellOverflow
<1>5. CASE Finish
  BY <1>5, Same DEF Finish
<1> QED
  BY <1>1, <1>2, <1>3, <1>4, <1>5 DEF Pass2

-----------------------------------------------------------------------------
(***************************************************************************)
(* As long as assemble runs, and when it has ended, every label was bound  *)
(* by the ruler and the cells are laid out by it.                          *)
(***************************************************************************)
THEOREM Consistent == Spec => []Inv
<1>1. Inv /\ [Next]_vars => Inv'
  <2> SUFFICES ASSUME Inv, [Next]_vars PROVE Inv'
    OBVIOUS
  <2>1. CASE Pass1
    BY <2>1, Pass1Inv
  <2>2. CASE Pass2
    BY <2>2, Pass2Inv
  <2>3. CASE Ended \/ UNCHANGED vars
    BY <2>3, Same DEF Ended, vars
  <2> QED
    BY <2>1, <2>2, <2>3 DEF Next
<1> QED
  BY <1>1, InitInv, PTL DEF Spec

LEMMA InvJumps == Inv => JumpsLand
<1> SUFFICES ASSUME Inv, pass = 2
             PROVE  /\ line < Len(src) /\ IsLabel(line + 1) =>
                         labels[LabelsBefore(line + 1)][2] = Len(cells)
                    /\ line = Len(src) => addr = Len(cells)
  BY DEF JumpsLand, IsLabel
<1>1. PICK r : IsRuler(r) /\ Agrees(r)
  BY DEF Inv
<1>2. Seen = Len(src) /\ line \in Nat /\ Len(src) \in Nat
  BY DEF Inv, Typed, Seen
<1>3. Len(cells) = r[line + 1]
  BY <1>1 DEF Agrees
<1>4. ASSUME line < Len(src), IsLabel(line + 1)
      PROVE  labels[LabelsBefore(line + 1)][2] = Len(cells)
  <2>1. line + 1 \in 1 .. Seen
    BY <1>2, <1>4
  <2> QED
    BY <1>1, <1>3, <1>4, <2>1 DEF Agrees
<1>5. line = Len(src) => addr = Len(cells)
  BY <1>1, <1>2, <1>3 DEF Agrees
<1> QED
  BY <1>4, <1>5

(***************************************************************************)
(* Whatever the text and however small the tables: where pass 2 comes to a *)
(* label, it has emitted as many cells as the address that pass 1 bound it *)
(* to, and at the end as many as pass 1 counted.                           *)
(***************************************************************************)
THEOREM PassesAgree == Spec => []JumpsLand
BY Consistent, InvJumps, PTL

-----------------------------------------------------------------------------
(* The tables: an entry for each line of a kind, in their order.           *)
NameOf(l) == IF l.kind = "dir" THEN l.words[2] ELSE l.name

Lists(tab, kind, n) ==
  /\ \E T : tab \in Seq(T)
  /\ Len(tab) = Count(kind, n)
  /\ \A i \in 1 .. n : src[i].kind = kind => tab[Count(kind, i)][1] = NameOf(src[i])
  /\ \A k \in DOMAIN tab : \E i \in 1 .. n : src[i].kind = kind /\ Count(kind, i) = k

Tabled == Lists(atoms, "dir", Seen) /\ Lists(labels, "label", Seen)

LEMMA ListsAll ==
  ASSUME src \in Seq(Lines), NEW kind, NEW n \in 0 .. Len(src), n + 1 \in 1 .. Len(src),
         NEW tab, Lists(tab, kind, n), NEW e, e[1] = NameOf(src[n + 1])
  PROVE  Lists(IF src[n + 1].kind = kind THEN Append(tab, e) ELSE tab, kind, n + 1)
<1>1. PICK T : tab \in Seq(T)
  BY DEF Lists
<1>2. n \in Nat /\ Len(src) \in Nat /\ Len(tab) \in Nat /\ DOMAIN tab = 1 .. Len(tab)
  BY <1>1
<1>3. /\ Count(kind, n + 1) = Count(kind, n) + (IF src[n + 1].kind = kind THEN 1 ELSE 0)
      /\ \A i \in 1 .. n : src[i].kind = kind => Count(kind, i) \in 1 .. Count(kind, n)
  <2>1. n < Len(src)
    BY <1>2
  <2> QED
    BY <2>1, KindCount
<1>4. /\ Len(tab) = Count(kind, n)
      /\ \A i \in 1 .. n : src[i].kind = kind => tab[Count(kind, i)][1] = NameOf(src[i])
      /\ \A k \in DOMAIN tab : \E i \in 1 .. n : src[i].kind = kind /\ Count(kind, i) = k
  BY DEF Lists
<1>5. CASE src[n + 1].kind # kind
  <2>1. \A i \in 1 .. n + 1 : src[i].kind = kind => i \in 1 .. n
    BY <1>2, <1>5
  <2>2. \A i \in 1 .. n : i \in 1 .. n + 1
    BY <1>2
  <2>3. Len(tab) = Count(kind, n + 1)
    BY <1>2, <1>3, <1>4, <1>5
  <2>4. Lists(tab, kind, n + 1)
    BY <1>1, <1>4, <2>1, <2>2, <2>3 DEF Lists
  <2> QED
    BY <1>5, <2>4
<1>6. CASE src[n + 1].kind = kind
  <2> DEFINE new == Append(tab, e)
  <2>1. tab \in Seq(T \cup {e}) /\ e \in T \cup {e}
    BY <1>1, Wider
  <2>2. /\ new \in Seq(T \cup {e}) /\ Len(new) = Len(tab) + 1 /\ new[Len(tab) + 1] = e
        /\ \A k \in 1 .. Len(tab) : new[k] = tab[k]
    BY <2>1, AppendProperties
  <2> HIDE DEF new
  <2>3. Len(new) = Count(kind, n + 1) /\ Count(kind, n + 1) = Len(tab) + 1
    BY <1>3, <1>4, <1>6, <2>2
  <2>4. ASSUME NEW i \in 1 .. n + 1, src[i].kind = kind
        PROVE  new[Count(kind, i)][1] = NameOf(src[i])
    <3>1. i = n + 1 \/ i \in 1 .. n
      BY <1>2
    <3>2. CASE i = n + 1
      BY <2>2, <2>3, <3>2
    <3>3. CASE i \in 1 .. n
      BY <1>3, <1>4, <2>2, <2>4, <3>3
    <3> QED
      BY <3>1, <3>2, <3>3
  <2>5. ASSUME NEW k \in DOMAIN new
        PROVE  \E i \in 1 .. n + 1 : src[i].kind = kind /\ Count(kind, i) = k
    <3>1. k \in 1 .. Len(tab) + 1
      BY <2>2
    <3>2. CASE k = Len(tab) + 1
      <4>1. n + 1 \in 1 .. n + 1
        BY <1>2
      <4> QED
        BY <1>6, <2>3, <3>2, <4>1
    <3>3. CASE k \in DOMAIN tab
      <4>1. PICK i \in 1 .. n : src[i].kind = kind /\ Count(kind, i) = k
        BY <1>4, <3>3
      <4>2. i \in 1 .. n + 1
        BY <1>2
      <4> QED
        BY <4>1, <4>2
    <3>4. k = Len(tab) + 1 \/ k \in DOMAIN tab
      BY <1>2, <3>1
    <3> QED
      BY <3>2, <3>3, <3>4
  <2>6. Lists(new, kind, n + 1)
    BY <2>2, <2>3, <2>4, <2>5 DEF Lists
  <2> QED
    BY <1>6, <2>6 DEF new
<1> QED
  BY <1>5, <1>6

LEMMA SameCount ==
  ASSUME UNCHANGED src
  PROVE  \A kind, n : Count(kind, n)' = Count(kind, n)
BY DEF Count, OfKind, Upto

LEMMA TabledStays ==
  ASSUME Inv, Tabled, UNCHANGED <<src, atoms, labels>>, Seen' = Seen
  PROVE  Tabled'
BY SameCount DEF Tabled, Lists, NameOf

LEMMA TabledReads ==
  ASSUME Inv, Tabled, pass = 1, line < Len(src), line' = line + 1, UNCHANGED <<src, pass>>,
         NEW a, NEW l, a[1] = NameOf(src[line + 1]), l[1] = NameOf(src[line + 1]),
         atoms' = IF src[line + 1].kind = "dir" THEN Append(atoms, a) ELSE atoms,
         labels' = IF src[line + 1].kind = "label" THEN Append(labels, l) ELSE labels
  PROVE  Tabled'
<1>1. /\ src \in Seq(Lines) /\ line \in 0 .. Len(src) /\ line + 1 \in 1 .. Len(src)
      /\ Seen = line /\ Seen' = line + 1
  BY DEF Inv, Typed, Seen
<1>2. Lists(atoms, "dir", line) /\ Lists(labels, "label", line)
  BY <1>1 DEF Tabled
<1>3. Lists(atoms', "dir", line + 1)
  BY <1>1, <1>2, ListsAll
<1>4. Lists(labels', "label", line + 1)
  BY <1>1, <1>2, ListsAll
<1>5. (\A kind, n : Count(kind, n)' = Count(kind, n)) /\ UNCHANGED src
  BY SameCount
<1>6. Lists(atoms, "dir", Seen)'
  BY <1>1, <1>3, <1>5, Zenon DEF Lists, NameOf
<1>7. Lists(labels, "label", Seen)'
  BY <1>1, <1>4, <1>5, Zenon DEF Lists, NameOf
<1> QED
  BY <1>6, <1>7 DEF Tabled

LEMMA InitTabled == Init => Tabled
<1> SUFFICES ASSUME Init PROVE Tabled
  OBVIOUS
<1>1. src \in Seq(Lines) /\ pass = 1 /\ line = 0 /\ atoms = <<>> /\ labels = <<>> /\ Seen = 0
  BY AsmAssumption DEF Init, Seen
<1>2. \A kind : Count(kind, 0) = 0
  BY Counting DEF Count
<1>3. atoms \in Seq({}) /\ labels \in Seq({}) /\ Len(atoms) = 0 /\ Len(labels) = 0
  BY <1>1
<1> QED
  BY <1>1, <1>2, <1>3 DEF Tabled, Lists

LEMMA NextTabled == Inv /\ Tabled /\ [Next]_vars => Tabled'
<1> SUFFICES ASSUME Inv, Tabled, [Next]_vars PROVE Tabled'
  OBVIOUS
<1> USE DEF AtLine, NextLine, Cur, Refuse
<1>1. CASE UNCHANGED <<src, pass, line, atoms, labels>>
  <2>1. Seen' = Seen
    BY <1>1 DEF Seen
  <2> QED
    BY <1>1, <2>1, TabledStays
<1>2. CASE Blank \/ Measure
  <2> DEFINE a == <<NameOf(src[line + 1])>>
  <2>1. /\ pass = 1 /\ line < Len(src) /\ line' = line + 1 /\ UNCHANGED <<src, pass, atoms, labels>>
        /\ src[line + 1].kind # "dir" /\ src[line + 1].kind # "label"
    BY <1>2 DEF Blank, Measure
  <2>2. a[1] = NameOf(src[line + 1])
    OBVIOUS
  <2> HIDE DEF a
  <2> QED
    BY <2>1, <2>2, TabledReads
<1>3. CASE DeclareAtom
  <2> DEFINE a == <<Cur.words[2], Cur.words[1][2]>>
  <2>1. /\ pass = 1 /\ line < Len(src) /\ line' = line + 1 /\ UNCHANGED <<src, pass, labels>>
        /\ src[line + 1].kind = "dir" /\ atoms' = Append(atoms, a)
    BY <1>3 DEF DeclareAtom, Directive
  <2>2. a[1] = NameOf(src[line + 1])
    BY <2>1 DEF NameOf
  <2> HIDE DEF a
  <2> QED
    BY <2>1, <2>2, TabledReads
<1>4. CASE BindLabel
  <2> DEFINE l == <<Cur.name, addr>>
  <2>1. /\ pass = 1 /\ line < Len(src) /\ line' = line + 1 /\ UNCHANGED <<src, pass, atoms>>
        /\ src[line + 1].kind = "label" /\ labels' = Append(labels, l)
    BY <1>4 DEF BindLabel, Label
  <2>2. l[1] = NameOf(src[line + 1])
    BY <2>1 DEF NameOf
  <2> HIDE DEF l
  <2> QED
    BY <2>1, <2>2, TabledReads
<1>5. CASE EndPass1
  <2>1. UNCHANGED <<src, atoms, labels>> /\ Seen' = Seen
    BY <1>5 DEF EndPass1, Seen
  <2> QED
    BY <2>1, TabledStays
<1>6. CASE PassOver \/ Emit
  <2>1. UNCHANGED <<src, atoms, labels>> /\ Seen' = Seen
    BY <1>6 DEF PassOver, Emit, Seen
  <2> QED
    BY <2>1, TabledStays
<1>7. CASE BadDirective \/ NameTooLong \/ TableFull \/ UnknownOpcode \/ BadLine \/ CellOverflow \/ Finish
  BY <1>1, <1>7 DEF BadDirective, NameTooLong, TableFull, UnknownOpcode, BadLine, CellOverflow, Finish
<1>8. CASE Ended \/ UNCHANGED vars
  BY <1>1, <1>8 DEF Ended, vars
<1> QED
  BY <1>2, <1>3, <1>4, <1>5, <1>6, <1>7, <1>8 DEF Next, Pass1, Pass2

-----------------------------------------------------------------------------
(* The cells that are pushed.                                              *)
Fits(cs) == \A i \in DOMAIN cs : cs[i][1] = "INT" => cs[i][2] \in -2^20 .. 2^20 - 1

LEMMA Wraps ==
  ASSUME NEW n \in Int
  PROVE  Wrap21(n) \in -2^20 .. 2^20 - 1
BY SMT DEF Wrap21

LEMMA EmittedCells ==
  ASSUME NEW m \in Mnemonics, NEW args, Formed(m, args)
  PROVE  /\ Fields(m, args)[1] = m
         /\ IF IsTwoCell(m) THEN \E i, c : Adds(m, args, i, c) /\ Emitted(m, args) = <<Fields(m, args), Resolved(c)>>
            ELSE Symbols(m, args) = <<>> /\ Emitted(m, args) = <<Fields(m, args)>>
<1> DEFINE symbols == Symbols(m, args)
           words   == [i \in DOMAIN symbols |-> Resolved(symbols[i])]
<1>1. CASE IsTwoCell(m)
  <2>1. PICK i, c : Adds(m, args, i, c)
    BY <1>1, OneSymbol
  <2>2. words = <<Resolved(c)>>
    BY <2>1 DEF Adds
  <2>3. Emitted(m, args) = <<Fields(m, args)>> \o <<Resolved(c)>>
    BY <2>2 DEF Emitted
  <2>4. Emitted(m, args) = <<Fields(m, args), Resolved(c)>>
    BY <2>3, Pairs
  <2> QED
    BY <1>1, <2>1, <2>4 DEF Fields
<1>2. CASE ~IsTwoCell(m)
  <2>1. words = <<>> /\ symbols = <<>>
    BY <1>2, OneSymbol
  <2>2. Emitted(m, args) = <<Fields(m, args)>> \o <<>>
    BY <2>1 DEF Emitted
  <2>3. \A x : <<x>> \o <<>> = <<x>>
    <3> SUFFICES ASSUME NEW x PROVE <<x>> \o <<>> = <<x>>
      OBVIOUS
    <3>1. <<x>> \in Seq({x})
      OBVIOUS
    <3> QED
      BY <3>1, ConcatEmptySeq
  <2> QED
    BY <1>2, <2>1, <2>2, <2>3 DEF Fields
<1> QED
  BY <1>1, <1>2

LEMMA SymbolCases ==
  ASSUME NEW t, NEW sort \in Adding, OperandError(sort, t) # "BadOperand", NEW c, Symbol(sort, t) = <<c>>
  PROVE  c = <<"LABEL", t>> \/ c = <<"ATOM", t[2]>> \/ (c = <<"INT", t[2]>> /\ t[1] = "int")
<1>1. CASE sort = "label"
  <2>1. Symbol("label", t) = <<<<"LABEL", t>>>>
    BY SymbolOf
  <2> QED
    BY ONLY <1>1, <2>1, Symbol(sort, t) = <<c>>
<1>2. CASE sort = "functor"
  <2>1. Symbol("functor", t) = <<<<"ATOM", t[2]>>>>
    BY SymbolOf
  <2> QED
    BY ONLY <1>2, <2>1, Symbol(sort, t) = <<c>>
<1>3. CASE sort = "const"
  <2>1. t[1] = "atom" \/ t[1] = "int"
    BY <1>3, SymbolOf
  <2>2. CASE t[1] = "atom"
    <3>1. Symbol("const", t) = <<<<"ATOM", t[2]>>>>
      BY ONLY <2>2, SymbolOf
    <3> QED
      BY ONLY <1>3, <3>1, Symbol(sort, t) = <<c>>
  <2>3. CASE t[1] = "int"
    <3>1. Symbol("const", t) = <<<<"INT", t[2]>>>>
      BY ONLY <2>3, SymbolOf
    <3> QED
      BY ONLY <1>3, <2>3, <3>1, Symbol(sort, t) = <<c>>
  <2> QED
    BY <2>1, <2>2, <2>3
<1> QED
  BY <1>1, <1>2, <1>3 DEF Adding

LEMMA EmittedFits ==
  ASSUME NEW m \in Mnemonics, NEW args, Formed(m, args),
         \A i \in DOMAIN Operands(m) : args[i][1] = "int" => args[i][2] \in Int
  PROVE  Fits(Emitted(m, args))
<1>1. m # "INT"
  BY DEF Mnemonics, Plain, Jumps, Moves
<1>2. Fields(m, args)[1] # "INT"
  BY <1>1, EmittedCells
<1>3. CASE IsTwoCell(m)
  <2>1. PICK i, c : Adds(m, args, i, c) /\ Emitted(m, args) = <<Fields(m, args), Resolved(c)>>
    BY <1>3, EmittedCells
  <2> DEFINE t == args[i]
             sort == Operands(m)[i]
  <2>2. i \in DOMAIN Operands(m) /\ sort \in Adding /\ Symbol(sort, t) = <<c>>
    BY <2>1 DEF Adds
  <2>3. OperandError(sort, t) # "BadOperand" /\ (t[1] = "int" => t[2] \in Int)
    BY <2>2 DEF Formed
  <2> HIDE DEF t, sort
  <2>4. c = <<"LABEL", t>> \/ c = <<"ATOM", t[2]>> \/ (c = <<"INT", t[2]>> /\ t[1] = "int")
    BY <2>2, <2>3, SymbolCases
  <2>5. Resolved(c)[1] = "INT" => Resolved(c)[2] \in -2^20 .. 2^20 - 1
    <3>1. CASE c = <<"LABEL", t>>
      BY <3>1 DEF Resolved
    <3>2. CASE c = <<"ATOM", t[2]>>
      BY <3>2 DEF Resolved
    <3>3. CASE c = <<"INT", t[2]>> /\ t[1] = "int"
      <4>1. Resolved(c) = <<"INT", Wrap21(t[2])>>
        BY <3>3 DEF Resolved
      <4>2. Wrap21(t[2]) \in -2^20 .. 2^20 - 1
        BY <2>3, <3>3, Wraps
      <4> QED
        BY <4>1, <4>2
    <3> QED
      BY <2>4, <3>1, <3>2, <3>3
  <2> QED
    BY <1>2, <2>1, <2>5 DEF Fits
<1>4. CASE ~IsTwoCell(m)
  BY <1>2, <1>4, EmittedCells DEF Fits
<1> QED
  BY <1>3, <1>4

LEMMA FitsConcat ==
  ASSUME NEW S, NEW T, NEW s \in Seq(S), NEW t \in Seq(T), Fits(s), Fits(t)
  PROVE  Fits(s \o t)
<1>1. s \in Seq(S \cup T) /\ t \in Seq(S \cup T)
  BY Wider
<1>2. /\ Len(s \o t) = Len(s) + Len(t) /\ DOMAIN (s \o t) = 1 .. Len(s \o t)
      /\ \A i \in 1 .. Len(s) + Len(t) : (s \o t)[i] = IF i <= Len(s) THEN s[i] ELSE t[i - Len(s)]
  BY <1>1
<1>3. Len(s) \in Nat /\ Len(t) \in Nat /\ DOMAIN s = 1 .. Len(s) /\ DOMAIN t = 1 .. Len(t)
  OBVIOUS
<1>4. ASSUME NEW i \in 1 .. Len(s) + Len(t)
      PROVE  \/ i \in DOMAIN s /\ (s \o t)[i] = s[i]
             \/ i - Len(s) \in DOMAIN t /\ (s \o t)[i] = t[i - Len(s)]
  BY <1>2, <1>3
<1> QED
  BY <1>2, <1>4 DEF Fits

(* The operands of a line.                                                 *)
LEMMA OperandsType ==
  ASSUME NEW m \in Mnemonics
  PROVE  Operands(m) \in Seq(Kinds \cup Adding) /\ Len(Operands(m)) <= 2
<1> DEFINE Sorts == Kinds \cup Adding
           All == {<<>>, <<"label">>, <<"reg", "reg">>, <<"reg", "const">>, <<"reg", "functor">>,
                   <<"yreg", "reg">>, <<"slots">>, <<"reg">>, <<"const">>}
<1>1. {"reg", "yreg", "slots", "label", "const", "functor"} \subseteq Sorts
  BY DEF Kinds, Adding
<1> HIDE DEF Sorts
<1>2. /\ <<>> \in Seq(Sorts) /\ Len(<<>>) <= 2
      /\ \A x \in Sorts : <<x>> \in Seq(Sorts) /\ Len(<<x>>) <= 2
      /\ \A x, y \in Sorts : <<x, y>> \in Seq(Sorts) /\ Len(<<x, y>>) <= 2
  OBVIOUS
<1>3. Operands(m) \in All
  BY DEF Mnemonics, Plain, Jumps, Moves, Operands
<1>4. Operands(m) \in Seq(Sorts) /\ Len(Operands(m)) <= 2
  BY <1>1, <1>2, <1>3
<1> QED
  BY <1>4 DEF Sorts

LEMMA IntArgs ==
  ASSUME NEW l \in Lines, l.kind = "instr"
  PROVE  /\ \E S : SplitArgs(l.ops) \in Seq(S)
         /\ \A i \in DOMAIN SplitArgs(l.ops) :
              /\ SplitArgs(l.ops)[i][1] = "int" => SplitArgs(l.ops)[i][2] \in Int
              /\ SplitArgs(l.ops)[i][1] = "reg" => SplitArgs(l.ops)[i][3] \in 0 .. 7
<1> DEFINE Fine(t) == (t[1] = "int" => t[2] \in Int) /\ (t[1] = "reg" => t[3] \in 0 .. 7)
           S == {l.ops[i] : i \in DOMAIN l.ops}
           args == SplitArgs(l.ops)
<1>1. l.ops \in Seq(S) /\ \A i \in DOMAIN l.ops : Fine(l.ops[i])
  <2>1. l.ops \in Seq(S)
    BY OperandAssumption
  <2>2. ASSUME NEW i \in DOMAIN l.ops PROVE Fine(l.ops[i])
    BY OperandAssumption
  <2> QED
    BY <2>1, <2>2
<1> HIDE DEF Fine
<1>2. \A t \in S : Fine(t)
  BY <1>1
<1> HIDE DEF S
<1>3. args \in Seq(S)
  BY <1>1, ArgsType
<1> HIDE DEF args
<1>4. \A i \in DOMAIN args : args[i] \in S
  BY <1>3
<1>5. (\E U : args \in Seq(U)) /\ \A i \in DOMAIN args : Fine(args[i])
  BY <1>2, <1>3, <1>4
<1> QED
  BY <1>5 DEF args, Fine

LEMMA InitType == Init => TypeOK
<1> SUFFICES ASSUME Init PROVE TypeOK
  OBVIOUS
<1>1. src \in Seq(Lines) /\ Len(src) \in Nat /\ AsmMaxAtoms \in Nat /\ AsmMaxLabels \in Nat /\ MaxCells \in Nat
  BY AsmAssumption DEF Init
<1> QED
  BY <1>1 DEF Init, TypeOK

LEMMA NextType == Inv /\ Tabled /\ TypeOK /\ [Next]_vars /\ Inv' => TypeOK'
<1> SUFFICES ASSUME Inv, Tabled, TypeOK, [Next]_vars, Inv' PROVE TypeOK'
  OBVIOUS
<1> USE DEF AtLine, NextLine, Cur, Refuse
<1>0. /\ pass' \in {1, 2} /\ line' \in 0 .. Len(src)' /\ addr \in Nat
      /\ Len(atoms) \in Nat /\ labels \in Seq(Names \X Nat)
  <2>1. \E T : atoms \in Seq(T)
    BY DEF Tabled, Lists
  <2> QED
    BY <2>1, AddrType DEF Inv, Typed
<1>1. CASE UNCHANGED <<atoms, labels, addr, cells>>
  BY <1>0, <1>1 DEF TypeOK
<1>2. CASE DeclareAtom
  <2>1. PICK T : atoms \in Seq(T)
    BY DEF Tabled, Lists
  <2> DEFINE e == <<Cur.words[2], Cur.words[1][2]>>
  <2>2. Len(atoms) < AsmMaxAtoms /\ atoms' = Append(atoms, e) /\ UNCHANGED <<labels, addr, cells>>
    BY <1>2 DEF DeclareAtom
  <2> HIDE DEF e
  <2>3. atoms \in Seq(T \cup {e}) /\ e \in T \cup {e}
    BY <2>1, Wider
  <2>4. Len(atoms') = Len(atoms) + 1
    BY <2>2, <2>3, AppendProperties
  <2>5. Len(atoms') <= AsmMaxAtoms
    BY <1>0, <2>2, <2>4, AsmAssumption
  <2> QED
    BY <1>0, <2>2, <2>5 DEF TypeOK
<1>3. CASE BindLabel
  <2> DEFINE e == <<Cur.name, addr>>
  <2>1. /\ Len(labels) < AsmMaxLabels /\ labels' = Append(labels, e) /\ UNCHANGED <<atoms, addr, cells>>
        /\ line < Len(src)
    BY <1>3 DEF BindLabel, Label
  <2>2. e \in Names \X Nat /\ e[2] = addr
    <3>1. src[line + 1] \in Lines
      BY <2>1 DEF Inv, Typed
    <3> QED
      BY <1>0, <3>1 DEF Names
  <2> HIDE DEF e
  <2>3. /\ Len(labels') = Len(labels) + 1 /\ DOMAIN labels' = 1 .. Len(labels) + 1
        /\ \A i \in 1 .. Len(labels) : labels'[i] = labels[i]
        /\ labels'[Len(labels) + 1] = e
        /\ DOMAIN labels = 1 .. Len(labels) /\ Len(labels) \in Nat
    BY <1>0, <2>1, <2>2, AppendProperties
  <2>4. Len(labels') <= AsmMaxLabels
    BY <2>1, <2>3, AsmAssumption
  <2>5. ASSUME NEW i \in DOMAIN labels' PROVE labels'[i][2] \in 0 .. addr'
    <3>1. i \in DOMAIN labels \/ i = Len(labels) + 1
      BY <2>3
    <3> QED
      BY <1>0, <2>1, <2>2, <2>3, <3>1 DEF TypeOK
  <2> QED
    BY <1>0, <2>1, <2>4, <2>5 DEF TypeOK
<1>4. CASE Measure
  <2>1. addr' = addr + WidthOf(Cur.mnem) /\ UNCHANGED <<atoms, labels, cells>>
    BY <1>4 DEF Measure
  <2>2. WidthOf(Cur.mnem) \in Nat
    BY DEF WidthOf
  <2>3. 0 .. addr \subseteq 0 .. addr'
    BY <1>0, <2>1, <2>2
  <2> QED
    BY <1>0, <2>1, <2>3 DEF TypeOK
<1>5. CASE Emit
  <2>1. /\ Cur.kind = "instr" /\ pass = 2 /\ line < Len(src) /\ Right(Cur.mnem, Args)
        /\ cells' = cells \o Emitted(Cur.mnem, Args) /\ Len(cells') <= MaxCells
        /\ UNCHANGED <<atoms, labels, addr>>
    BY <1>5 DEF Emit
  <2>2. Cur.mnem \in Mnemonics /\ Cur \in Lines
    BY <2>1 DEF Inv, Typed, Seen
  <2>3. Formed(Cur.mnem, Args)
    BY <2>1, RightFormed
  <2>4. \A i \in DOMAIN Operands(Cur.mnem) : Args[i][1] = "int" => Args[i][2] \in Int
    <3>1. \E T : Operands(Cur.mnem) \in Seq(T)
      BY <2>2, OperandsType
    <3>2. /\ \E T : Args \in Seq(T)
          /\ \A i \in DOMAIN Args : Args[i][1] = "int" => Args[i][2] \in Int
      BY <2>1, <2>2, IntArgs DEF Args
    <3>3. DOMAIN Operands(Cur.mnem) = DOMAIN Args
      BY <2>3, <3>1, <3>2 DEF Formed
    <3> QED
      BY <3>2, <3>3
  <2>5. PICK T : Emitted(Cur.mnem, Args) \in Seq(T)
    BY <2>1, <2>2, EmittedLength
  <2>6. PICK S : cells \in Seq(S)
    BY DEF Inv, Typed
  <2>7. Fits(Emitted(Cur.mnem, Args)) /\ Fits(cells)
    BY <2>2, <2>3, <2>4, EmittedFits DEF TypeOK, Fits
  <2>8. Fits(cells')
    BY <2>1, <2>5, <2>6, <2>7, FitsConcat
  <2> QED
    BY <1>0, <2>1, <2>8 DEF TypeOK, Fits
<1>6. CASE \/ Blank \/ BadDirective \/ NameTooLong \/ TableFull \/ UnknownOpcode \/ EndPass1
           \/ PassOver \/ BadLine \/ CellOverflow \/ Finish
  BY <1>1, <1>6 DEF Blank, BadDirective, NameTooLong, TableFull, UnknownOpcode, EndPass1, PassOver,
     BadLine, CellOverflow, Finish
<1>7. CASE Ended \/ UNCHANGED vars
  BY <1>1, <1>7 DEF Ended, vars
<1> QED
  BY <1>2, <1>3, <1>4, <1>5, <1>6, <1>7 DEF Next, Pass1, Pass2

(***************************************************************************)
(* Whatever the text: the tables and the cells stay within their sizes,    *)
(* whichever check comes first; no label is bound past the cells counted   *)
(* so far; and an integer that is emitted fits the 21 bits the machine     *)
(* reads it back from.                                                     *)
(***************************************************************************)
THEOREM TypeCorrect == Spec => []TypeOK
<1>1. Spec => [](Inv /\ Tabled)
  <2>1. Spec => []Inv
    BY Consistent
  <2>2. Inv /\ Tabled /\ [Next]_vars => Tabled'
    BY NextTabled
  <2> QED
    BY <2>1, <2>2, InitTabled, PTL DEF Spec
<1>2. Inv /\ Tabled /\ TypeOK /\ [Next]_vars /\ Inv' => TypeOK'
  BY NextType
<1> QED
  BY <1>1, <1>2, InitType, PTL DEF Spec

-----------------------------------------------------------------------------
(* Where a line begins, counted: the only ruler there is.                  *)
TwoCells == {i \in DOMAIN src : src[i].kind = "instr" /\ IsTwoCell(src[i].mnem)}

Offset(i) == Count("instr", i - 1) + Upto(TwoCells, i - 1)

LEMMA OffsetSteps ==
  ASSUME src \in Seq(Lines)
  PROVE  /\ Offset(1) = 0
         /\ \A i \in 1 .. Len(src) + 1 : Offset(i) \in Nat
         /\ \A i \in 1 .. Len(src) : Offset(i + 1) = Offset(i) + Size(src[i])
         /\ \A j \in 1 .. Len(src) + 1 : \A i \in 1 .. j : Offset(i) <= Offset(j)
<1>1. Len(src) \in Nat /\ DOMAIN src = 1 .. Len(src)
  OBVIOUS
<1>2. Offset(1) = 0
  <2>1. Upto(OfKind("instr"), 0) = 0 /\ Upto(TwoCells, 0) = 0
    BY Counting
  <2> QED
    BY <2>1 DEF Offset, Count
<1>3. ASSUME NEW i \in 1 .. Len(src) + 1 PROVE Offset(i) \in Nat
  <2>1. i - 1 \in Nat
    BY <1>1
  <2>2. Upto(OfKind("instr"), i - 1) \in Nat /\ Upto(TwoCells, i - 1) \in Nat
    BY <2>1, Counting
  <2> QED
    BY <2>2 DEF Offset, Count
<1>4. ASSUME NEW i \in 1 .. Len(src) PROVE Offset(i + 1) = Offset(i) + Size(src[i])
  <2>1. i - 1 \in Nat /\ (i - 1) + 1 = i /\ (i + 1) - 1 = i /\ i \in DOMAIN src
    BY <1>1
  <2>2. ASSUME NEW P
        PROVE  /\ Upto(P, i) = Upto(P, i - 1) + (IF i \in P THEN 1 ELSE 0)
               /\ Upto(P, i - 1) \in Nat
    <3>1. /\ Upto(P, (i - 1) + 1) = Upto(P, i - 1) + (IF (i - 1) + 1 \in P THEN 1 ELSE 0)
          /\ Upto(P, i - 1) \in Nat
      BY <2>1, Counting
    <3> QED
      BY ONLY <2>1, <3>1
  <2>3. /\ Upto(OfKind("instr"), i) = Upto(OfKind("instr"), i - 1) + (IF i \in OfKind("instr") THEN 1 ELSE 0)
        /\ Upto(OfKind("instr"), i - 1) \in Nat
        /\ Upto(TwoCells, i) = Upto(TwoCells, i - 1) + (IF i \in TwoCells THEN 1 ELSE 0)
        /\ Upto(TwoCells, i - 1) \in Nat
    BY <2>2
  <2>4. Size(src[i]) = (IF i \in OfKind("instr") THEN 1 ELSE 0) + (IF i \in TwoCells THEN 1 ELSE 0)
    BY <2>1 DEF Size, WidthOf, OfKind, TwoCells
  <2>5. /\ Offset(i) = Upto(OfKind("instr"), i - 1) + Upto(TwoCells, i - 1)
        /\ Offset(i + 1) = Upto(OfKind("instr"), i) + Upto(TwoCells, i)
    BY <2>1 DEF Offset, Count
  <2> QED
    BY ONLY <2>3, <2>4, <2>5
<1>5. ASSUME NEW j \in 1 .. Len(src) + 1, NEW i \in 1 .. j PROVE Offset(i) <= Offset(j)
  <2>1. j - 1 \in Nat /\ i - 1 \in 0 .. j - 1
    BY <1>1
  <2>2. ASSUME NEW P
        PROVE  Upto(P, j - 1) \in Nat /\ Upto(P, i - 1) \in Nat /\ Upto(P, i - 1) <= Upto(P, j - 1)
    <3>1. Upto(P, j - 1) \in Nat /\ \A k \in 0 .. j - 1 : Upto(P, k) \in 0 .. Upto(P, j - 1)
      BY <2>1, Counting
    <3>2. Upto(P, i - 1) \in 0 .. Upto(P, j - 1)
      BY <2>1, <3>1
    <3> QED
      BY <3>1, <3>2
  <2>3. /\ Upto(OfKind("instr"), i - 1) <= Upto(OfKind("instr"), j - 1)
        /\ Upto(OfKind("instr"), i - 1) \in Nat /\ Upto(OfKind("instr"), j - 1) \in Nat
        /\ Upto(TwoCells, i - 1) <= Upto(TwoCells, j - 1)
        /\ Upto(TwoCells, i - 1) \in Nat /\ Upto(TwoCells, j - 1) \in Nat
    BY <2>2
  <2> QED
    BY <2>3 DEF Offset, Count
<1> QED
  BY <1>2, <1>3, <1>4, <1>5

LEMMA RulerIsOffset ==
  ASSUME Inv, NEW r, IsRuler(r)
  PROVE  \A i \in 1 .. Seen + 1 : r[i] = Offset(i)
<1> DEFINE Bad == {i \in 1 .. Seen + 1 : r[i] # Offset(i)}
           m   == Min(Bad)
<1>1. src \in Seq(Lines) /\ Seen \in Nat /\ Seen <= Len(src) /\ Len(src) \in Nat
  BY DEF Inv, Typed, Seen
<1>2. r[1] = 0 /\ \A i \in 1 .. Seen : r[i + 1] = r[i] + Size(src[i])
  BY DEF IsRuler
<1>3. Offset(1) = 0 /\ \A i \in 1 .. Seen : Offset(i + 1) = Offset(i) + Size(src[i])
  BY <1>1, OffsetSteps
<1>4. ASSUME Bad # {} PROVE FALSE
  <2>1. Bad \subseteq Nat
    OBVIOUS
  <2>2. m \in Bad /\ \A y \in Bad : m <= y
    BY <1>4, <2>1, MinOf
  <2> HIDE DEF m
  <2>3. m \in 1 .. Seen + 1 /\ r[m] # Offset(m)
    BY <2>2
  <2>4. m - 1 \in 1 .. Seen /\ (m - 1) + 1 = m /\ ~(m <= m - 1) /\ m - 1 \in 1 .. Seen + 1
    BY <1>1, <1>2, <1>3, <2>3
  <2>5. r[m - 1] = Offset(m - 1)
    BY <2>2, <2>4
  <2> QED
    BY <1>2, <1>3, <2>3, <2>4, <2>5
<1> QED
  BY <1>4

LEMMA LaidOut ==
  ASSUME Inv
  PROVE  /\ Len(cells) = IF pass = 1 THEN 0 ELSE Offset(line + 1)
         /\ \A i \in 1 .. Seen : IsLabel(i) => labels[LabelsBefore(i)][2] = Offset(i)
<1>1. PICK r : IsRuler(r) /\ Agrees(r)
  BY DEF Inv
<1>2. \A i \in 1 .. Seen + 1 : r[i] = Offset(i)
  BY <1>1, RulerIsOffset
<1>3. Seen \in Nat /\ (pass # 1 => line + 1 \in 1 .. Seen + 1) /\ \A i \in 1 .. Seen : i \in 1 .. Seen + 1
  BY DEF Inv, Typed, Seen
<1> QED
  BY <1>1, <1>2, <1>3 DEF Agrees

(* The line of which the n-th cell is.                                     *)
LEMMA LineOfCell ==
  ASSUME src \in Seq(Lines), NEW j \in 0 .. Len(src), NEW n \in 1 .. Offset(j + 1)
  PROVE  \E i \in 1 .. j : \E k \in 1 .. Size(src[i]) : n = Offset(i) + k
<1> DEFINE Past == {i \in 1 .. j : n <= Offset(i + 1)}
           m    == Min(Past)
<1>1. Len(src) \in Nat /\ j \in Nat /\ j + 1 \in 1 .. Len(src) + 1
  OBVIOUS
<1>2. /\ Offset(1) = 0 /\ Offset(j + 1) \in Nat
      /\ \A i \in 1 .. j : Offset(i) \in Nat /\ Offset(i + 1) = Offset(i) + Size(src[i])
  BY <1>1, OffsetSteps
<1>3. j # 0
  BY <1>1, <1>2
<1>4. j \in Past
  BY <1>1, <1>2, <1>3
<1>5. m \in Past /\ \A y \in Past : m <= y
  <2>1. Past \subseteq Nat
    BY <1>1
  <2> HIDE DEF Past
  <2> QED
    BY <1>4, <2>1, MinOf
<1> HIDE DEF m
<1>6. m \in 1 .. j /\ n <= Offset(m + 1)
  BY <1>5
<1>7. Offset(m) < n
  <2>1. CASE m = 1
    BY <1>2, <2>1
  <2>2. CASE m # 1
    <3>1. m - 1 \in 1 .. j /\ (m - 1) + 1 = m /\ ~(m <= m - 1)
      BY <1>1, <1>6, <2>2
    <3>2. ~(n <= Offset(m))
      BY <1>5, <3>1
    <3> QED
      BY <1>2, <1>6, <3>2
  <2> QED
    BY <2>1, <2>2
<1>8. n - Offset(m) \in 1 .. Size(src[m]) /\ n = Offset(m) + (n - Offset(m))
  <2>1. Offset(m) \in Nat /\ Offset(m + 1) = Offset(m) + Size(src[m])
    BY <1>2, <1>6
  <2>2. n \in Nat /\ Size(src[m]) \in Nat
    BY <1>2 DEF Size, WidthOf
  <2> QED
    BY ONLY <1>6, <1>7, <2>1, <2>2
<1> QED
  BY <1>6, <1>8

LEMMA OneLine ==
  ASSUME src \in Seq(Lines), NEW i \in 1 .. Len(src), NEW j \in 1 .. Len(src),
         NEW k \in 1 .. Size(src[i]), NEW l \in 1 .. Size(src[j]), Offset(i) + k = Offset(j) + l
  PROVE  i = j /\ k = l
<1>1. Len(src) \in Nat /\ i + 1 \in 1 .. Len(src) + 1 /\ j + 1 \in 1 .. Len(src) + 1
  OBVIOUS
<1>2. /\ Offset(i) \in Nat /\ Offset(i + 1) = Offset(i) + Size(src[i])
      /\ Offset(j) \in Nat /\ Offset(j + 1) = Offset(j) + Size(src[j])
  BY <1>1, OffsetSteps
<1>3. i < j => Offset(i + 1) <= Offset(j)
  BY <1>1, OffsetSteps
<1>4. j < i => Offset(j + 1) <= Offset(i)
  BY <1>1, OffsetSteps
<1>5. Size(src[i]) \in Nat /\ Size(src[j]) \in Nat
  BY DEF Size, WidthOf
<1>6. k \in Nat /\ l \in Nat /\ 1 <= k /\ 1 <= l /\ k <= Size(src[i]) /\ l <= Size(src[j])
  BY <1>5
<1>7. ~(i < j) /\ ~(j < i)
  BY ONLY <1>2, <1>3, <1>4, <1>5, <1>6, Offset(i) + k = Offset(j) + l
<1>8. i = j
  BY <1>7
<1> QED
  BY <1>2, <1>6, <1>8

-----------------------------------------------------------------------------
(* What pass 2 has emitted, and why the assembler stopped.                 *)
Ready(i)     == Right(src[i].mnem, SplitArgs(src[i].ops))
Output(i)    == Emitted(src[i].mnem, SplitArgs(src[i].ops))
Complaint(i) == EmitError(src[i].mnem, SplitArgs(src[i].ops))

Laid ==
  /\ \A i \in 1 .. Seen : src[i].kind # "instr" => IsLine(src[i])
  /\ pass = 2 => \A i \in 1 .. line : src[i].kind = "instr" =>
       Ready(i) /\ \A k \in 1 .. Size(src[i]) : cells[Offset(i) + k] = Output(i)[k]

Full(e) ==
  \/ e = "AtomOverflow" /\ src[line + 1].kind = "dir" /\ Len(atoms) = AsmMaxAtoms
  \/ e = "LabelOverflow" /\ src[line + 1].kind = "label" /\ Len(labels) = AsmMaxLabels

Rejects(e) ==
  \/ e = Complaint(line + 1) /\ ~Ready(line + 1)
  \/ e = "CellOverflow" /\ Ready(line + 1) /\ Len(cells) + Size(src[line + 1]) > MaxCells

Cause(e) ==
  /\ line < Len(src)
  /\ \/ pass = 1 /\ (~IsLine(src[line + 1]) \/ Full(e))
     \/ pass = 2 /\ src[line + 1].kind = "instr" /\ Rejects(e)

Told ==
  \/ result = <<"running">>
  \/ result = <<"ok">> /\ pass = 2 /\ line = Len(src)
  \/ \E e : result = <<e, line + 1>> /\ Cause(e)

(* What depends on the text and the tables only.                           *)
LEMMA Unmoved ==
  ASSUME UNCHANGED <<src, atoms, labels>>
  PROVE  \A i : /\ Offset(i)' = Offset(i)
                /\ Ready(i)' = Ready(i) /\ Output(i)' = Output(i) /\ Complaint(i)' = Complaint(i)
                /\ IsLine(src[i])' = IsLine(src[i])
<1>1. \A sort, t : OperandError(sort, t)' = OperandError(sort, t)
  BY DEF OperandError, UnlessIn, Holds
<1>2. \A m, args : WrongAt(m, args)' = WrongAt(m, args)
  BY <1>1 DEF WrongAt
<1>3. \A i : Ready(i)' = Ready(i)
  BY <1>2 DEF Ready, Right
<1>4. \A i : Complaint(i)' = Complaint(i)
  BY <1>1, <1>2 DEF Complaint, EmitError
<1>5. \A s : Resolved(s)' = Resolved(s)
  BY DEF Resolved, Entry
<1>6. \A i : Output(i)' = Output(i)
  BY <1>5 DEF Output, Emitted
<1>7. \A i : IsLine(src[i])' = IsLine(src[i])
  BY <1>1 DEF IsLine
<1>8. \A i : Offset(i)' = Offset(i)
  BY DEF Offset, Count, OfKind, TwoCells, Upto
<1> QED
  BY <1>3, <1>4, <1>6, <1>7, <1>8

LEMMA ToldStays ==
  ASSUME Told, UNCHANGED vars
  PROVE  Told'
<1>1. \A e : Cause(e)' = Cause(e)
  <2>1. UNCHANGED <<src, atoms, labels>>
    BY DEF vars
  <2>2. /\ Ready(line + 1)' = Ready(line + 1) /\ Complaint(line + 1)' = Complaint(line + 1)
        /\ IsLine(src[line + 1])' = IsLine(src[line + 1])
    BY <2>1, Unmoved DEF vars
  <2> QED
    BY <2>2 DEF vars, Cause, Full, Rejects, Size
<1> QED
  BY <1>1 DEF Told, vars

LEMMA Refused ==
  ASSUME NEW e, Refuse(e), Cause(e)
  PROVE  Told'
<1>1. UNCHANGED <<src, pass, line, atoms, labels, addr, cells>> /\ result' = <<e, line + 1>>
  BY DEF Refuse
<1>2. Cause(e)'
  <2>1. UNCHANGED <<src, atoms, labels>>
    BY <1>1
  <2>2. /\ Ready(line + 1)' = Ready(line + 1) /\ Complaint(line + 1)' = Complaint(line + 1)
        /\ IsLine(src[line + 1])' = IsLine(src[line + 1])
    BY <1>1, <2>1, Unmoved
  <2> QED
    BY <1>1, <2>2 DEF Cause, Full, Rejects, Size
<1> QED
  BY <1>1, <1>2 DEF Told

LEMMA NotInstr ==
  ASSUME NEW l \in Lines, l.kind # "instr"
  PROVE  /\ IsLine(l)' = IsLine(l)
         /\ l.kind = "blank" => IsLine(l)
         /\ l.kind = "dir" =>
              (IsLine(l) <=> Len(l.words) = 2 /\ l.words[1][1] = "num" /\ l.words[2] \notin TooLong)
         /\ l.kind = "label" => (IsLine(l) <=> l.name[1] \in {"word", "reg"} /\ l.name \notin TooLong)
<1>1. l.kind \in {"blank", "dir", "label"}
  BY AsmAssumption
<1>2. CASE l.kind = "blank"
  BY <1>2 DEF IsLine
<1>3. CASE l.kind = "dir"
  BY <1>3 DEF IsLine
<1>4. CASE l.kind = "label"
  BY <1>4 DEF IsLine
<1> QED
  BY <1>1, <1>2, <1>3, <1>4

LEMMA LaidReads ==
  ASSUME Inv, Laid, pass = 1, line < Len(src), line' = line + 1, UNCHANGED <<src, pass>>,
         src[line + 1].kind # "instr" => IsLine(src[line + 1])
  PROVE  Laid'
<1>1. /\ src \in Seq(Lines) /\ line \in Nat /\ Len(src) \in Nat /\ Seen = line /\ Seen' = line + 1
  BY DEF Inv, Typed, Seen
<1>2. ASSUME NEW i \in 1 .. line + 1, src[i].kind # "instr" PROVE IsLine(src[i])'
  <2>1. src[i] \in Lines
    BY <1>1
  <2>2. IsLine(src[i])
    <3>1. i = line + 1 \/ i \in 1 .. line
      BY <1>1
    <3> QED
      BY <1>1, <1>2, <3>1 DEF Laid
  <2> DEFINE l == src[i]
  <2>3. IsLine(l)' = IsLine(l)
    BY <1>2, <2>1, NotInstr
  <2> QED
    BY <2>2, <2>3
<1> QED
  BY <1>1, <1>2 DEF Laid

LEMMA LaidStays ==
  ASSUME Inv, Laid, UNCHANGED <<src, pass, line, atoms, labels, cells>>
  PROVE  Laid'
<1>1. Seen' = Seen
  BY DEF Seen
<1>2. \A i : /\ Offset(i)' = Offset(i) /\ Ready(i)' = Ready(i) /\ Output(i)' = Output(i)
             /\ IsLine(src[i])' = IsLine(src[i]) /\ Size(src[i])' = Size(src[i])
  BY Unmoved DEF Size
<1> QED
  BY <1>1, <1>2 DEF Laid

(* Pass 2 reads a line.                                                    *)
LEMMA LaidEmits ==
  ASSUME Inv, Laid, pass = 2, line < Len(src), line' = line + 1,
         UNCHANGED <<src, pass, atoms, labels>>,
         IF src[line + 1].kind = "instr"
           THEN src[line + 1].mnem \in Mnemonics /\ Ready(line + 1) /\ cells' = cells \o Output(line + 1)
           ELSE UNCHANGED cells
  PROVE  Laid'
<1>1. /\ src \in Seq(Lines) /\ line \in Nat /\ Len(src) \in Nat /\ line + 1 \in 1 .. Len(src) + 1
      /\ Seen = Len(src) /\ Seen' = Seen
  BY DEF Inv, Typed, Seen
<1>2. \A i : /\ Offset(i)' = Offset(i) /\ Ready(i)' = Ready(i) /\ Output(i)' = Output(i)
             /\ IsLine(src[i])' = IsLine(src[i]) /\ Size(src[i])' = Size(src[i])
  BY Unmoved DEF Size
<1>3. PICK S : cells \in Seq(S)
  BY DEF Inv, Typed
<1>4. Len(cells) = Offset(line + 1) /\ Len(cells) \in Nat
  BY <1>3, LaidOut
<1>5. \A i \in 1 .. line : \A k \in 1 .. Size(src[i]) : Offset(i) + k \in 1 .. Len(cells)
  <2> SUFFICES ASSUME NEW i \in 1 .. line, NEW k \in 1 .. Size(src[i])
               PROVE  Offset(i) + k \in 1 .. Len(cells)
    OBVIOUS
  <2>1. i \in 1 .. Len(src) /\ i \in 1 .. Len(src) + 1 /\ i + 1 \in 1 .. line + 1
    BY <1>1
  <2>2. Offset(i) \in Nat /\ Offset(i + 1) = Offset(i) + Size(src[i]) /\ Offset(i + 1) <= Offset(line + 1)
    BY <1>1, <2>1, OffsetSteps
  <2>3. Size(src[i]) \in Nat
    BY DEF Size, WidthOf
  <2> QED
    BY <1>4, <2>2, <2>3
<1>6. /\ \A n \in 1 .. Len(cells) : cells'[n] = cells[n]
      /\ src[line + 1].kind = "instr" =>
           \A k \in 1 .. Size(src[line + 1]) : cells'[Offset(line + 1) + k] = Output(line + 1)[k]
  <2>1. CASE src[line + 1].kind = "instr"
    <3>1. PICK T : Output(line + 1) \in Seq(T)
      BY <2>1, EmittedLength DEF Ready, Output
    <3>2. Len(Output(line + 1)) = Size(src[line + 1])
      BY <2>1, EmittedLength DEF Ready, Output, Size
    <3>3. cells' = cells \o Output(line + 1)
      BY <2>1
    <3>4. cells \in Seq(S \cup T) /\ Output(line + 1) \in Seq(S \cup T)
      BY <1>3, <3>1, Wider
    <3>5. \A n \in 1 .. Len(cells) + Len(Output(line + 1)) :
            cells'[n] = IF n <= Len(cells) THEN cells[n] ELSE Output(line + 1)[n - Len(cells)]
      BY ONLY <3>3, <3>4, ConcatProperties
    <3>6. Len(Output(line + 1)) \in Nat
      BY <3>1
    <3>7. \A n \in 1 .. Len(cells) : cells'[n] = cells[n]
      BY <1>4, <3>5, <3>6
    <3>8. ASSUME NEW k \in 1 .. Size(src[line + 1])
          PROVE  cells'[Offset(line + 1) + k] = Output(line + 1)[k]
      <4>1. /\ Len(cells) + k \in 1 .. Len(cells) + Len(Output(line + 1))
            /\ ~(Len(cells) + k <= Len(cells)) /\ (Len(cells) + k) - Len(cells) = k
        BY ONLY <1>4, <3>2, <3>6, <3>8
      <4> QED
        BY <1>4, <3>5, <4>1
    <3> QED
      BY <3>7, <3>8
  <2>2. CASE src[line + 1].kind # "instr"
    BY <2>2
  <2> QED
    BY <2>1, <2>2
<1>7. ASSUME NEW i \in 1 .. line + 1, src[i].kind = "instr"
      PROVE  Ready(i) /\ \A k \in 1 .. Size(src[i]) : cells'[Offset(i) + k] = Output(i)[k]
  <2>1. i = line + 1 \/ i \in 1 .. line
    BY <1>1
  <2>2. CASE i = line + 1
    BY <1>6, <1>7, <2>2
  <2>3. CASE i \in 1 .. line
    BY <1>5, <1>6, <1>7, <2>3 DEF Laid
  <2> QED
    BY <2>1, <2>2, <2>3
<1>8. \A i \in 1 .. Seen : src[i].kind # "instr" => IsLine(src[i])
  BY DEF Laid
<1> QED
  BY <1>1, <1>2, <1>7, <1>8 DEF Laid

LEMMA NextLaid == Inv /\ Laid /\ [Next]_vars => Laid'
<1> SUFFICES ASSUME Inv, Laid, [Next]_vars PROVE Laid'
  OBVIOUS
<1> USE DEF AtLine, NextLine, Cur, Refuse
<1>0. src \in Seq(Lines) /\ (line < Len(src) => src[line + 1] \in Lines)
  BY DEF Inv, Typed
<1>1. CASE Blank \/ DeclareAtom \/ BindLabel \/ Measure
  <2>1. /\ pass = 1 /\ line < Len(src) /\ line' = line + 1 /\ UNCHANGED <<src, pass>>
    BY <1>1 DEF Blank, DeclareAtom, BindLabel, Measure, Directive, Label
  <2>2. src[line + 1].kind # "instr" => IsLine(src[line + 1])
    BY <1>0, <1>1, <2>1, NotInstr DEF Blank, DeclareAtom, BindLabel, Measure, Directive, Label
  <2> QED
    BY <2>1, <2>2, LaidReads
<1>2. CASE EndPass1
  <2>1. /\ UNCHANGED <<src, atoms, labels>> /\ pass = 1 /\ pass' = 2 /\ line' = 0 /\ line = Len(src)
        /\ Seen = Len(src) /\ Seen' = Len(src)
    BY <1>2 DEF EndPass1, Seen
  <2>2. \A i : IsLine(src[i])' = IsLine(src[i])
    BY <2>1, Unmoved
  <2> QED
    BY <2>1, <2>2 DEF Laid
<1>3. CASE PassOver
  <2>1. /\ pass = 2 /\ line < Len(src) /\ line' = line + 1 /\ UNCHANGED <<src, pass, atoms, labels, cells>>
        /\ src[line + 1].kind # "instr"
    BY <1>3 DEF PassOver
  <2> QED
    BY <2>1, LaidEmits
<1>4. CASE Emit
  <2>1. /\ pass = 2 /\ line < Len(src) /\ line' = line + 1 /\ UNCHANGED <<src, pass, atoms, labels>>
        /\ src[line + 1].kind = "instr" /\ Ready(line + 1) /\ cells' = cells \o Output(line + 1)
    BY <1>4 DEF Emit, Ready, Output, Args
  <2>2. src[line + 1].mnem \in Mnemonics
    BY <1>0, <2>1 DEF Inv, Typed, Seen
  <2> QED
    BY <2>1, <2>2, LaidEmits
<1>5. CASE BadDirective \/ NameTooLong \/ TableFull \/ UnknownOpcode \/ BadLine \/ CellOverflow \/ Finish
  BY <1>5, LaidStays DEF BadDirective, NameTooLong, TableFull, UnknownOpcode, BadLine, CellOverflow, Finish
<1>6. CASE Ended \/ UNCHANGED vars
  BY <1>6, LaidStays DEF Ended, vars
<1> QED
  BY <1>1, <1>2, <1>3, <1>4, <1>5, <1>6 DEF Next, Pass1, Pass2

LEMMA NextTold == Inv /\ Told /\ [Next]_vars => Told'
<1> SUFFICES ASSUME Inv, Told, [Next]_vars PROVE Told'
  OBVIOUS
<1>0. src \in Seq(Lines) /\ (line < Len(src) => src[line + 1] \in Lines)
  BY DEF Inv, Typed
<1>1. CASE Blank \/ DeclareAtom \/ BindLabel \/ Measure \/ EndPass1 \/ PassOver \/ Emit
  BY <1>1 DEF Blank, DeclareAtom, BindLabel, Measure, EndPass1, PassOver, Emit, Directive, Label,
     AtLine, NextLine, Told
<1>2. CASE BadDirective
  <2>1. pass = 1 /\ line < Len(src) /\ Refuse("BadDirective") /\ ~IsLine(src[line + 1])
    BY <1>0, <1>2, NotInstr DEF BadDirective, AtLine, Cur
  <2> QED
    BY <2>1, Refused DEF Cause
<1>3. CASE NameTooLong
  <2>1. pass = 1 /\ line < Len(src) /\ Refuse("NameTooLong") /\ ~IsLine(src[line + 1])
    BY <1>0, <1>3, NotInstr DEF NameTooLong, Directive, Label, AtLine, Cur
  <2> QED
    BY <2>1, Refused DEF Cause
<1>4. CASE TableFull
  <2>1. PICK e : pass = 1 /\ line < Len(src) /\ Refuse(e) /\ Full(e)
    BY <1>4 DEF TableFull, Directive, Label, AtLine, Cur, Full
  <2> QED
    BY <2>1, Refused DEF Cause
<1>5. CASE UnknownOpcode
  <2>1. pass = 1 /\ line < Len(src) /\ Refuse("UnknownOpcode") /\ ~IsLine(src[line + 1])
    BY <1>0, <1>5 DEF UnknownOpcode, AtLine, Cur, IsLine
  <2> QED
    BY <2>1, Refused DEF Cause
<1>6. CASE BadLine
  <2>1. /\ pass = 2 /\ line < Len(src) /\ src[line + 1].kind = "instr" /\ ~Ready(line + 1)
        /\ Refuse(Complaint(line + 1))
    BY <1>6 DEF BadLine, AtLine, Cur, Args, Ready, Complaint
  <2> QED
    BY <2>1, Refused DEF Cause, Rejects
<1>7. CASE CellOverflow
  <2>1. /\ pass = 2 /\ line < Len(src) /\ src[line + 1].kind = "instr" /\ Ready(line + 1)
        /\ Refuse("CellOverflow") /\ Len(cells \o Output(line + 1)) > MaxCells
    BY <1>7 DEF CellOverflow, AtLine, Cur, Args, Ready, Output
  <2>2. src[line + 1].mnem \in Mnemonics
    BY <1>0, <2>1 DEF Inv, Typed, Seen
  <2>3. PICK T : Output(line + 1) \in Seq(T)
    BY <2>1, <2>2, EmittedLength DEF Ready, Output
  <2>4. Len(Output(line + 1)) = Size(src[line + 1])
    BY <2>1, <2>2, EmittedLength DEF Ready, Output, Size
  <2>5. PICK S : cells \in Seq(S)
    BY DEF Inv, Typed
  <2>6. Len(cells \o Output(line + 1)) = Len(cells) + Size(src[line + 1])
    BY ONLY <2>3, <2>4, <2>5, LenConcat
  <2> QED
    BY <2>1, <2>6, Refused DEF Cause, Rejects
<1>8. CASE Finish
  BY <1>8 DEF Finish, Told
<1>9. CASE Ended \/ UNCHANGED vars
  BY <1>9, ToldStays DEF Ended
<1> QED
  BY <1>1, <1>2, <1>3, <1>4, <1>5, <1>6, <1>7, <1>8, <1>9 DEF Next, Pass1, Pass2

-----------------------------------------------------------------------------
(* The text as Asm takes it.                                               *)
AllLines == \A i \in DOMAIN src : IsLine(src[i])

LEMMA InstrLine ==
  ASSUME NEW l \in Lines, l.kind = "instr", IsLine(l)
  PROVE  /\ l.mnem \in Mnemonics /\ Formed(l.mnem, SplitArgs(l.ops)) /\ AsmLine(l)[1] = l.mnem
         /\ IF IsTwoCell(l.mnem)
              THEN \E i, c : /\ Adds(l.mnem, SplitArgs(l.ops), i, c) /\ AsmLine(l)[4] = c
                             /\ SubSeq(AsmLine(l), 1, 3) = Fields(l.mnem, SplitArgs(l.ops))
              ELSE AsmLine(l) = Fields(l.mnem, SplitArgs(l.ops))
<1> DEFINE m == l.mnem
           args == SplitArgs(l.ops)
<1>1. m \in Mnemonics /\ Len(args) = Len(Operands(m))
      /\ \A i \in DOMAIN args : OperandError(Operands(m)[i], args[i]) # "BadOperand"
  BY DEF IsLine
<1>2. Formed(m, args)
  <2>1. PICK S : args \in Seq(S)
    BY IntArgs
  <2>2. Operands(m) \in Seq(Kinds \cup Adding)
    BY <1>1, OperandsType
  <2> HIDE DEF args, m
  <2>3. DOMAIN args = DOMAIN Operands(m)
    BY <1>1, <2>1, <2>2
  <2> QED
    BY <1>1, <2>3 DEF Formed
<1>3. AsmLine(l) = Fields(m, args) \o Symbols(m, args)
  BY DEF AsmLine
<1>4. PICK x, y : Fields(m, args) = <<m, x, y>>
  BY DEF Fields
<1> HIDE DEF m, args
<1>5. CASE IsTwoCell(m)
  <2>1. PICK i, c : Adds(m, args, i, c)
    BY <1>1, <1>2, <1>5, OneSymbol
  <2>2. AsmLine(l) = <<m, x, y>> \o <<c>>
    BY <1>3, <1>4, <2>1 DEF Adds
  <2>3. AsmLine(l) = <<m, x, y, c>> /\ SubSeq(<<m, x, y, c>>, 1, 3) = <<m, x, y>>
    BY ONLY <2>2, Fours
  <2>4. AsmLine(l)[1] = m /\ AsmLine(l)[4] = c /\ SubSeq(AsmLine(l), 1, 3) = Fields(m, args)
    BY <1>4, <2>3
  <2> QED
    BY <1>1, <1>2, <1>5, <2>1, <2>4 DEF m, args
<1>6. CASE ~IsTwoCell(m)
  <2>1. Symbols(m, args) = <<>>
    BY <1>1, <1>2, <1>6, OneSymbol
  <2>2. <<m, x, y>> \in Seq({m, x, y})
    OBVIOUS
  <2>3. AsmLine(l) = <<m, x, y>>
    BY <1>3, <1>4, <2>1, <2>2, ConcatEmptySeq
  <2> QED
    BY <1>1, <1>2, <1>4, <1>6, <2>3 DEF m, args
<1> QED
  BY <1>5, <1>6

LEMMA LineKinds ==
  ASSUME NEW l \in Lines, IsLine(l)
  PROVE  /\ IsDir(AsmLine(l)) <=> l.kind = "dir"
         /\ IsDef(AsmLine(l)) <=> l.kind = "label"
         /\ IsInstr(AsmLine(l)) <=> l.kind = "instr"
         /\ IsTwoCellLine(AsmLine(l)) <=> l.kind = "instr" /\ IsTwoCell(l.mnem)
         /\ Width(AsmLine(l)) = Size(l)
         /\ l.kind \in {"dir", "label"} => AsmLine(l)[2] = NameOf(l)
<1>1. l.kind \in {"blank", "dir", "label", "instr"}
  BY AsmAssumption
<1> USE DEF IsDir, IsDef, IsInstr
<1>2. CASE l.kind = "blank"
  BY <1>2 DEF AsmLine, IsTwoCellLine, Width, Size
<1>3. CASE l.kind = "dir"
  BY <1>3 DEF AsmLine, IsTwoCellLine, Width, Size, NameOf
<1>4. CASE l.kind = "label"
  BY <1>4 DEF AsmLine, IsTwoCellLine, Width, Size, NameOf
<1>5. CASE l.kind = "instr"
  <2>1. l.mnem \in Mnemonics /\ AsmLine(l)[1] = l.mnem
    BY <1>5, InstrLine
  <2>2. l.mnem \notin {"ATOMDIR", "DEF", "BLANK"}
    BY <2>1 DEF Mnemonics, Plain, Jumps, Moves
  <2> QED
    BY <1>5, <2>1, <2>2 DEF IsTwoCellLine, Width, Size, WidthOf
<1> QED
  BY <1>1, <1>2, <1>3, <1>4, <1>5

LEMMA SourceCounts ==
  ASSUME src \in Seq(Lines), NEW n \in 0 .. Len(src), \A i \in 1 .. n : IsLine(src[i])
  PROVE  /\ Before(AsmSource, n + 1, IsDir) = Count("dir", n)
         /\ Before(AsmSource, n + 1, IsDef) = Count("label", n)
         /\ CellsBefore(AsmSource, n + 1) = Offset(n + 1)
<1>1. Len(src) \in Nat /\ n \in Nat /\ DOMAIN src = 1 .. Len(src) /\ (n + 1) - 1 = n
  OBVIOUS
<1>2. \A i \in 1 .. n : i \in DOMAIN src /\ AsmSource[i] = AsmLine(src[i]) /\ src[i] \in Lines
  BY <1>1 DEF AsmSource
<1>3. \A i \in 1 .. n :
        /\ IsDir(AsmSource[i]) <=> i \in OfKind("dir")
        /\ IsDef(AsmSource[i]) <=> i \in OfKind("label")
        /\ IsInstr(AsmSource[i]) <=> i \in OfKind("instr")
        /\ IsTwoCellLine(AsmSource[i]) <=> i \in TwoCells
  BY <1>2, LineKinds DEF OfKind, TwoCells
<1>4. /\ {i \in 1 .. n : IsDir(AsmSource[i])} = (1 .. n) \cap OfKind("dir")
      /\ {i \in 1 .. n : IsDef(AsmSource[i])} = (1 .. n) \cap OfKind("label")
      /\ {i \in 1 .. n : IsInstr(AsmSource[i])} = (1 .. n) \cap OfKind("instr")
      /\ {i \in 1 .. n : IsTwoCellLine(AsmSource[i])} = (1 .. n) \cap TwoCells
  BY <1>3
<1>5. /\ Before(AsmSource, n + 1, IsDir) = Count("dir", n)
      /\ Before(AsmSource, n + 1, IsDef) = Count("label", n)
  BY <1>1, <1>4 DEF Before, Count, Upto
<1>6. CellsBefore(AsmSource, n + 1) = Offset(n + 1)
  BY <1>1, <1>4 DEF CellsBefore, Before, Offset, Count, Upto
<1> QED
  BY <1>5, <1>6

(* The first of several entries with a name is that of the first line.     *)
FirstOf(kind, name, i) ==
  /\ i \in DOMAIN src /\ src[i].kind = kind /\ NameOf(src[i]) = name
  /\ \A j \in DOMAIN src : src[j].kind = kind /\ NameOf(src[j]) = name => i <= j

LEMMA FirstEntry ==
  ASSUME src \in Seq(Lines), NEW kind, NEW tab, Lists(tab, kind, Len(src)), NEW name
  PROVE  /\ Holds(tab, name) <=> \E i : FirstOf(kind, name, i)
         /\ \A i : FirstOf(kind, name, i) => Entry(tab, name) = tab[Count(kind, i)][2]
<1> DEFINE N == Len(src)
           Lns == {i \in DOMAIN src : src[i].kind = kind /\ NameOf(src[i]) = name}
           Ks  == {k \in DOMAIN tab : tab[k][1] = name}
<1>1. N \in Nat /\ DOMAIN src = 1 .. N /\ N \in 0 .. N
  OBVIOUS
<1>2. /\ (\E T : tab \in Seq(T)) /\ Len(tab) = Count(kind, N)
      /\ \A i \in 1 .. N : src[i].kind = kind => tab[Count(kind, i)][1] = NameOf(src[i])
      /\ \A k \in DOMAIN tab : \E i \in 1 .. N : src[i].kind = kind /\ Count(kind, i) = k
  BY DEF Lists
<1>3. DOMAIN tab = 1 .. Count(kind, N) /\ Ks \subseteq Nat /\ Lns \subseteq Nat
  BY <1>1, <1>2
<1>4. /\ \A i \in 1 .. N : src[i].kind = kind => Count(kind, i) \in 1 .. Count(kind, N)
      /\ \A i, j \in 1 .. N : src[j].kind = kind /\ i < j => Count(kind, i) < Count(kind, j)
  BY <1>1, KindCount
<1>5. \A i \in Lns : Count(kind, i) \in Ks
  BY <1>1, <1>2, <1>3, <1>4
<1>6. \A k \in Ks : \E i \in Lns : Count(kind, i) = k
  BY <1>1, <1>2
<1>7. Holds(tab, name) <=> Lns # {}
  BY <1>5, <1>6 DEF Holds
<1>8. \A i : FirstOf(kind, name, i) <=> i \in Lns /\ \A j \in Lns : i <= j
  BY DEF FirstOf
<1>9. Lns # {} => \E i : FirstOf(kind, name, i)
  <2> HIDE DEF Lns
  <2> QED
    BY <1>3, <1>8, MinOf
<1>10. ASSUME NEW i, FirstOf(kind, name, i) PROVE Entry(tab, name) = tab[Count(kind, i)][2]
  <2>1. i \in Lns /\ \A j \in Lns : i <= j
    BY <1>8, <1>10
  <2>2. Count(kind, i) \in Ks
    BY <1>5, <2>1
  <2>3. ASSUME NEW k \in Ks PROVE Count(kind, i) <= k
    <3>1. PICK j \in Lns : Count(kind, j) = k
      BY <1>6
    <3>2. i \in 1 .. N /\ j \in 1 .. N /\ src[i].kind = kind /\ src[j].kind = kind /\ i <= j
      BY <1>1, <2>1
    <3>3. Count(kind, i) \in Nat /\ Count(kind, j) \in Nat
      <4>1. Count(kind, i) \in 1 .. Count(kind, N) /\ Count(kind, j) \in 1 .. Count(kind, N)
        BY <1>4, <3>2
      <4> QED
        BY <4>1
    <3>4. i = j \/ i < j
      BY <3>2
    <3> QED
      BY <1>4, <3>1, <3>2, <3>3, <3>4
  <2> HIDE DEF Ks
  <2>4. Min(Ks) \in Ks /\ \A k \in Ks : Min(Ks) <= k
    BY <1>3, <2>2, MinOf
  <2>5. Min(Ks) = Count(kind, i)
    <3>1. Min(Ks) \in Nat /\ Count(kind, i) \in Nat
      BY <1>3, <2>2, <2>4
    <3>2. Min(Ks) <= Count(kind, i) /\ Count(kind, i) <= Min(Ks)
      BY <2>2, <2>3, <2>4
    <3> QED
      BY ONLY <3>1, <3>2
  <2> QED
    BY <2>5 DEF Entry, Ks
<1> QED
  BY <1>7, <1>8, <1>9, <1>10

(* The tables of pass 2 are those that Asm makes of the whole text.        *)
LEMMA TablesAgree ==
  ASSUME Inv, Tabled, pass = 2, AllLines
  PROVE  /\ \A f : Holds(atoms, f) <=> f \in AtomTab(AsmSource)
         /\ \A l : Holds(labels, l) <=> l \in DOMAIN Labels(AsmSource)
         /\ \A l \in DOMAIN Labels(AsmSource) :
              Entry(labels, l) \in Nat /\ Labels(AsmSource)[l] = 1 + Entry(labels, l)
<1>1. /\ src \in Seq(Lines) /\ Seen = Len(src) /\ Len(src) \in Nat /\ DOMAIN src = 1 .. Len(src)
      /\ DOMAIN AsmSource = DOMAIN src
  BY DEF Inv, Typed, Seen, AsmSource
<1>2. \A i \in DOMAIN src :
        /\ IsDir(AsmSource[i]) <=> src[i].kind = "dir"
        /\ IsDef(AsmSource[i]) <=> src[i].kind = "label"
        /\ src[i].kind \in {"dir", "label"} => AsmSource[i][2] = NameOf(src[i])
  <2> SUFFICES ASSUME NEW i \in DOMAIN src
               PROVE  /\ IsDir(AsmSource[i]) <=> src[i].kind = "dir"
                      /\ IsDef(AsmSource[i]) <=> src[i].kind = "label"
                      /\ src[i].kind \in {"dir", "label"} => AsmSource[i][2] = NameOf(src[i])
    OBVIOUS
  <2>1. AsmSource[i] = AsmLine(src[i]) /\ src[i] \in Lines /\ IsLine(src[i])
    BY <1>1 DEF AsmSource, AllLines
  <2> QED
    BY <2>1, LineKinds
<1>3. Lists(atoms, "dir", Len(src)) /\ Lists(labels, "label", Len(src))
  BY <1>1 DEF Tabled
<1>4. ASSUME NEW f PROVE Holds(atoms, f) <=> f \in AtomTab(AsmSource)
  <2>1. Holds(atoms, f) <=> \E i : FirstOf("dir", f, i)
    BY <1>1, <1>3, FirstEntry
  <2>2. f \in AtomTab(AsmSource) <=> \E i \in DOMAIN src : src[i].kind = "dir" /\ NameOf(src[i]) = f
    BY <1>1, <1>2 DEF AtomTab
  <2>3. (\E i \in DOMAIN src : src[i].kind = "dir" /\ NameOf(src[i]) = f) <=> \E i : FirstOf("dir", f, i)
    <3> DEFINE Lns == {i \in DOMAIN src : src[i].kind = "dir" /\ NameOf(src[i]) = f}
    <3>1. \A i : FirstOf("dir", f, i) <=> i \in Lns /\ \A j \in Lns : i <= j
      BY DEF FirstOf
    <3>2. Lns \subseteq Nat /\ ((\E i \in DOMAIN src : src[i].kind = "dir" /\ NameOf(src[i]) = f) <=> Lns # {})
      BY <1>1
    <3> HIDE DEF Lns
    <3> QED
      BY <3>1, <3>2, MinOf
  <2> QED
    BY <2>1, <2>2, <2>3
<1> DEFINE Defs == {i \in DOMAIN src : src[i].kind = "label"}
           First(l) == CHOOSE i \in Defs : NameOf(src[i]) = l /\ \A j \in Defs : NameOf(src[j]) = l => i <= j
<1>5. Labels(AsmSource) = [l \in {NameOf(src[i]) : i \in Defs} |-> 1 + CellsBefore(AsmSource, First(l))]
  <2> DEFINE D == {i \in DOMAIN AsmSource : IsDef(AsmSource[i])}
             F(l) == CHOOSE i \in D : AsmSource[i][2] = l /\ \A j \in D : AsmSource[j][2] = l => i <= j
  <2>1. D = Defs
    BY <1>1, <1>2
  <2>2. \A i \in Defs : AsmSource[i][2] = NameOf(src[i])
    BY <1>2
  <2>3. \A l : F(l) = First(l)
    <3> SUFFICES ASSUME NEW l PROVE F(l) = First(l)
      OBVIOUS
    <3>1. \A i : (i \in D /\ AsmSource[i][2] = l /\ \A j \in D : AsmSource[j][2] = l => i <= j)
             <=> (i \in Defs /\ NameOf(src[i]) = l /\ \A j \in Defs : NameOf(src[j]) = l => i <= j)
      BY <2>1, <2>2
    <3> QED
      BY <3>1
  <2>4. {AsmSource[i][2] : i \in D} = {NameOf(src[i]) : i \in Defs}
    BY <2>1, <2>2
  <2>5. Labels(AsmSource) = [l \in {AsmSource[i][2] : i \in D} |-> 1 + CellsBefore(AsmSource, F(l))]
    BY DEF Labels
  <2> HIDE DEF F, First, D, Defs
  <2> QED
    BY <2>3, <2>4, <2>5
<1>6. \A l, i : FirstOf("label", l, i) <=>
        i \in Defs /\ NameOf(src[i]) = l /\ \A j \in Defs : NameOf(src[j]) = l => i <= j
  BY DEF FirstOf
<1>7. ASSUME NEW l PROVE Holds(labels, l) <=> l \in DOMAIN Labels(AsmSource)
  <2>1. Holds(labels, l) <=> \E i : FirstOf("label", l, i)
    BY <1>1, <1>3, FirstEntry
  <2>2. l \in DOMAIN Labels(AsmSource) <=> \E i \in Defs : NameOf(src[i]) = l
    BY <1>5
  <2>3. (\E i \in Defs : NameOf(src[i]) = l) <=> \E i : FirstOf("label", l, i)
    <3> DEFINE Lns == {i \in Defs : NameOf(src[i]) = l}
    <3>1. \A i : FirstOf("label", l, i) <=> i \in Lns /\ \A j \in Lns : i <= j
      BY DEF FirstOf
    <3>2. Lns \subseteq Nat /\ ((\E i \in Defs : NameOf(src[i]) = l) <=> Lns # {})
      BY <1>1
    <3> HIDE DEF Lns
    <3> QED
      BY <3>1, <3>2, MinOf
  <2> QED
    BY <2>1, <2>2, <2>3
<1>8. ASSUME NEW l \in DOMAIN Labels(AsmSource)
      PROVE  Entry(labels, l) \in Nat /\ Labels(AsmSource)[l] = 1 + Entry(labels, l)
  <2>1. \E i : FirstOf("label", l, i)
    BY <1>1, <1>3, <1>7, FirstEntry
  <2>2. FirstOf("label", l, First(l))
    BY <1>6, <2>1
  <2> DEFINE i == First(l)
  <2>3. Labels(AsmSource)[l] = 1 + CellsBefore(AsmSource, i)
    BY <1>5
  <2> HIDE DEF i
  <2>4. i \in 1 .. Len(src) /\ IsLabel(i) /\ FirstOf("label", l, i)
    BY <1>1, <2>2 DEF i, FirstOf, IsLabel
  <2>5. CellsBefore(AsmSource, i) = Offset(i) /\ Offset(i) \in Nat
    <3>1. i - 1 \in 0 .. Len(src) /\ (i - 1) + 1 = i /\ \A j \in 1 .. i - 1 : IsLine(src[j])
      BY <1>1, <2>4 DEF AllLines
    <3>2. CellsBefore(AsmSource, (i - 1) + 1) = Offset((i - 1) + 1)
      BY <1>1, <3>1, SourceCounts
    <3>3. i \in 1 .. Len(src) + 1
      BY <1>1, <2>4
    <3> QED
      BY <1>1, <3>1, <3>2, <3>3, OffsetSteps
  <2>6. Entry(labels, l) = labels[Count("label", i)][2]
    BY <1>1, <1>3, <2>4, FirstEntry
  <2>7. labels[LabelsBefore(i)][2] = Offset(i)
    BY <1>1, <2>4, LaidOut
  <2>8. LabelsBefore(i) = Count("label", i)
    <3>1. i \in 0 .. Len(src)
      BY <1>1, <2>4
    <3> QED
      BY <1>1, <3>1, LabelCount
  <2> QED
    BY <2>3, <2>5, <2>6, <2>7, <2>8
<1> QED
  BY <1>4, <1>7, <1>8

-----------------------------------------------------------------------------
(* The errors.                                                             *)
LEMMA NoError ==
  ASSUME NEW errors, \A i \in DOMAIN errors : errors[i] = "none"
  PROVE  FirstError(errors) = "none"
BY DEF FirstError

LEMMA ErrorAt ==
  ASSUME NEW errors, DOMAIN errors \subseteq Nat, NEW i \in DOMAIN errors, errors[i] # "none",
         \A j \in DOMAIN errors : j < i => errors[j] = "none"
  PROVE  FirstError(errors) = errors[i]
<1> DEFINE bad == {j \in DOMAIN errors : errors[j] # "none"}
           c   == CHOOSE j \in bad : \A k \in bad : j <= k
<1>1. i \in bad /\ \A k \in bad : i <= k
  <2>1. ASSUME NEW k \in bad PROVE i <= k
    <3>1. i \in Nat /\ k \in Nat /\ ~(k < i)
      OBVIOUS
    <3> QED
      BY ONLY <3>1
  <2> QED
    BY <2>1
<1>2. c \in bad /\ \A k \in bad : c <= k
  <2> HIDE DEF bad
  <2> QED
    BY <1>1
<1>3. c = i
  <2>1. c \in Nat /\ i \in Nat /\ c <= i /\ i <= c
    BY <1>1, <1>2
  <2> QED
    BY ONLY <2>1
<1>4. FirstError(errors) = IF bad = {} THEN "none" ELSE errors[c]
  BY DEF FirstError
<1> HIDE DEF bad, c
<1> QED
  BY <1>1, <1>3, <1>4

LEMMA Pass1Fine ==
  ASSUME Inv, Tabled, TypeOK, AllLines, NEW i \in 1 .. Seen
  PROVE  Pass1ErrorAt(AsmSource, i) = "none"
<1>1. /\ src \in Seq(Lines) /\ Seen \in 0 .. Len(src) /\ Len(src) \in Nat /\ DOMAIN src = 1 .. Len(src)
      /\ Len(atoms) <= AsmMaxAtoms /\ Len(labels) <= AsmMaxLabels
      /\ Len(atoms) = Count("dir", Seen) /\ Len(labels) = Count("label", Seen)
  BY DEF Inv, Typed, Seen, TypeOK, Tabled, Lists
<1>2. /\ i \in 1 .. Len(src) /\ i - 1 \in 0 .. Len(src) /\ i - 1 < Len(src) /\ (i - 1) + 1 = i
      /\ \A j \in 1 .. i - 1 : IsLine(src[j])
  BY <1>1 DEF AllLines
<1>3. AsmSource[i] = AsmLine(src[i]) /\ src[i] \in Lines /\ IsLine(src[i])
  BY <1>1, <1>2 DEF AsmSource, AllLines
<1>4. (IsDir(AsmSource[i]) <=> src[i].kind = "dir") /\ (IsDef(AsmSource[i]) <=> src[i].kind = "label")
  BY <1>3, LineKinds
<1>5. /\ Before(AsmSource, (i - 1) + 1, IsDir) = Count("dir", i - 1)
      /\ Before(AsmSource, (i - 1) + 1, IsDef) = Count("label", i - 1)
  BY <1>1, <1>2, SourceCounts
<1>6. Before(AsmSource, i, IsDir) = Count("dir", i - 1) /\ Before(AsmSource, i, IsDef) = Count("label", i - 1)
  BY <1>2, <1>5
<1>7. ASSUME NEW kind, src[i].kind = kind
      PROVE  Count(kind, i - 1) \in Nat /\ Count(kind, Seen) \in Nat /\ Count(kind, i - 1) < Count(kind, Seen)
  <2>1. Count(kind, (i - 1) + 1) = Count(kind, i - 1) + 1 /\ Count(kind, i - 1) \in Nat
    BY <1>1, <1>2, <1>7, KindCount
  <2>2. Count(kind, i) \in 1 .. Count(kind, Seen) /\ Count(kind, Seen) \in Nat
    BY <1>1, <1>7, KindCount
  <2>3. Count(kind, i) = Count(kind, i - 1) + 1
    BY <1>2, <2>1
  <2> QED
    BY ONLY <2>1, <2>2, <2>3
<1>8. src[i].kind = "dir" => ~(Before(AsmSource, i, IsDir) >= AsmMaxAtoms)
  BY <1>1, <1>6, <1>7, AsmAssumption
<1>9. src[i].kind = "label" => ~(Before(AsmSource, i, IsDef) >= AsmMaxLabels)
  BY <1>1, <1>6, <1>7, AsmAssumption
<1> QED
  BY <1>4, <1>8, <1>9 DEF Pass1ErrorAt

LEMMA Pass1Full ==
  ASSUME Inv, Tabled, AllLines, pass = 1, line < Len(src), NEW e, Full(e)
  PROVE  Pass1ErrorAt(AsmSource, line + 1) = e /\ e # "none"
<1>1. /\ src \in Seq(Lines) /\ line \in 0 .. Len(src) /\ DOMAIN src = 1 .. Len(src)
      /\ line + 1 \in 1 .. Len(src)
      /\ Len(atoms) = Count("dir", line) /\ Len(labels) = Count("label", line)
  BY DEF Inv, Typed, Seen, Tabled, Lists
<1>2. /\ AsmSource[line + 1] = AsmLine(src[line + 1]) /\ src[line + 1] \in Lines /\ IsLine(src[line + 1])
      /\ \A j \in 1 .. line : IsLine(src[j])
  BY <1>1 DEF AsmSource, AllLines
<1>3. /\ IsDir(AsmSource[line + 1]) <=> src[line + 1].kind = "dir"
      /\ IsDef(AsmSource[line + 1]) <=> src[line + 1].kind = "label"
  BY <1>2, LineKinds
<1>4. /\ Before(AsmSource, line + 1, IsDir) = Count("dir", line)
      /\ Before(AsmSource, line + 1, IsDef) = Count("label", line)
  BY <1>1, <1>2, SourceCounts
<1>5. AsmMaxAtoms >= AsmMaxAtoms /\ AsmMaxLabels >= AsmMaxLabels
  BY AsmAssumption
<1> QED
  BY <1>1, <1>3, <1>4, <1>5 DEF Full, Pass1ErrorAt

(* An operand that is well formed is wrong when its name is not known.     *)
LEMMA KindFine ==
  ASSUME NEW t, NEW sort \in Kinds, OperandError(sort, t) # "BadOperand"
  PROVE  OperandError(sort, t) = "none"
<1>1. CASE sort = "reg"
  BY <1>1 DEF OperandError, Unless
<1>2. CASE sort = "yreg"
  BY <1>2 DEF OperandError, Unless
<1>3. CASE sort = "slots"
  BY <1>3 DEF OperandError, Unless
<1> QED
  BY <1>1, <1>2, <1>3 DEF Kinds

LEMMA ErrorIsUnknown ==
  ASSUME Inv, Tabled, pass = 2, AllLines, NEW t, NEW sort \in Adding,
         OperandError(sort, t) # "BadOperand", NEW c, Symbol(sort, t) = <<c>>
  PROVE  OperandError(sort, t) = Unknown(c, AtomTab(AsmSource), Labels(AsmSource))
<1>0. /\ \A f : Holds(atoms, f) <=> f \in AtomTab(AsmSource)
      /\ \A l : Holds(labels, l) <=> l \in DOMAIN Labels(AsmSource)
  BY TablesAgree
<1>1. \A f : UnlessIn(atoms, f, "UndeclaredAtom") = Unknown(<<"ATOM", f>>, AtomTab(AsmSource), Labels(AsmSource))
  BY <1>0 DEF UnlessIn, Unknown
<1>2. \A l : UnlessIn(labels, l, "UndefinedLabel") = Unknown(<<"LABEL", l>>, AtomTab(AsmSource), Labels(AsmSource))
  BY <1>0 DEF UnlessIn, Unknown
<1>3. \A n : Unknown(<<"INT", n>>, AtomTab(AsmSource), Labels(AsmSource)) = "none"
  BY DEF Unknown
<1>4. CASE sort = "label"
  <2>1. Symbol("label", t) = <<<<"LABEL", t>>>>
    BY SymbolOf
  <2>2. c = <<"LABEL", t>>
    BY ONLY <1>4, <2>1, Symbol(sort, t) = <<c>>
  <2>3. OperandError(sort, t) = UnlessIn(labels, t, "UndefinedLabel")
    BY <1>4 DEF OperandError
  <2> QED
    BY <1>2, <2>2, <2>3
<1>5. CASE sort = "functor"
  <2>1. Symbol("functor", t) = <<<<"ATOM", t[2]>>>>
    BY SymbolOf
  <2>2. c = <<"ATOM", t[2]>>
    BY ONLY <1>5, <2>1, Symbol(sort, t) = <<c>>
  <2>3. OperandError(sort, t) = UnlessIn(atoms, t[2], "UndeclaredAtom")
    BY <1>5 DEF OperandError
  <2> QED
    BY <1>1, <2>2, <2>3
<1>6. CASE sort = "const"
  <2>1. t[1] = "atom" \/ t[1] = "int"
    BY <1>6, SymbolOf
  <2>2. CASE t[1] = "atom"
    <3>1. Symbol("const", t) = <<<<"ATOM", t[2]>>>>
      BY ONLY <2>2, SymbolOf
    <3>2. c = <<"ATOM", t[2]>>
      BY ONLY <1>6, <3>1, Symbol(sort, t) = <<c>>
    <3>3. OperandError(sort, t) = UnlessIn(atoms, t[2], "UndeclaredAtom")
      BY <1>6, <2>2 DEF OperandError
    <3> QED
      BY <1>1, <3>2, <3>3
  <2>3. CASE t[1] = "int"
    <3>1. Symbol("const", t) = <<<<"INT", t[2]>>>>
      BY ONLY <2>3, SymbolOf
    <3>2. c = <<"INT", t[2]>>
      BY ONLY <1>6, <3>1, Symbol(sort, t) = <<c>>
    <3>3. OperandError(sort, t) = "none"
      BY <1>6, <2>3 DEF OperandError, Unless
    <3> QED
      BY <1>3, <3>2, <3>3
  <2> QED
    BY <2>1, <2>2, <2>3
<1> QED
  BY <1>4, <1>5, <1>6 DEF Adding

LEMMA ReadyIs ==
  ASSUME Inv, Tabled, pass = 2, AllLines, NEW i \in DOMAIN src, src[i].kind = "instr"
  PROVE  LET unknown == Unknown(AsmSource[i][4], AtomTab(AsmSource), Labels(AsmSource))
         IN  IF IsTwoCell(src[i].mnem)
               THEN IF unknown = "none" THEN Ready(i) ELSE ~Ready(i) /\ Complaint(i) = unknown
               ELSE Ready(i)
<1> DEFINE m       == src[i].mnem
           args    == SplitArgs(src[i].ops)
           line4   == AsmSource[i][4]
           unknown == Unknown(line4, AtomTab(AsmSource), Labels(AsmSource))
<1>1. src[i] \in Lines /\ IsLine(src[i]) /\ AsmSource[i] = AsmLine(src[i])
  BY DEF Inv, Typed, AllLines, AsmSource
<1>2. /\ m \in Mnemonics /\ Formed(m, args)
      /\ IsTwoCell(m) => \E j, c : Adds(m, args, j, c) /\ line4 = c
  BY <1>1, InstrLine
<1>3. (Ready(i) <=> Right(m, args)) /\ Complaint(i) = EmitError(m, args)
  BY DEF Ready, Complaint
<1>4. Operands(m) \in Seq(Kinds \cup Adding)
  BY <1>2, OperandsType
<1> HIDE DEF m, args, line4
<1>5. /\ Len(args) = Len(Operands(m))
      /\ \A j \in DOMAIN Operands(m) : OperandError(Operands(m)[j], args[j]) # "BadOperand"
  BY <1>2 DEF Formed
<1>6. \A j \in DOMAIN Operands(m) : Operands(m)[j] \in Kinds => j \notin WrongAt(m, args)
  BY <1>5, KindFine DEF WrongAt
<1>7. CASE ~IsTwoCell(m)
  <2>1. \A j \in DOMAIN Operands(m) : Operands(m)[j] \in Kinds
    BY <1>2, <1>7, OneSymbol
  <2>2. WrongAt(m, args) = {}
    BY <1>6, <2>1 DEF WrongAt
  <2>3. Ready(i)
    BY <1>3, <1>5, <2>2 DEF Right
  <2> QED
    BY <1>7, <2>3 DEF m
<1>8. CASE IsTwoCell(m)
  <2>1. PICK j, c : Adds(m, args, j, c) /\ line4 = c
    BY <1>2, <1>8
  <2>2. /\ j \in DOMAIN Operands(m) /\ Operands(m)[j] \in Adding
        /\ \A k \in DOMAIN Operands(m) : k # j => Operands(m)[k] \in Kinds
        /\ Symbol(Operands(m)[j], args[j]) = <<c>>
    BY <2>1 DEF Adds
  <2>3. OperandError(Operands(m)[j], args[j]) = unknown
    <3> DEFINE sort == Operands(m)[j]
               t    == args[j]
    <3>1. sort \in Adding /\ OperandError(sort, t) # "BadOperand" /\ Symbol(sort, t) = <<c>>
      BY <1>5, <2>2
    <3> HIDE DEF sort, t
    <3>2. OperandError(sort, t) = Unknown(c, AtomTab(AsmSource), Labels(AsmSource))
      BY <3>1, ErrorIsUnknown
    <3> QED
      BY <2>1, <3>2 DEF sort, t
  <2>4. WrongAt(m, args) = IF unknown = "none" THEN {} ELSE {j}
    BY <1>6, <2>2, <2>3 DEF WrongAt
  <2> HIDE DEF unknown
  <2>5. CASE unknown = "none"
    <3>1. Ready(i)
      BY <1>3, <1>5, <2>4, <2>5 DEF Right
    <3> QED
      BY <1>8, <2>5, <3>1 DEF m, unknown, line4
  <2>6. CASE unknown # "none"
    <3>1. ~Ready(i)
      BY <1>3, <2>4, <2>6 DEF Right
    <3>2. Min(WrongAt(m, args)) = j
      <4>1. {j} \subseteq Nat
        BY <1>4, <2>2
      <4>2. Min({j}) \in {j}
        BY <4>1, MinOf
      <4> QED
        BY <2>4, <2>6, <4>2
    <3>3. Complaint(i) = unknown
      BY <1>3, <1>5, <2>3, <3>2 DEF EmitError
    <3> QED
      BY <1>8, <2>6, <3>1, <3>3 DEF m, unknown, line4
  <2> QED
    BY <2>5, <2>6
<1> QED
  BY <1>7, <1>8

LEMMA Pass2At ==
  ASSUME Inv, Tabled, pass = 2, AllLines, NEW i \in DOMAIN src
  PROVE  LET e == Pass2ErrorAt(AsmSource, i, AtomTab(AsmSource), Labels(AsmSource))
         IN  IF src[i].kind = "instr" /\ ~Ready(i) THEN e = Complaint(i) /\ e # "none"
             ELSE e = IF Offset(i) + Size(src[i]) > MaxCells THEN "CellOverflow" ELSE "none"
<1> DEFINE unknown == Unknown(AsmSource[i][4], AtomTab(AsmSource), Labels(AsmSource))
           e == Pass2ErrorAt(AsmSource, i, AtomTab(AsmSource), Labels(AsmSource))
<1>1. /\ src[i] \in Lines /\ IsLine(src[i]) /\ AsmSource[i] = AsmLine(src[i])
      /\ src \in Seq(Lines) /\ i \in 1 .. Len(src) /\ Len(src) \in Nat
  BY DEF Inv, Typed, AllLines, AsmSource
<1>2. /\ IsTwoCellLine(AsmSource[i]) <=> src[i].kind = "instr" /\ IsTwoCell(src[i].mnem)
      /\ Width(AsmSource[i]) = Size(src[i])
  BY <1>1, LineKinds
<1>3. CellsBefore(AsmSource, i) = Offset(i)
  <2>1. i - 1 \in 0 .. Len(src) /\ (i - 1) + 1 = i /\ \A j \in 1 .. i - 1 : IsLine(src[j])
    BY <1>1 DEF AllLines
  <2>2. CellsBefore(AsmSource, (i - 1) + 1) = Offset((i - 1) + 1)
    BY <1>1, <2>1, SourceCounts
  <2> QED
    BY <2>1, <2>2
<1>4. src[i].kind = "instr" =>
        IF IsTwoCell(src[i].mnem)
          THEN IF unknown = "none" THEN Ready(i) ELSE ~Ready(i) /\ Complaint(i) = unknown
          ELSE Ready(i)
  BY ReadyIs
<1>5. e = LET u == IF IsTwoCellLine(AsmSource[i]) THEN unknown ELSE "none"
          IN  IF u # "none" THEN u
              ELSE IF Offset(i) + Size(src[i]) > MaxCells THEN "CellOverflow" ELSE "none"
  BY <1>2, <1>3 DEF Pass2ErrorAt
<1> HIDE DEF unknown, e
<1>6. IF src[i].kind = "instr" /\ ~Ready(i) THEN e = Complaint(i) /\ e # "none"
      ELSE e = IF Offset(i) + Size(src[i]) > MaxCells THEN "CellOverflow" ELSE "none"
  BY <1>2, <1>4, <1>5
<1> QED
  BY <1>6 DEF e

(* As far as pass 2 has come, there is nothing wrong.                      *)
LEMMA Pass2Fine ==
  ASSUME Inv, Tabled, TypeOK, Laid, pass = 2, AllLines, NEW i \in 1 .. line
  PROVE  Pass2ErrorAt(AsmSource, i, AtomTab(AsmSource), Labels(AsmSource)) = "none"
<1>1. src \in Seq(Lines) /\ line \in 0 .. Len(src) /\ Len(src) \in Nat /\ i \in DOMAIN src
  BY DEF Inv, Typed
<1>2. src[i].kind = "instr" => Ready(i)
  BY DEF Laid
<1>3. /\ i \in 1 .. Len(src) /\ i \in 1 .. Len(src) + 1 /\ line + 1 \in 1 .. Len(src) + 1
      /\ i + 1 \in 1 .. line + 1
  BY <1>1
<1>4. Offset(i + 1) = Offset(i) + Size(src[i]) /\ Offset(i + 1) <= Offset(line + 1)
  BY <1>1, <1>3, OffsetSteps
<1>5. Offset(line + 1) = Len(cells) /\ Len(cells) <= MaxCells
  BY LaidOut DEF TypeOK
<1>6. Offset(i) \in Nat /\ Size(src[i]) \in Nat /\ Offset(line + 1) \in Nat /\ MaxCells \in Nat
  BY <1>1, <1>3, OffsetSteps, AsmAssumption DEF Size, WidthOf
<1>7. ~(Offset(i) + Size(src[i]) > MaxCells)
  BY ONLY <1>4, <1>5, <1>6
<1> QED
  BY <1>1, <1>2, <1>7, Pass2At

-----------------------------------------------------------------------------
(* The cells of a line, stored.                                            *)
LEMMA StoredFields ==
  ASSUME NEW m \in Mnemonics, NEW args
  PROVE  Stored(Fields(m, args)) = Fields(m, args)
<1>1. m # "ATOM" /\ m # "LABEL"
  BY DEF Mnemonics, Plain, Jumps, Moves
<1>2. Fields(m, args)[1] = m
  BY DEF Fields
<1> QED
  BY <1>1, <1>2 DEF Stored

LEMMA StoredSymbol ==
  ASSUME Inv, Tabled, pass = 2, AllLines, NEW t, NEW sort \in Adding,
         OperandError(sort, t) = "none", NEW c, Symbol(sort, t) = <<c>>
  PROVE  Stored(ParseArg(c, Labels(AsmSource))) = Resolved(c)
<1>1. c = <<"LABEL", t>> \/ c = <<"ATOM", t[2]>> \/ (c = <<"INT", t[2]>> /\ t[1] = "int")
  BY SymbolCases
<1>2. Unknown(c, AtomTab(AsmSource), Labels(AsmSource)) = "none"
  BY ErrorIsUnknown
<1>3. CASE c = <<"LABEL", t>>
  <2>1. t \in DOMAIN Labels(AsmSource)
    BY <1>2, <1>3 DEF Unknown
  <2>2. Entry(labels, t) \in Nat /\ Labels(AsmSource)[t] = 1 + Entry(labels, t)
    BY <2>1, TablesAgree
  <2>3. ParseArg(c, Labels(AsmSource)) = <<"LABEL", 1 + Entry(labels, t)>>
    BY <1>3, <2>2 DEF ParseArg
  <2>4. Resolved(c) = <<"LABEL", Entry(labels, t)>>
    BY <1>3 DEF Resolved
  <2>5. Stored(<<"LABEL", 1 + Entry(labels, t)>>) = <<"LABEL", (1 + Entry(labels, t)) - 1>>
    BY DEF Stored
  <2>6. (1 + Entry(labels, t)) - 1 = Entry(labels, t)
    BY <2>2
  <2> QED
    BY <2>3, <2>4, <2>5, <2>6
<1>4. CASE c = <<"ATOM", t[2]>>
  <2>1. ParseArg(c, Labels(AsmSource)) = c
    BY <1>4 DEF ParseArg
  <2>2. Resolved(c) = <<"ATOM", Entry(atoms, c[2])>>
    BY <1>4 DEF Resolved
  <2>3. Stored(c) = <<"ATOM", Entry(atoms, c[2])>>
    BY <1>4 DEF Stored
  <2> QED
    BY <2>1, <2>2, <2>3
<1>5. CASE c = <<"INT", t[2]>>
  <2>1. ParseArg(c, Labels(AsmSource)) = <<"INT", Wrap21(t[2])>>
    BY <1>5 DEF ParseArg
  <2>2. Resolved(c) = <<"INT", Wrap21(t[2])>>
    BY <1>5 DEF Resolved
  <2>3. Stored(<<"INT", Wrap21(t[2])>>) = <<"INT", Wrap21(t[2])>>
    BY DEF Stored
  <2> QED
    BY <2>1, <2>2, <2>3
<1> QED
  BY <1>1, <1>3, <1>4, <1>5

LEMMA StoredCells ==
  ASSUME Inv, Tabled, pass = 2, AllLines, NEW i \in DOMAIN src, src[i].kind = "instr", Ready(i),
         NEW k \in 1 .. Size(src[i])
  PROVE  Stored(CellsOf(AsmSource[i], Labels(AsmSource))[k]) = Output(i)[k]
<1> DEFINE m     == src[i].mnem
           args  == SplitArgs(src[i].ops)
           aline == AsmSource[i]
           lbls  == Labels(AsmSource)
<1>1. /\ src[i] \in Lines /\ IsLine(src[i]) /\ aline = AsmLine(src[i])
      /\ Output(i) = Emitted(m, args) /\ Right(m, args)
  BY DEF Inv, Typed, AllLines, AsmSource, Output, Ready
<1>2. Width(aline) = Size(src[i]) /\ Size(src[i]) = WidthOf(m)
  BY <1>1, LineKinds DEF Size
<1>3. /\ m \in Mnemonics /\ Formed(m, args)
      /\ IF IsTwoCell(m)
           THEN \E j, c : Adds(m, args, j, c) /\ aline[4] = c /\ SubSeq(aline, 1, 3) = Fields(m, args)
           ELSE aline = Fields(m, args)
  BY <1>1, InstrLine
<1> HIDE DEF m, args, aline
<1>4. CASE ~IsTwoCell(m)
  <2>1. Width(aline) = 1 /\ k = 1
    BY <1>2, <1>4 DEF WidthOf
  <2>2. CellsOf(aline, lbls) = <<aline>>
    BY <2>1 DEF CellsOf
  <2>3. Emitted(m, args) = <<Fields(m, args)>> /\ aline = Fields(m, args)
    BY <1>3, <1>4, EmittedCells
  <2>4. CellsOf(aline, lbls)[k] = Fields(m, args) /\ Output(i)[k] = Fields(m, args)
    BY <1>1, <2>1, <2>2, <2>3
  <2>5. Stored(Fields(m, args)) = Fields(m, args)
    BY <1>3, StoredFields
  <2> QED
    BY <2>4, <2>5 DEF aline
<1>5. CASE IsTwoCell(m)
  <2>1. PICK j, c : Adds(m, args, j, c) /\ aline[4] = c /\ SubSeq(aline, 1, 3) = Fields(m, args)
    BY <1>3, <1>5
  <2>2. PICK j2, c2 : Adds(m, args, j2, c2) /\ Emitted(m, args) = <<Fields(m, args), Resolved(c2)>>
    BY <1>3, <1>5, EmittedCells
  <2>3. c2 = c
    <3>1. <<c>> = <<c2>>
      BY <2>1, <2>2 DEF Adds
    <3> QED
      BY ONLY <3>1
  <2>4. Width(aline) = 2 /\ (k = 1 \/ k = 2)
    BY <1>2, <1>5 DEF WidthOf
  <2>5. CellsOf(aline, lbls) = <<Fields(m, args), ParseArg(c, lbls)>>
    BY <2>1, <2>4 DEF CellsOf
  <2>6. Output(i) = <<Fields(m, args), Resolved(c)>>
    BY <1>1, <2>2, <2>3
  <2>7. Stored(Fields(m, args)) = Fields(m, args)
    BY <1>3, StoredFields
  <2>8. Stored(ParseArg(c, lbls)) = Resolved(c)
    <3> DEFINE sort == Operands(m)[j]
               t    == args[j]
    <3>1. sort \in Adding /\ Symbol(sort, t) = <<c>> /\ j \in DOMAIN Operands(m)
      BY <2>1 DEF Adds
    <3>2. OperandError(sort, t) = "none"
      BY <1>1, <3>1 DEF Right, WrongAt
    <3> HIDE DEF sort, t
    <3> QED
      BY <3>1, <3>2, StoredSymbol
  <2> HIDE DEF lbls
  <2>9. CASE k = 1
    <3>1. CellsOf(aline, lbls)[k] = Fields(m, args) /\ Output(i)[k] = Fields(m, args)
      BY <2>5, <2>6, <2>9
    <3> QED
      BY <2>7, <3>1 DEF aline, lbls
  <2>10. CASE k = 2
    <3>1. CellsOf(aline, lbls)[k] = ParseArg(c, lbls) /\ Output(i)[k] = Resolved(c)
      BY <2>5, <2>6, <2>10
    <3> QED
      BY <2>8, <3>1 DEF aline, lbls
  <2> QED
    BY <2>4, <2>9, <2>10
<1> QED
  BY <1>4, <1>5

(* A cell is that of the one line that takes its address.                  *)
LEMMA CellAt ==
  ASSUME Inv, AllLines, NEW lbls, NEW i \in DOMAIN src, NEW k \in 1 .. Size(src[i])
  PROVE  /\ DOMAIN Cells(AsmSource, lbls) = 1 .. Offset(Len(src) + 1)
         /\ Offset(i) + k \in DOMAIN Cells(AsmSource, lbls) =>
              Cells(AsmSource, lbls)[Offset(i) + k] = CellsOf(AsmSource[i], lbls)[k]
<1> DEFINE placed == Placed(AsmSource, lbls)
           n      == Offset(i) + k
           p      == CHOOSE q \in placed : q[1] = n
           C(j)   == CellsOf(AsmSource[j], lbls)
<1>1. /\ src \in Seq(Lines) /\ Len(src) \in Nat /\ DOMAIN src = 1 .. Len(src)
      /\ AsmSource = [j \in 1 .. Len(src) |-> AsmLine(src[j])]
  BY DEF Inv, Typed, AsmSource
<1>2. Len(AsmSource) = Len(src) /\ DOMAIN AsmSource = DOMAIN src
  BY <1>1
<1>3. \A j \in DOMAIN src : CellsBefore(AsmSource, j) = Offset(j) /\ Width(AsmSource[j]) = Size(src[j])
  <2> SUFFICES ASSUME NEW j \in DOMAIN src
               PROVE  CellsBefore(AsmSource, j) = Offset(j) /\ Width(AsmSource[j]) = Size(src[j])
    OBVIOUS
  <2>1. j - 1 \in 0 .. Len(src) /\ (j - 1) + 1 = j /\ \A h \in 1 .. j - 1 : IsLine(src[h])
    BY <1>1 DEF AllLines
  <2>2. CellsBefore(AsmSource, (j - 1) + 1) = Offset((j - 1) + 1)
    BY <1>1, <2>1, SourceCounts
  <2>3. src[j] \in Lines /\ IsLine(src[j]) /\ AsmSource[j] = AsmLine(src[j])
    BY <1>1 DEF AllLines
  <2>4. Width(AsmLine(src[j])) = Size(src[j])
    BY <2>3, LineKinds
  <2> QED
    BY <2>1, <2>2, <2>3, <2>4
<1>4. CellsBefore(AsmSource, Len(src) + 1) = Offset(Len(src) + 1)
  BY SMTT(30), <1>1, SourceCounts DEF AllLines
<1>5. Cells(AsmSource, lbls) =
        [h \in 1 .. Offset(Len(src) + 1) |-> (CHOOSE q \in placed : q[1] = h)[2]]
  BY <1>2, <1>4 DEF Cells
<1>6. placed = UNION {{<<Offset(j) + h, C(j)[h]>> : h \in 1 .. Size(src[j])} : j \in DOMAIN src}
  <2>1. placed = UNION {{<<CellsBefore(AsmSource, j) + h, C(j)[h]>> : h \in 1 .. Width(AsmSource[j])} :
                        j \in DOMAIN AsmSource}
    BY DEF Placed
  <2> HIDE DEF placed, C
  <2> QED
    BY <1>2, <1>3, <2>1
<1> HIDE DEF placed, C
<1>7. <<n, C(i)[k]>> \in placed
  BY <1>6
<1>8. p \in placed /\ p[1] = n
  <2>1. <<n, C(i)[k]>>[1] = n
    OBVIOUS
  <2> HIDE DEF n
  <2> QED
    BY <1>7, <2>1
<1> HIDE DEF p
<1>9. PICK j \in DOMAIN src : \E h \in 1 .. Size(src[j]) : p = <<Offset(j) + h, C(j)[h]>>
  BY <1>6, <1>8
<1>10. PICK h \in 1 .. Size(src[j]) : p = <<Offset(j) + h, C(j)[h]>>
  BY <1>9
<1>11. p[1] = Offset(j) + h /\ p[2] = C(j)[h]
  BY <1>10
<1>12. Offset(i) + k = Offset(j) + h
  BY <1>8, <1>11
<1>13. i = j /\ k = h
  BY <1>1, <1>12, OneLine
<1>14. p[2] = C(i)[k]
  BY <1>11, <1>13
<1> QED
  BY <1>5, <1>14 DEF p, C

-----------------------------------------------------------------------------
(* The whole text.                                                         *)
LEMMA Pass2NoError1 ==
  ASSUME Inv, Tabled, TypeOK, AllLines, pass = 2
  PROVE  Pass1Error(AsmSource) = "none"
<1> DEFINE errors == [i \in DOMAIN AsmSource |-> Pass1ErrorAt(AsmSource, i)]
<1>1. DOMAIN AsmSource = 1 .. Seen
  BY DEF Inv, Typed, Seen, AsmSource
<1>2. \A i \in 1 .. Seen : Pass1ErrorAt(AsmSource, i) = "none"
  BY Pass1Fine
<1>3. \A i \in DOMAIN errors : errors[i] = "none"
  BY <1>1, <1>2
<1> QED
  BY <1>3, NoError DEF Pass1Error

LEMMA Finished ==
  ASSUME Inv, Tabled, TypeOK, Laid, AllLines, pass = 2, line = Len(src)
  PROVE  LET image == Assemble(AsmSource)
         IN  /\ image = [err |-> "none", cells |-> image.cells]
             /\ cells = [i \in DOMAIN image.cells |-> Stored(image.cells[i])]
<1> DEFINE lbls   == Labels(AsmSource)
           image  == Assemble(AsmSource)
           errors == [i \in DOMAIN AsmSource |-> Pass2ErrorAt(AsmSource, i, AtomTab(AsmSource), lbls)]
<1>1. src \in Seq(Lines) /\ Len(src) \in Nat /\ DOMAIN src = 1 .. line /\ DOMAIN AsmSource = 1 .. line
  BY DEF Inv, Typed, AsmSource
<1>2. Pass1Error(AsmSource) = "none"
  BY Pass2NoError1
<1>3. Pass2Error(AsmSource, AtomTab(AsmSource), lbls) = "none"
  <2>1. \A i \in 1 .. line : Pass2ErrorAt(AsmSource, i, AtomTab(AsmSource), lbls) = "none"
    BY Pass2Fine
  <2>2. \A i \in DOMAIN errors : errors[i] = "none"
    BY <1>1, <2>1
  <2> QED
    BY <2>2, NoError DEF Pass2Error
<1>4. image = [err |-> "none", cells |-> Cells(AsmSource, lbls)]
  BY <1>2, <1>3 DEF Assemble
<1> HIDE DEF image, lbls
<1>5. PICK S : cells \in Seq(S)
  BY DEF Inv, Typed
<1>6. /\ Len(cells) = Offset(Len(src) + 1) /\ DOMAIN cells = 1 .. Len(cells)
      /\ cells = [n \in DOMAIN cells |-> cells[n]]
  BY <1>1, <1>5, LaidOut
<1>7. DOMAIN Cells(AsmSource, lbls) = DOMAIN cells
  <2>1. DOMAIN Cells(AsmSource, lbls) = 1 .. CellsBefore(AsmSource, Len(AsmSource) + 1)
    BY DEF Cells
  <2>2. Len(AsmSource) = Len(src)
    BY <1>1 DEF AsmSource
  <2>3. CellsBefore(AsmSource, Len(src) + 1) = Offset(Len(src) + 1)
    BY <1>1, SourceCounts DEF AllLines
  <2> QED
    BY <1>6, <2>1, <2>2, <2>3
<1>8. ASSUME NEW n \in DOMAIN cells PROVE cells[n] = Stored(Cells(AsmSource, lbls)[n])
  <2>1. n \in 1 .. Offset(line + 1) /\ line \in 0 .. Len(src)
    BY <1>1, <1>6
  <2>2. PICK i \in 1 .. line : \E k \in 1 .. Size(src[i]) : n = Offset(i) + k
    BY <1>1, <2>1, LineOfCell
  <2>3. PICK k \in 1 .. Size(src[i]) : n = Offset(i) + k
    BY <2>2
  <2>4. i \in DOMAIN src
    BY <1>1
  <2>5. src[i].kind = "instr"
    BY <2>3 DEF Size
  <2>6. Ready(i) /\ cells[n] = Output(i)[k]
    BY <2>3, <2>5 DEF Laid
  <2>7. Cells(AsmSource, lbls)[n] = CellsOf(AsmSource[i], lbls)[k]
    BY <1>7, <2>3, <2>4, CellAt
  <2>8. Stored(CellsOf(AsmSource[i], lbls)[k]) = Output(i)[k]
    BY <2>4, <2>5, <2>6, StoredCells DEF lbls
  <2> QED
    BY <2>6, <2>7, <2>8
<1>9. /\ image = [err |-> "none", cells |-> image.cells]
      /\ cells = [n \in DOMAIN image.cells |-> Stored(image.cells[n])]
  BY <1>4, <1>6, <1>7, <1>8
<1> QED
  BY <1>9 DEF image

LEMMA Stopped ==
  ASSUME Inv, Tabled, TypeOK, Laid, AllLines, NEW e, Cause(e)
  PROVE  Assemble(AsmSource).err = e
<1> DEFINE lbls    == Labels(AsmSource)
           errors1 == [i \in DOMAIN AsmSource |-> Pass1ErrorAt(AsmSource, i)]
           errors2 == [i \in DOMAIN AsmSource |-> Pass2ErrorAt(AsmSource, i, AtomTab(AsmSource), lbls)]
<1>1. /\ src \in Seq(Lines) /\ line \in Nat /\ Len(src) \in Nat /\ line + 1 \in DOMAIN src
      /\ DOMAIN src = 1 .. Len(src) /\ DOMAIN AsmSource = 1 .. Len(src) /\ DOMAIN AsmSource \subseteq Nat
      /\ \A j \in DOMAIN src : j < line + 1 => j \in 1 .. line
      /\ IsLine(src[line + 1])
  BY DEF Inv, Typed, AsmSource, AllLines, Cause
<1>2. CASE pass = 1
  <2>1. Full(e) /\ line < Len(src)
    BY <1>1, <1>2 DEF Cause
  <2>2. Pass1ErrorAt(AsmSource, line + 1) = e /\ e # "none"
    BY <1>2, <2>1, Pass1Full
  <2>3. \A j \in 1 .. line : Pass1ErrorAt(AsmSource, j) = "none"
    BY <1>2, Pass1Fine DEF Seen
  <2>4. FirstError(errors1) = e
    <3>1. /\ DOMAIN errors1 = DOMAIN AsmSource /\ errors1[line + 1] = e
          /\ \A j \in DOMAIN errors1 : j < line + 1 => errors1[j] = "none"
      BY <1>1, <2>2, <2>3
    <3> HIDE DEF errors1
    <3> QED
      BY <1>1, <2>2, <3>1, ErrorAt
  <2>5. Pass1Error(AsmSource) = e
    BY <2>4 DEF Pass1Error
  <2> QED
    BY <2>2, <2>5 DEF Assemble
<1>3. CASE pass = 2
  <2>1. Pass1Error(AsmSource) = "none"
    BY <1>3, Pass2NoError1
  <2>2. \A j \in 1 .. line : Pass2ErrorAt(AsmSource, j, AtomTab(AsmSource), lbls) = "none"
    BY <1>3, Pass2Fine
  <2>3. src[line + 1].kind = "instr" /\ Rejects(e)
    BY <1>3 DEF Cause
  <2>4. Pass2ErrorAt(AsmSource, line + 1, AtomTab(AsmSource), lbls) = e /\ e # "none"
    <3> DEFINE p == Pass2ErrorAt(AsmSource, line + 1, AtomTab(AsmSource), lbls)
    <3>1. IF src[line + 1].kind = "instr" /\ ~Ready(line + 1) THEN p = Complaint(line + 1) /\ p # "none"
          ELSE p = IF Offset(line + 1) + Size(src[line + 1]) > MaxCells THEN "CellOverflow" ELSE "none"
      BY <1>1, <1>3, Pass2At
    <3> HIDE DEF p
    <3>2. Offset(line + 1) = Len(cells)
      BY <1>3, LaidOut
    <3>3. p = e /\ e # "none"
      BY <2>3, <3>1, <3>2 DEF Rejects
    <3> QED
      BY <3>3 DEF p
  <2>5. FirstError(errors2) = e
    <3>1. /\ DOMAIN errors2 = DOMAIN AsmSource /\ errors2[line + 1] = e
          /\ \A j \in DOMAIN errors2 : j < line + 1 => errors2[j] = "none"
      BY <1>1, <2>2, <2>4
    <3> HIDE DEF errors2
    <3> QED
      BY <1>1, <2>4, <3>1, ErrorAt
  <2>6. Pass2Error(AsmSource, AtomTab(AsmSource), lbls) = e
    BY <2>5 DEF Pass2Error
  <2> QED
    BY <2>1, <2>4, <2>6 DEF Assemble
<1> QED
  BY <1>2, <1>3 DEF Inv, Typed

LEMMA Accepted ==
  ASSUME Inv, Laid, pass = 2, line = Len(src)
  PROVE  AllLines
<1> SUFFICES ASSUME NEW i \in DOMAIN src PROVE IsLine(src[i])
  BY DEF AllLines
<1>1. src \in Seq(Lines) /\ Seen = Len(src) /\ i \in 1 .. line /\ i \in 1 .. Seen /\ src[i] \in Lines
  BY DEF Inv, Typed, Seen
<1>2. CASE src[i].kind # "instr"
  BY <1>1, <1>2 DEF Laid
<1>3. CASE src[i].kind = "instr"
  <2> DEFINE m == src[i].mnem
             args == SplitArgs(src[i].ops)
  <2>1. m \in Mnemonics /\ Right(m, args)
    BY <1>1, <1>3 DEF Inv, Typed, Laid, Ready
  <2>2. PICK S : args \in Seq(S)
    BY <1>1, <1>3, IntArgs
  <2>3. Operands(m) \in Seq(Kinds \cup Adding)
    BY <2>1, OperandsType
  <2> HIDE DEF m, args
  <2>4. Len(args) = Len(Operands(m)) /\ DOMAIN args = DOMAIN Operands(m)
    BY <2>1, <2>2, <2>3 DEF Right
  <2>5. \A j \in DOMAIN args : OperandError(Operands(m)[j], args[j]) # "BadOperand"
    BY <2>1, <2>4 DEF Right, WrongAt
  <2> QED
    BY <1>3, <2>1, <2>4, <2>5 DEF IsLine, m, args
<1> QED
  BY <1>2, <1>3

(* Why it stopped, or that it did not, is what Asm says of the whole.      *)
LEMMA ToldAnswers == Inv /\ Tabled /\ TypeOK /\ Laid /\ Told => ImplementsAsm
<1> SUFFICES ASSUME Inv, Tabled, TypeOK, Laid, Told, result # <<"running">>
             PROVE  IF AllLines
                      THEN LET image == Assemble(AsmSource)
                           IN  IF result = <<"ok">>
                                 THEN image = [err |-> "none", cells |-> image.cells]
                                      /\ cells = [i \in DOMAIN image.cells |-> Stored(image.cells[i])]
                                 ELSE image.err = result[1]
                      ELSE result # <<"ok">>
  BY DEF ImplementsAsm, AllLines
<1>1. CASE result = <<"ok">>
  <2>1. pass = 2 /\ line = Len(src)
    <3>1. \A e : <<"ok">> # <<e, line + 1>>
      OBVIOUS
    <3> QED
      BY <1>1, <3>1 DEF Told
  <2>2. AllLines
    BY <2>1, Accepted
  <2> QED
    BY <1>1, <2>1, <2>2, Finished
<1>2. CASE result # <<"ok">>
  <2>1. PICK e : result = <<e, line + 1>> /\ Cause(e)
    BY <1>2 DEF Told
  <2>2. result[1] = e
    BY <2>1
  <2>3. AllLines => Assemble(AsmSource).err = e
    BY <2>1, Stopped
  <2> QED
    BY <1>2, <2>2, <2>3
<1> QED
  BY <1>1, <1>2

LEMMA AlwaysExplained == Spec => [](Inv /\ Tabled /\ Laid /\ Told)
<1>1. Init => Laid /\ Told
  <2> SUFFICES ASSUME Init PROVE Laid /\ Told
    OBVIOUS
  <2>1. Seen = 0 /\ pass = 1 /\ result = <<"running">>
    BY DEF Init, Seen
  <2> QED
    BY <2>1 DEF Laid, Told
<1>2. Spec => [](Inv /\ Laid /\ Told)
  <2>1. Spec => []Inv
    BY Consistent
  <2>2. Inv /\ Laid /\ [Next]_vars => Laid'
    BY NextLaid
  <2>3. Inv /\ Told /\ [Next]_vars => Told'
    BY NextTold
  <2> QED
    BY <1>1, <2>1, <2>2, <2>3, PTL DEF Spec
<1>3. Spec => []Tabled
  <2>1. Inv /\ Tabled /\ [Next]_vars => Tabled'
    BY NextTabled
  <2> QED
    BY <2>1, Consistent, InitTabled, PTL DEF Spec
<1> QED
  BY <1>2, <1>3, PTL

(***************************************************************************)
(* For every text, whatever the tables and the buffer hold: read line by   *)
(* line, with one pass after the other, a text becomes the cells that Asm  *)
(* makes of it as a whole, or is refused for the error that Asm finds      *)
(* first; and a text is accepted only when all of its lines are lines.     *)
(***************************************************************************)
THEOREM AssemblesTheText == Spec => []ImplementsAsm
BY AlwaysExplained, TypeCorrect, ToldAnswers, PTL

-----------------------------------------------------------------------------
(* What is assembled decodes.                                              *)
LEMMA WhatItTakes ==
  ASSUME NEW m \in Mnemonics
  PROVE  /\ IsTwoCell(m) <=> Takes(m) # {}
         /\ m \notin {"LABEL", "ATOM", "INT"}
         /\ Takes(m) \subseteq {"LABEL", "ATOM", "INT"}
BY DEF Mnemonics, Plain, Jumps, Moves, IsTwoCell, Takes

(* The immediate is of the kind its instruction reads; a label was found.  *)
LEMMA OfItsKind ==
  ASSUME NEW m \in Mnemonics, IsTwoCell(m), NEW args, Right(m, args),
         NEW i, NEW c, Adds(m, args, i, c)
  PROVE  /\ Resolved(c)[1] \in Takes(m)
         /\ Resolved(c)[1] = "LABEL" =>
              \E l : Holds(labels, l) /\ Resolved(c) = <<"LABEL", Entry(labels, l)>>
<1> DEFINE t == args[i]
           sort == Operands(m)[i]
<1>1. i \in DOMAIN Operands(m) /\ sort \in Adding /\ Symbol(sort, t) = <<c>>
  BY DEF Adds
<1>2. OperandError(sort, t) = "none"
  BY <1>1 DEF Right, WrongAt
<1>3. /\ \A x, y : <<x>> = <<y>> => x = y
      /\ \A x : Resolved(<<"ATOM", x>>)[1] = "ATOM" /\ Resolved(<<"INT", x>>)[1] = "INT"
      /\ \A x : Resolved(<<"LABEL", x>>) = <<"LABEL", Entry(labels, x)>>
  BY DEF Resolved
<1>4. CASE m \in Jumps
  <2>1. Operands(m) = <<"label">>
    BY <1>4 DEF Operands, Plain, Jumps, Moves
  <2>2. sort = "label" /\ Takes(m) = {"LABEL"}
    BY <1>1, <1>4, <2>1 DEF Takes, Jumps
  <2>3. c = <<"LABEL", t>>
    <3>1. Symbol("label", t) = <<<<"LABEL", t>>>>
      BY SymbolOf
    <3> QED
      BY ONLY <1>1, <1>3, <2>2, <3>1
  <2>4. Holds(labels, t)
    BY <1>2, <2>2 DEF OperandError, UnlessIn
  <2> QED
    BY <1>3, <2>2, <2>3, <2>4
<1>5. CASE m = "GET_STRUCT"
  <2>1. Operands(m) = <<"reg", "functor">>
    BY <1>5 DEF Operands, Plain, Jumps, Moves
  <2>2. sort = "functor" /\ Takes(m) = {"ATOM"}
    BY <1>1, <1>5, <2>1 DEF Takes, Adding
  <2>3. c = <<"ATOM", t[2]>>
    <3>1. Symbol("functor", t) = <<<<"ATOM", t[2]>>>>
      BY SymbolOf
    <3> QED
      BY ONLY <1>1, <1>3, <2>2, <3>1
  <2> HIDE DEF t, sort
  <2>4. Resolved(c)[1] = "ATOM"
    BY <1>3, <2>3
  <2> QED
    BY <2>2, <2>4
<1>6. CASE m \in {"PUT_CONST", "GET_CONST", "UNIFY_CONST"}
  <2>1. Operands(m) = <<"reg", "const">> \/ Operands(m) = <<"const">>
    BY <1>6 DEF Operands, Plain, Jumps, Moves
  <2>2. sort = "const" /\ Takes(m) = {"INT", "ATOM"}
    BY <1>1, <1>6, <2>1 DEF Takes, Adding
  <2>3. c = <<"ATOM", t[2]>> \/ c = <<"INT", t[2]>>
    <3>1. t[1] \in {"atom", "int"}
      BY <1>2, <2>2, SymbolOf
    <3>2. /\ t[1] = "atom" => Symbol("const", t) = <<<<"ATOM", t[2]>>>>
          /\ t[1] = "int" => Symbol("const", t) = <<<<"INT", t[2]>>>>
      BY SymbolOf
    <3> HIDE DEF t, sort
    <3> QED
      BY ONLY <1>1, <1>3, <2>2, <3>1, <3>2
  <2> HIDE DEF t, sort
  <2>4. Resolved(c)[1] \in {"ATOM", "INT"}
    BY <1>3, <2>3
  <2> QED
    BY <2>2, <2>4
<1> QED
  BY <1>4, <1>5, <1>6 DEF IsTwoCell, Jumps

(* A label stands for where its line begins.                               *)
LEMMA LabelAt ==
  ASSUME Inv, Tabled, pass = 2, NEW l, Holds(labels, l)
  PROVE  \E i \in 1 .. Len(src) : Entry(labels, l) = Offset(i)
<1>1. src \in Seq(Lines) /\ Seen = Len(src) /\ Len(src) \in Nat /\ DOMAIN src = 1 .. Len(src)
  BY DEF Inv, Typed, Seen
<1>2. Lists(labels, "label", Len(src))
  BY <1>1 DEF Tabled
<1>3. PICK i : FirstOf("label", l, i)
  BY <1>1, <1>2, FirstEntry
<1>4. Entry(labels, l) = labels[Count("label", i)][2]
  BY <1>1, <1>2, <1>3, FirstEntry
<1>5. i \in 1 .. Len(src) /\ IsLabel(i) /\ i \in 0 .. Len(src)
  BY <1>1, <1>3 DEF FirstOf, IsLabel
<1>6. labels[LabelsBefore(i)][2] = Offset(i) /\ LabelsBefore(i) = Count("label", i)
  BY <1>1, <1>5, LaidOut, LabelCount
<1> QED
  BY <1>4, <1>5, <1>6

(* Where a line begins, an instruction does, or the code ends.             *)
LEMMA BeginsInstr ==
  ASSUME src \in Seq(Lines), NEW i \in 1 .. Len(src), Offset(i) # Offset(Len(src) + 1)
  PROVE  /\ Offset(i) + 1 \in 1 .. Offset(Len(src) + 1)
         /\ \E j \in 1 .. Len(src) : src[j].kind = "instr" /\ Offset(j) = Offset(i)
<1>1. /\ Len(src) \in Nat /\ Len(src) \in 0 .. Len(src) /\ Len(src) + 1 \in 1 .. Len(src) + 1
      /\ i \in 1 .. Len(src) + 1
  OBVIOUS
<1>2. /\ \A j \in 1 .. Len(src) + 1 : Offset(j) \in Nat
      /\ \A j \in 1 .. Len(src) : Offset(j + 1) = Offset(j) + Size(src[j])
      /\ \A j \in 1 .. Len(src) + 1 : \A k \in 1 .. j : Offset(k) <= Offset(j)
  BY OffsetSteps
<1>3. Offset(i) \in Nat /\ Offset(Len(src) + 1) \in Nat /\ Offset(i) <= Offset(Len(src) + 1)
  BY <1>1, <1>2
<1>4. Offset(i) + 1 \in 1 .. Offset(Len(src) + 1)
  BY <1>3
<1>5. PICK j \in 1 .. Len(src) : \E k \in 1 .. Size(src[j]) : Offset(i) + 1 = Offset(j) + k
  BY <1>1, <1>4, LineOfCell
<1>6. PICK k \in 1 .. Size(src[j]) : Offset(i) + 1 = Offset(j) + k
  BY <1>5
<1>7. src[j].kind = "instr" /\ Size(src[j]) \in {1, 2}
  BY <1>6 DEF Size, WidthOf
<1>8. Offset(j) \in Nat /\ Offset(j + 1) = Offset(j) + Size(src[j])
  BY <1>1, <1>2
<1>9. Offset(i) <= Offset(j) \/ Offset(j + 1) <= Offset(i)
  <2>1. CASE i <= j
    BY <1>1, <1>2, <2>1
  <2>2. CASE ~(i <= j)
    <3>1. j + 1 \in 1 .. i
      BY <2>2
    <3> QED
      BY <1>1, <1>2, <3>1
  <2> QED
    BY <2>1, <2>2
<1>10. Offset(j) = Offset(i)
  BY ONLY <1>3, <1>6, <1>7, <1>8, <1>9
<1> QED
  BY <1>4, <1>7, <1>10

(* The cells of an instruction, in the finished code.                      *)
LEMMA CellsOfLine ==
  ASSUME Inv, Tabled, Laid, pass = 2, line = Len(src),
         NEW i \in 1 .. Len(src), src[i].kind = "instr"
  PROVE  LET n == Offset(i) + 1
             m == src[i].mnem
         IN  /\ n \in DOMAIN cells /\ Instruction(n) /\ cells[n][1] = m
             /\ WithImm(n) <=> Size(src[i]) = 2
             /\ WithImm(n) => /\ n + 1 \in DOMAIN cells /\ cells[n + 1][1] \in Takes(m)
                              /\ cells[n + 1][1] = "LABEL" =>
                                   \E l : Holds(labels, l) /\ cells[n + 1] = <<"LABEL", Entry(labels, l)>>
<1> DEFINE n == Offset(i) + 1
           m == src[i].mnem
           args == SplitArgs(src[i].ops)
<1>1. /\ src \in Seq(Lines) /\ Len(src) \in Nat /\ Seen = Len(src) /\ m \in Mnemonics
      /\ \E S : cells \in Seq(S)
  BY DEF Inv, Typed, Seen
<1>2. Right(m, args) /\ \A k \in 1 .. Size(src[i]) : cells[Offset(i) + k] = Emitted(m, args)[k]
  BY DEF Laid, Ready, Output
<1>3. Len(cells) = Offset(Len(src) + 1)
  BY LaidOut
<1>4. Offset(i) \in Nat /\ Offset(i) + Size(src[i]) <= Len(cells) /\ Len(cells) \in Nat
  <2>1. i \in 1 .. Len(src) + 1 /\ i + 1 \in 1 .. Len(src) + 1 /\ Len(src) + 1 \in 1 .. Len(src) + 1
    BY <1>1
  <2> QED
    BY <1>1, <1>3, <2>1, OffsetSteps
<1>5. DOMAIN cells = 1 .. Len(cells)
  BY <1>1
<1>6. Size(src[i]) = (IF IsTwoCell(m) THEN 2 ELSE 1)
  BY DEF Size, WidthOf
<1>7. Fields(m, args)[1] = m /\ Formed(m, args)
  BY <1>1, <1>2, RightFormed, EmittedCells
<1> HIDE DEF args, m
<1>8. CASE IsTwoCell(m)
  <2>1. PICK j, c : Adds(m, args, j, c) /\ Emitted(m, args) = <<Fields(m, args), Resolved(c)>>
    BY <1>1, <1>7, <1>8, EmittedCells
  <2>2. cells[n] = Fields(m, args) /\ cells[n + 1] = Resolved(c)
    <3>1. cells[Offset(i) + 1] = Emitted(m, args)[1] /\ cells[Offset(i) + 2] = Emitted(m, args)[2]
      BY <1>2, <1>6, <1>8
    <3>2. n + 1 = Offset(i) + 2
      BY <1>4
    <3> QED
      BY <2>1, <3>1, <3>2
  <2>3. n \in 1 .. Len(cells) /\ n + 1 \in 1 .. Len(cells)
    BY <1>4, <1>6, <1>8
  <2>4. Takes(m) # {}
    BY <1>1, <1>8, WhatItTakes
  <2>5. /\ Resolved(c)[1] \in Takes(m)
        /\ Resolved(c)[1] = "LABEL" =>
             \E l : Holds(labels, l) /\ Resolved(c) = <<"LABEL", Entry(labels, l)>>
    BY <1>1, <1>2, <1>8, <2>1, OfItsKind
  <2> QED
    BY <1>1, <1>5, <1>6, <1>7, <1>8, <2>2, <2>3, <2>4, <2>5 DEF Instruction, WithImm, m
<1>9. CASE ~IsTwoCell(m)
  <2>1. cells[n] = Fields(m, args)
    <3>1. Emitted(m, args) = <<Fields(m, args)>>
      BY <1>1, <1>7, <1>9, EmittedCells
    <3> QED
      BY <1>2, <1>6, <1>9, <3>1
  <2>2. n \in 1 .. Len(cells)
    BY <1>4, <1>6, <1>9
  <2>3. Takes(m) = {}
    BY <1>1, <1>9, WhatItTakes
  <2> QED
    BY <1>1, <1>5, <1>6, <1>7, <1>9, <2>1, <2>2, <2>3 DEF Instruction, WithImm, m
<1> QED
  BY <1>8, <1>9

LEMMA Decodes ==
  ASSUME Inv, Tabled, Laid, pass = 2, line = Len(src), NEW n \in DOMAIN cells
  PROVE  /\ WithImm(n) => n < Len(cells) /\ cells[n + 1][1] \in Takes(cells[n][1])
         /\ ~Instruction(n) => WithImm(n - 1)
         /\ cells[n][1] = "LABEL" => Instruction(cells[n][2] + 1) \/ cells[n][2] = Len(cells)
<1>1. /\ src \in Seq(Lines) /\ Len(src) \in Nat /\ Len(src) \in 0 .. Len(src)
      /\ \E S : cells \in Seq(S)
  BY DEF Inv, Typed
<1>2. Len(cells) = Offset(Len(src) + 1) /\ DOMAIN cells = 1 .. Len(cells) /\ Len(cells) \in Nat
  BY <1>1, LaidOut
<1>3. PICK i \in 1 .. Len(src) : \E k \in 1 .. Size(src[i]) : n = Offset(i) + k
  BY <1>1, <1>2, LineOfCell
<1>4. PICK k \in 1 .. Size(src[i]) : n = Offset(i) + k
  BY <1>3
<1>5. src[i].kind = "instr" /\ Size(src[i]) \in {1, 2} /\ Offset(i) \in Nat
  <2>1. src[i].kind = "instr" /\ Size(src[i]) \in {1, 2}
    BY <1>4 DEF Size, WidthOf
  <2>2. i \in 1 .. Len(src) + 1
    BY <1>1
  <2> QED
    BY <1>1, <2>1, <2>2, OffsetSteps
<1> DEFINE s == Offset(i) + 1
           m == src[i].mnem
<1>6. /\ s \in DOMAIN cells /\ Instruction(s) /\ cells[s][1] = m
      /\ WithImm(s) <=> Size(src[i]) = 2
      /\ WithImm(s) => /\ s + 1 \in DOMAIN cells /\ cells[s + 1][1] \in Takes(m)
                       /\ cells[s + 1][1] = "LABEL" =>
                            \E l : Holds(labels, l) /\ cells[s + 1] = <<"LABEL", Entry(labels, l)>>
  BY <1>5, CellsOfLine
<1>7. m \in Mnemonics
  BY <1>6 DEF Instruction
<1> HIDE DEF s, m
<1>8. CASE k = 1
  <2>1. n = s
    BY <1>4, <1>8 DEF s
  <2>2. cells[n][1] # "LABEL"
    BY <1>6, <1>7, <2>1, WhatItTakes
  <2> QED
    BY <1>2, <1>6, <2>1, <2>2
<1>9. CASE k = 2
  <2>1. n = s + 1 /\ n - 1 = s /\ WithImm(s)
    BY <1>4, <1>5, <1>6, <1>9 DEF s
  <2>2. ~WithImm(n)
    <3>1. cells[n][1] \in {"LABEL", "ATOM", "INT"}
      BY <1>6, <1>7, <2>1, WhatItTakes
    <3>2. cells[n][1] \notin Mnemonics
      BY <3>1, WhatItTakes
    <3> QED
      BY <3>2 DEF WithImm, Instruction
  <2>3. ASSUME cells[n][1] = "LABEL"
        PROVE  Instruction(cells[n][2] + 1) \/ cells[n][2] = Len(cells)
    <3>1. PICK l : Holds(labels, l) /\ cells[n] = <<"LABEL", Entry(labels, l)>>
      BY <1>6, <2>1, <2>3
    <3>2. PICK j \in 1 .. Len(src) : cells[n][2] = Offset(j)
      BY <3>1, LabelAt
    <3>3. CASE Offset(j) = Offset(Len(src) + 1)
      BY <1>2, <3>2, <3>3
    <3>4. CASE Offset(j) # Offset(Len(src) + 1)
      <4>1. PICK h \in 1 .. Len(src) : src[h].kind = "instr" /\ Offset(h) = Offset(j)
        BY <1>1, <3>4, BeginsInstr
      <4>2. Instruction(Offset(h) + 1)
        BY <4>1, CellsOfLine
      <4> QED
        BY <3>2, <4>1, <4>2
    <3> QED
      BY <3>3, <3>4
  <2> QED
    BY <2>1, <2>2, <2>3
<1> QED
  BY <1>4, <1>5, <1>8, <1>9

(***************************************************************************)
(* For every text that is accepted: the code is a sequence of instructions *)
(* with the immediates they read, and every jump goes to an instruction or *)
(* to the end.                                                             *)
(***************************************************************************)
THEOREM AssembledCodeDecodes == Spec => []CodeDecodes
<1>1. ASSUME Inv, Tabled, Laid, Told, result = <<"ok">>
      PROVE  CodeDecodes
  <2>1. pass = 2 /\ line = Len(src)
    <3>1. \A e : <<"ok">> # <<e, line + 1>>
      OBVIOUS
    <3> QED
      BY <1>1, <3>1 DEF Told
  <2> QED
    BY <1>1, <2>1, Decodes DEF CodeDecodes
<1>2. Inv /\ Tabled /\ Laid /\ Told => CodeDecodes
  BY <1>1 DEF CodeDecodes
<1> QED
  BY <1>2, AlwaysExplained, PTL

-----------------------------------------------------------------------------
(* The fields of an instruction are numbers, and registers where its       *)
(* operands are registers.                                                 *)
LEMMA FieldOf ==
  ASSUME NEW t, t[1] = "reg" => t[3] \in 0 .. 7
  PROVE  /\ \A sort \in {"reg", "yreg"} :
              OperandError(sort, t) # "BadOperand" => \E r \in 0 .. 15 : Field(sort, t) = <<r>>
         /\ \A sort \in {"slots", "functor"} :
              OperandError(sort, t) # "BadOperand" => \E n \in Nat : Field(sort, t) = <<n>>
         /\ Field("label", t) = <<>> /\ Field("const", t) = <<>>
<1>1. ASSUME NEW sort \in {"reg", "yreg"}, OperandError(sort, t) # "BadOperand"
      PROVE  \E r \in 0 .. 15 : Field(sort, t) = <<r>>
  <2>1. t[1] = "reg"
    BY <1>1 DEF OperandError, Unless
  <2>2. ParseReg(t) \in 0 .. 15
    BY <2>1 DEF ParseReg
  <2>3. Field(sort, t) = <<ParseReg(t)>>
    BY <1>1 DEF Field
  <2> QED
    BY <2>2, <2>3
<1>2. OperandError("slots", t) # "BadOperand" => \E n \in Nat : Field("slots", t) = <<n>>
  <2>1. OperandError("slots", t) = Unless(t[1] = "num" /\ t[2] \in 0 .. 255)
    BY DEF OperandError
  <2>2. Field("slots", t) = <<t[2]>>
    BY DEF Field
  <2> QED
    BY <2>1, <2>2 DEF Unless
<1>3. OperandError("functor", t) # "BadOperand" => \E n \in Nat : Field("functor", t) = <<n>>
  <2>1. OperandError("functor", t) # "BadOperand" => t[3] \in 0 .. 255
    BY DEF OperandError
  <2>2. Field("functor", t) = <<t[3]>>
    BY DEF Field
  <2> QED
    BY <2>1, <2>2
<1>4. Field("label", t) = <<>> /\ Field("const", t) = <<>>
  BY DEF Field
<1> QED
  BY <1>1, <1>2, <1>3, <1>4

(* The fields that follow the mnemonic, when there are none, one and two.  *)
LEMMA Padded ==
  /\ (<<>> \o <<0, 0>>)[1] = 0 /\ (<<>> \o <<0, 0>>)[2] = 0
  /\ \A a : (<<a>> \o <<0, 0>>)[1] = a /\ (<<a>> \o <<0, 0>>)[2] = 0
  /\ \A a : <<a>> \o <<>> = <<a>>
  /\ \A a, b : ((<<a>> \o <<b>>) \o <<0, 0>>)[1] = a /\ ((<<a>> \o <<b>>) \o <<0, 0>>)[2] = b
<1>1. <<>> \o <<0, 0>> = <<0, 0>>
  <2>1. <<0, 0>> \in Seq({0})
    OBVIOUS
  <2> QED
    BY <2>1, ConcatEmptySeq
<1>2. \A a : <<a>> \o <<>> = <<a>>
  <2> SUFFICES ASSUME NEW a PROVE <<a>> \o <<>> = <<a>>
    OBVIOUS
  <2>1. <<a>> \in Seq({a})
    OBVIOUS
  <2> QED
    BY <2>1, ConcatEmptySeq
<1>3. ASSUME NEW a PROVE (<<a>> \o <<0, 0>>)[1] = a /\ (<<a>> \o <<0, 0>>)[2] = 0
  <2>1. <<a>> \in Seq({a, 0}) /\ <<0, 0>> \in Seq({a, 0}) /\ Len(<<a>>) = 1 /\ Len(<<0, 0>>) = 2
    OBVIOUS
  <2> QED
    BY <2>1, ConcatProperties
<1>4. ASSUME NEW a, NEW b
      PROVE  ((<<a>> \o <<b>>) \o <<0, 0>>)[1] = a /\ ((<<a>> \o <<b>>) \o <<0, 0>>)[2] = b
  <2>1. <<a>> \o <<b>> = <<a, b>>
    BY Pairs
  <2>2. <<a, b>> \in Seq({a, b, 0}) /\ <<0, 0>> \in Seq({a, b, 0}) /\ Len(<<a, b>>) = 2 /\ Len(<<0, 0>>) = 2
    OBVIOUS
  <2>3. (<<a, b>> \o <<0, 0>>)[1] = a /\ (<<a, b>> \o <<0, 0>>)[2] = b
    BY <2>2, ConcatProperties
  <2> QED
    BY <2>1, <2>3
<1> QED
  BY <1>1, <1>2, <1>3, <1>4

LEMMA FieldsType ==
  ASSUME NEW m \in Mnemonics, NEW args, Formed(m, args),
         \A i \in DOMAIN Operands(m) : args[i][1] = "reg" => args[i][3] \in 0 .. 7
  PROVE  LET w == Fields(m, args)
         IN  /\ w \in Machine!Mnemonic \X Nat \X Nat
             /\ m \in Machine!Opcodes
             /\ m \in Machine!Op1IsReg => w[2] \in Machine!Reg
             /\ m \in Machine!Op2IsReg => w[3] \in Machine!Reg
<1> DEFINE Fs     == Joined([i \in DOMAIN Operands(m) |-> Field(Operands(m)[i], args[i])])
           rest   == Fs \o <<0, 0>>
<1> USE DEF Mnemonics, Plain, Jumps, Moves
<1>1. \A i \in DOMAIN Operands(m) : OperandError(Operands(m)[i], args[i]) # "BadOperand"
  BY DEF Formed
<1> DEFINE Numbers == \E a, b \in Nat :
             /\ rest[1] = a /\ rest[2] = b
             /\ m \in Machine!Op1IsReg => a \in 0 .. 15
             /\ m \in Machine!Op2IsReg => b \in 0 .. 15
<1>2. \A a : Fs = <<a>> => rest[1] = a /\ rest[2] = 0
  <2> HIDE DEF Fs
  <2> QED
    BY Padded
<1>10. \A a, b : Fs = <<a>> \o <<b>> => rest[1] = a /\ rest[2] = b
  <2> SUFFICES ASSUME NEW a, NEW b, Fs = <<a>> \o <<b>>
               PROVE  rest[1] = a /\ rest[2] = b
    OBVIOUS
  <2> HIDE DEF Fs
  <2>1. rest = (<<a>> \o <<b>>) \o <<0, 0>>
    OBVIOUS
  <2> HIDE DEF rest
  <2> QED
    BY ONLY <2>1, Padded
<1>3. ASSUME m \in Plain PROVE Numbers
  <2>1. Operands(m) = <<>>
    BY <1>3 DEF Operands
  <2>2. Fs = Joined(<<>>)
    BY <2>1
  <2>3. Fs = <<>>
    BY ONLY <2>2, JoinedOf
  <2>4. rest[1] = 0 /\ rest[2] = 0
    BY ONLY <2>3, Padded
  <2> HIDE DEF rest
  <2> QED
    BY <1>3, <2>4 DEF Machine!Op1IsReg, Machine!Op2IsReg
<1>4. ASSUME m \in Jumps \cup {"UNIFY_CONST"} PROVE Numbers
  <2>1. \E sort \in {"label", "const"} : Operands(m) = <<sort>>
    BY <1>4 DEF Operands
  <2>2. PICK sort \in {"label", "const"} : Operands(m) = <<sort>>
    BY <2>1
  <2>3. Fs = Joined(<<Field(sort, args[1])>>) /\ (args[1][1] = "reg" => args[1][3] \in 0 .. 7)
    BY <2>2
  <2>4. Field(sort, args[1]) = <<>>
    BY ONLY <2>2, <2>3, FieldOf
  <2>5. Fs = <<>>
    BY ONLY <2>3, <2>4, JoinedOf
  <2>6. rest[1] = 0 /\ rest[2] = 0
    BY ONLY <2>5, Padded
  <2> HIDE DEF rest
  <2> QED
    BY <1>4, <2>6 DEF Machine!Op1IsReg, Machine!Op2IsReg
<1>5. ASSUME m \in Moves \cup {"PUT_Y_VAL", "GET_Y_VAR"} PROVE Numbers
  <2>1. PICK sort \in {"reg", "yreg"} : Operands(m) = <<sort, "reg">>
    BY <1>5 DEF Operands
  <2>2. /\ Fs = Joined(<<Field(sort, args[1]), Field("reg", args[2])>>)
        /\ OperandError(sort, args[1]) # "BadOperand" /\ OperandError("reg", args[2]) # "BadOperand"
        /\ args[1][1] = "reg" => args[1][3] \in 0 .. 7
        /\ args[2][1] = "reg" => args[2][3] \in 0 .. 7
    BY <1>1, <2>1
  <2>3. PICK a \in 0 .. 15, b \in 0 .. 15 : Field(sort, args[1]) = <<a>> /\ Field("reg", args[2]) = <<b>>
    BY <2>2, FieldOf
  <2>4. Fs = <<a>> \o <<b>>
    BY ONLY <2>2, <2>3, JoinedOf
  <2>5. rest[1] = a /\ rest[2] = b
    BY ONLY <1>10, <2>4
  <2> HIDE DEF rest
  <2> QED
    BY <2>3, <2>5
<1>6. ASSUME m \in {"PUT_CONST", "GET_CONST"} PROVE Numbers
  <2>1. Operands(m) = <<"reg", "const">>
    BY <1>6 DEF Operands
  <2>2. /\ Fs = Joined(<<Field("reg", args[1]), Field("const", args[2])>>)
        /\ OperandError("reg", args[1]) # "BadOperand"
        /\ args[1][1] = "reg" => args[1][3] \in 0 .. 7
        /\ args[2][1] = "reg" => args[2][3] \in 0 .. 7
    BY <1>1, <2>1
  <2>3. PICK a \in 0 .. 15 : Field("reg", args[1]) = <<a>> /\ Field("const", args[2]) = <<>>
    BY <2>2, FieldOf
  <2>4. Fs = <<a>>
    BY ONLY <2>2, <2>3, JoinedOf, Padded
  <2>5. rest[1] = a /\ rest[2] = 0
    BY ONLY <1>2, <2>4
  <2> HIDE DEF rest
  <2> QED
    BY <2>3, <2>5
<1>7. ASSUME m = "GET_STRUCT" PROVE Numbers
  <2>1. Operands(m) = <<"reg", "functor">>
    BY <1>7 DEF Operands
  <2>2. /\ Fs = Joined(<<Field("reg", args[1]), Field("functor", args[2])>>)
        /\ OperandError("reg", args[1]) # "BadOperand" /\ OperandError("functor", args[2]) # "BadOperand"
        /\ args[1][1] = "reg" => args[1][3] \in 0 .. 7
        /\ args[2][1] = "reg" => args[2][3] \in 0 .. 7
    BY <1>1, <2>1
  <2>3. PICK a \in 0 .. 15, n \in Nat : Field("reg", args[1]) = <<a>> /\ Field("functor", args[2]) = <<n>>
    BY <2>2, FieldOf
  <2>4. Fs = <<a>> \o <<n>>
    BY ONLY <2>2, <2>3, JoinedOf
  <2>5. rest[1] = a /\ rest[2] = n
    BY ONLY <1>10, <2>4
  <2> HIDE DEF rest
  <2> QED
    <3>1. m \notin Machine!Op2IsReg
      BY <1>7 DEF Machine!Op2IsReg
    <3>2. a \in Nat /\ n \in Nat /\ a \in 0 .. 15
      BY <2>3
    <3> QED
      BY ONLY <2>5, <3>1, <3>2
<1>8. ASSUME m = "ALLOCATE" PROVE Numbers
  <2>1. Operands(m) = <<"slots">>
    BY <1>8 DEF Operands
  <2>2. /\ Fs = Joined(<<Field("slots", args[1])>>)
        /\ OperandError("slots", args[1]) # "BadOperand"
        /\ args[1][1] = "reg" => args[1][3] \in 0 .. 7
    BY <1>1, <2>1
  <2>3. PICK n \in Nat : Field("slots", args[1]) = <<n>>
    BY <2>2, FieldOf
  <2>4. Fs = <<n>>
    BY ONLY <2>2, <2>3, JoinedOf
  <2>5. rest[1] = n /\ rest[2] = 0
    BY ONLY <1>2, <2>4
  <2> HIDE DEF rest
  <2> QED
    BY <1>8, <2>3, <2>5 DEF Machine!Op1IsReg, Machine!Op2IsReg
<1>9. ASSUME m \in {"B_WRITE", "UNIFY_VAR", "UNIFY_VAL"} PROVE Numbers
  <2>1. Operands(m) = <<"reg">>
    BY <1>9 DEF Operands
  <2>2. /\ Fs = Joined(<<Field("reg", args[1])>>)
        /\ OperandError("reg", args[1]) # "BadOperand"
        /\ args[1][1] = "reg" => args[1][3] \in 0 .. 7
    BY <1>1, <2>1
  <2>3. PICK a \in 0 .. 15 : Field("reg", args[1]) = <<a>>
    BY <2>2, FieldOf
  <2>4. Fs = <<a>>
    BY ONLY <2>2, <2>3, JoinedOf
  <2>5. rest[1] = a /\ rest[2] = 0
    BY ONLY <1>2, <2>4
  <2> HIDE DEF rest
  <2> QED
    BY <2>3, <2>5
<1>11. Numbers
  BY <1>3, <1>4, <1>5, <1>6, <1>7, <1>8, <1>9
<1>12. m \in Machine!Opcodes /\ m \in Machine!Mnemonic
  <2>1. m \in Machine!TwoCell \cup Machine!OneCell
    BY DEF Machine!OneCell, Machine!TwoCell
  <2> QED
    BY <2>1 DEF Machine!Opcodes, Machine!Mnemonic
<1>13. Fields(m, args) = <<m, rest[1], rest[2]>>
  BY DEF Fields
<1> HIDE DEF rest
<1> QED
  BY <1>11, <1>12, <1>13 DEF Machine!Reg

(* The ids in the table of atoms were declared by a directive.             *)
Declared == \A k \in DOMAIN atoms : atoms[k][2] \in Ids

LEMMA InitDeclared == Init => Declared
BY DEF Init, Declared

LEMMA NextDeclared == Inv /\ Tabled /\ Declared /\ [Next]_vars => Declared'
<1> SUFFICES ASSUME Inv, Tabled, Declared, [Next]_vars
             PROVE  Declared'
  OBVIOUS
<1>1. CASE DeclareAtom
  <2> DEFINE id == Cur.words[1][2]
  <2>1. /\ Cur.kind = "dir" /\ Len(Cur.words) = 2 /\ Cur.words[1][1] = "num"
        /\ atoms' = Append(atoms, <<Cur.words[2], id>>)
    BY <1>1 DEF DeclareAtom, Directive, AtLine, Cur
  <2>2. Cur \in Lines
    BY <1>1 DEF Inv, Typed, DeclareAtom, Directive, AtLine, Cur
  <2>3. id \in Ids
    BY <2>1, <2>2 DEF Ids
  <2>4. \E T : atoms \in Seq(T)
    BY DEF Tabled, Lists
  <2>5. \A k \in DOMAIN atoms' : (k \in DOMAIN atoms /\ atoms'[k] = atoms[k])
                               \/ atoms'[k] = <<Cur.words[2], id>>
    BY <2>1, <2>4
  <2> HIDE DEF id
  <2> QED
    BY <2>3, <2>5 DEF Declared
<1>2. CASE atoms' = atoms
  BY <1>2 DEF Declared
<1>3. DeclareAtom \/ atoms' = atoms
  BY DEF Next, vars, Pass1, Pass2, Blank, BadDirective, BindLabel, NameTooLong, TableFull, Measure,
         UnknownOpcode, EndPass1, PassOver, BadLine, Emit, CellOverflow, Finish, Ended, NextLine, Refuse
<1> QED
  BY <1>1, <1>2, <1>3

(* The entry of a name is one of the table.                                *)
LEMMA EntryOf ==
  ASSUME NEW T, NEW tab \in Seq(T), NEW name, Holds(tab, name)
  PROVE  \E k \in DOMAIN tab : Entry(tab, name) = tab[k][2]
<1> DEFINE Ks == {k \in DOMAIN tab : tab[k][1] = name}
<1>1. Ks \subseteq Nat /\ Ks # {}
  BY DEF Holds
<1>2. Min(Ks) \in Ks
  BY <1>1, MinOf
<1> QED
  BY <1>2 DEF Entry

LEMMA WrapsInto ==
  ASSUME NEW n \in Int
  PROVE  Wrap21(n) \in Machine!IntMin .. Machine!IntMax
<1>1. -1048576 <= Wrap21(n) /\ Wrap21(n) <= 1048575 /\ Wrap21(n) \in Int
  BY SMT DEF Wrap21
<1>2. Machine!IntMin <= Wrap21(n) /\ Wrap21(n) <= Machine!IntMax
  BY <1>1 DEF Machine!IntMin, Machine!IntMax
<1>3. Machine!IntMin \in Int /\ Machine!IntMax \in Int
  BY DEF Machine!IntMin, Machine!IntMax
<1> QED
  BY ONLY <1>1, <1>2, <1>3, SMT

(* A word of the machine, for a cell.                                      *)
WordOf(c) == IF c[1] = "LABEL" THEN Machine!Addr(c[2] + 1) ELSE c

(* The immediate of an instruction, as the machine wants it.               *)
LEMMA ImmediateType ==
  ASSUME Inv, Tabled, Declared, pass = 2,
         NEW m \in Mnemonics, IsTwoCell(m), NEW args, Right(m, args),
         \A i \in DOMAIN Operands(m) : args[i][1] = "int" => args[i][2] \in Int,
         NEW j, NEW c, Adds(m, args, j, c)
  PROVE  WordOf(Resolved(c)) \in Machine!ImmKind(m)
<1> DEFINE t    == args[j]
           sort == Operands(m)[j]
           w    == Resolved(c)
<1>1. j \in DOMAIN Operands(m) /\ sort \in Adding /\ Symbol(sort, t) = <<c>>
  BY DEF Adds
<1>2. OperandError(sort, t) = "none" /\ (t[1] = "int" => t[2] \in Int)
  BY <1>1 DEF Right, WrongAt
<1>3. w[1] \in Takes(m)
  BY OfItsKind
<1>4. (w[1] = "LABEL" => \E l : Holds(labels, l) /\ w = <<"LABEL", Entry(labels, l)>>)
  BY OfItsKind
<1> HIDE DEF t, sort
<1>5. c = <<"LABEL", t>> \/ c = <<"ATOM", t[2]>> \/ (c = <<"INT", t[2]>> /\ t[1] = "int")
  BY <1>1, <1>2, SymbolCases
<1>6. ASSUME c = <<"LABEL", t>> PROVE WordOf(w) \in Machine!Address /\ w[1] = "LABEL"
  <2>1. w[1] = "LABEL"
    BY <1>6 DEF Resolved
  <2>2. PICK l : Holds(labels, l) /\ w = <<"LABEL", Entry(labels, l)>>
    BY <1>4, <2>1
  <2>3. PICK i \in 1 .. Len(src) : Entry(labels, l) = Offset(i)
    BY <2>2, LabelAt
  <2>4. Offset(i) \in Nat
    <3>1. src \in Seq(Lines) /\ i \in 1 .. Len(src) + 1
      BY DEF Inv, Typed
    <3> QED
      BY <3>1, OffsetSteps
  <2>5. WordOf(w) = <<"LABEL", Offset(i) + 1>>
    BY <2>2, <2>3 DEF WordOf, Machine!Addr
  <2> QED
    BY <2>1, <2>4, <2>5 DEF Machine!Address
<1>7. ASSUME c = <<"ATOM", t[2]>> PROVE WordOf(w) \in {"ATOM"} \X Ids /\ w[1] = "ATOM"
  <2> DEFINE name == t[2]
  <2>1. w = <<"ATOM", Entry(atoms, name)>>
    BY <1>7 DEF Resolved
  <2>2. Holds(atoms, name)
    <3>1. sort \in {"const", "functor"}
      <4>1. sort # "label"
        <5>1. SUFFICES ASSUME sort = "label" PROVE FALSE
          OBVIOUS
        <5>2. Symbol("label", t) = <<<<"LABEL", t>>>>
          BY SymbolOf
        <5>3. <<c>> = <<<<"LABEL", t>>>>
          BY ONLY <1>1, <5>1, <5>2
        <5>4. c = <<"LABEL", t>>
          BY ONLY <5>3
        <5> QED
          BY ONLY <1>7, <5>4
      <4> QED
        BY <1>1, <4>1 DEF Adding
    <3>2. sort = "const" => t[1] = "atom"
      <4>1. SUFFICES ASSUME sort = "const", t[1] # "atom" PROVE FALSE
        OBVIOUS
      <4>2. t[1] = "int"
        BY <1>2, <4>1, SymbolOf
      <4>3. Symbol("const", t) = <<<<"INT", t[2]>>>>
        BY ONLY <4>2, SymbolOf
      <4>4. <<c>> = <<<<"INT", t[2]>>>>
        BY ONLY <1>1, <4>1, <4>3
      <4>5. c = <<"INT", t[2]>>
        BY ONLY <4>4
      <4> QED
        BY ONLY <1>7, <4>5
    <3> QED
      BY <1>2, <3>1, <3>2 DEF OperandError, UnlessIn
  <2>3. \E T : atoms \in Seq(T)
    BY DEF Tabled, Lists
  <2> HIDE DEF name
  <2>4. Entry(atoms, name) \in Ids
    BY <2>2, <2>3, EntryOf DEF Declared
  <2> QED
    BY <2>1, <2>4 DEF WordOf
<1>8. ASSUME c = <<"INT", t[2]>>, t[1] = "int"
      PROVE  WordOf(w) \in {"INT"} \X (Machine!IntMin .. Machine!IntMax) /\ w[1] = "INT"
  <2>1. w = <<"INT", Wrap21(t[2])>>
    BY <1>8 DEF Resolved
  <2>2. t[2] \in Int
    BY <1>2, <1>8
  <2>3. Wrap21(t[2]) \in Machine!IntMin .. Machine!IntMax
    BY <2>2, WrapsInto
  <2> QED
    BY <2>1, <2>3 DEF WordOf
<1> HIDE DEF w
<1>9. CASE m \in Jumps
  <2>1. w[1] = "LABEL"
    BY <1>3, <1>9 DEF Takes, Jumps
  <2>2. WordOf(w) \in Machine!Address
    BY <1>5, <1>6, <1>7, <1>8, <2>1
  <2> QED
    BY <1>9, <2>2 DEF w, Machine!ImmKind, Jumps
<1>10. CASE m = "GET_STRUCT"
  <2>1. w[1] = "ATOM"
    BY <1>3, <1>10 DEF Takes
  <2>2. WordOf(w) \in {"ATOM"} \X Ids
    BY <1>5, <1>6, <1>7, <1>8, <2>1
  <2> QED
    BY <1>10, <2>2 DEF w, Machine!ImmKind
<1>11. CASE m \in {"PUT_CONST", "GET_CONST", "UNIFY_CONST"}
  <2>1. w[1] \in {"INT", "ATOM"}
    BY <1>3, <1>11 DEF Takes
  <2>2. WordOf(w) \in Machine!Constant
    BY <1>5, <1>6, <1>7, <1>8, <2>1 DEF Machine!Constant
  <2> QED
    BY <1>11, <2>2 DEF w, Machine!ImmKind
<1> QED
  BY <1>9, <1>10, <1>11 DEF IsTwoCell, Jumps

(* The words of a line, in the finished code.                              *)
LEMMA WordsOfLine ==
  ASSUME Inv, Tabled, Laid, Declared, pass = 2, line = Len(src),
         NEW i \in 1 .. Len(src), src[i].kind = "instr"
  PROVE  LET n == Offset(i) + 1
             m == src[i].mnem
         IN  /\ cells[n] \in Machine!Mnemonic \X Nat \X Nat
             /\ cells[n][1] \in Machine!Opcodes
             /\ cells[n][1] \in Machine!Op1IsReg => cells[n][2] \in Machine!Reg
             /\ cells[n][1] \in Machine!Op2IsReg => cells[n][3] \in Machine!Reg
             /\ Size(src[i]) = 2 => WordOf(cells[n + 1]) \in Machine!ImmKind(cells[n][1])
<1> DEFINE n == Offset(i) + 1
           m == src[i].mnem
           args == SplitArgs(src[i].ops)
<1>1. m \in Mnemonics /\ src[i] \in Lines /\ i \in 1 .. Len(src) + 1 /\ src \in Seq(Lines)
  BY DEF Inv, Typed, Seen
<1>2. Right(m, args) /\ \A k \in 1 .. Size(src[i]) : cells[Offset(i) + k] = Emitted(m, args)[k]
  BY DEF Laid, Ready, Output
<1>3. Size(src[i]) = (IF IsTwoCell(m) THEN 2 ELSE 1) /\ Offset(i) \in Nat
  BY <1>1, OffsetSteps DEF Size, WidthOf
<1>4. \A k \in DOMAIN args : /\ args[k][1] = "int" => args[k][2] \in Int
                             /\ args[k][1] = "reg" => args[k][3] \in 0 .. 7
  BY <1>1, IntArgs
<1>5. DOMAIN Operands(m) \subseteq DOMAIN args
  <2>1. Len(args) = Len(Operands(m)) /\ Operands(m) \in Seq(Kinds \cup Adding)
    BY <1>1, <1>2, OperandsType DEF Right
  <2>2. \E S : args \in Seq(S)
    BY <1>1, IntArgs
  <2> HIDE DEF args
  <2> QED
    BY <2>1, <2>2
<1>6. Formed(m, args)
  BY <1>2, RightFormed
<1> HIDE DEF args, m
<1>7. /\ Fields(m, args) \in Machine!Mnemonic \X Nat \X Nat
      /\ m \in Machine!Opcodes /\ Fields(m, args)[1] = m
      /\ m \in Machine!Op1IsReg => Fields(m, args)[2] \in Machine!Reg
      /\ m \in Machine!Op2IsReg => Fields(m, args)[3] \in Machine!Reg
  BY <1>1, <1>4, <1>5, <1>6, FieldsType, EmittedCells
<1>8. CASE IsTwoCell(m)
  <2>1. PICK j, c : Adds(m, args, j, c) /\ Emitted(m, args) = <<Fields(m, args), Resolved(c)>>
    BY <1>1, <1>6, <1>8, EmittedCells
  <2>2. cells[n] = Fields(m, args) /\ cells[n + 1] = Resolved(c)
    <3>1. cells[Offset(i) + 1] = Emitted(m, args)[1] /\ cells[Offset(i) + 2] = Emitted(m, args)[2]
      BY <1>2, <1>3, <1>8
    <3>2. n + 1 = Offset(i) + 2
      BY <1>3
    <3> QED
      BY <2>1, <3>1, <3>2
  <2>3. WordOf(Resolved(c)) \in Machine!ImmKind(m)
    <3>1. \A k \in DOMAIN Operands(m) : args[k][1] = "int" => args[k][2] \in Int
      BY <1>4, <1>5
    <3> QED
      BY <1>1, <1>2, <1>8, <2>1, <3>1, ImmediateType
  <2> HIDE DEF n
  <2> QED
    BY <1>7, <2>2, <2>3 DEF n
<1>9. CASE ~IsTwoCell(m)
  <2>1. cells[n] = Fields(m, args) /\ Size(src[i]) # 2
    <3>1. Emitted(m, args) = <<Fields(m, args)>>
      BY <1>1, <1>6, <1>9, EmittedCells
    <3> QED
      BY <1>2, <1>3, <1>9, <3>1
  <2> QED
    BY <1>7, <2>1
<1> QED
  BY <1>8, <1>9

LEMMA ImmediateIsWord ==
  ASSUME NEW m, IsTwoCell(m), NEW w \in Machine!ImmKind(m)
  PROVE  w \in Machine!CodeWord /\ w[1] \in {"LABEL", "INT", "ATOM"}
<1>1. w \in Machine!Address \cup Machine!Constant \cup ({"ATOM"} \X Ids)
  BY DEF IsTwoCell, Machine!ImmKind
<1> QED
  BY <1>1 DEF Machine!CodeWord, Machine!Address, Machine!Constant, Machine!Cell

(* A word of the finished code, by its place in its line.                  *)
LEMMA LoadsAt ==
  ASSUME Inv, Tabled, Laid, Declared, pass = 2, line = Len(src), NEW n \in DOMAIN cells
  PROVE  /\ Word(n) \in Machine!CodeWord
         /\ Word(n)[1] \in Machine!TwoCell =>
              Word(n) \in Machine!Mnemonic \X Nat \X Nat /\ Word(n + 1) \in Machine!ImmKind(Word(n)[1])
         /\ Instruction(n) =>
              /\ Word(n)[1] \in Machine!Opcodes
              /\ Word(n)[1] \in Machine!Op1IsReg => Word(n)[2] \in Machine!Reg
              /\ Word(n)[1] \in Machine!Op2IsReg => Word(n)[3] \in Machine!Reg
<1>1. /\ src \in Seq(Lines) /\ Len(src) \in Nat /\ Len(src) \in 0 .. Len(src)
      /\ \E S : cells \in Seq(S)
  BY DEF Inv, Typed
<1>2. Len(cells) = Offset(Len(src) + 1) /\ DOMAIN cells = 1 .. Len(cells) /\ Len(cells) \in Nat
  BY <1>1, LaidOut
<1>3. PICK i \in 1 .. Len(src) : \E k \in 1 .. Size(src[i]) : n = Offset(i) + k
  BY <1>1, <1>2, LineOfCell
<1>4. PICK k \in 1 .. Size(src[i]) : n = Offset(i) + k
  BY <1>3
<1> DEFINE s == Offset(i) + 1
           m == src[i].mnem
<1>5. /\ src[i].kind = "instr" /\ Size(src[i]) \in {1, 2} /\ Offset(i) \in Nat
      /\ Size(src[i]) = 2 <=> IsTwoCell(m)
  <2>1. /\ src[i].kind = "instr" /\ Size(src[i]) \in {1, 2}
        /\ Size(src[i]) = 2 <=> IsTwoCell(m)
    BY <1>4 DEF Size, WidthOf
  <2>2. i \in 1 .. Len(src) + 1
    BY <1>1
  <2> QED
    BY <1>1, <2>1, <2>2, OffsetSteps
<1>6. cells[s][1] = m /\ Instruction(s)
  BY <1>5, CellsOfLine
<1>7. /\ cells[s] \in Machine!Mnemonic \X Nat \X Nat
      /\ m \in Machine!Opcodes
      /\ m \in Machine!Op1IsReg => cells[s][2] \in Machine!Reg
      /\ m \in Machine!Op2IsReg => cells[s][3] \in Machine!Reg
      /\ IsTwoCell(m) => WordOf(cells[s + 1]) \in Machine!ImmKind(m)
  BY <1>5, <1>6, WordsOfLine
<1>8. \A x : Word(x) = WordOf(cells[x])
  BY DEF Word, WordOf
<1>9. m \in Mnemonics /\ m \notin {"LABEL", "ATOM", "INT"}
  BY <1>6, WhatItTakes DEF Instruction
<1>10. m \in Machine!TwoCell => IsTwoCell(m)
  BY DEF Machine!TwoCell, IsTwoCell
<1> HIDE DEF s, m
<1>11. CASE k = 1
  <2>1. n = s
    BY <1>4, <1>11 DEF s
  <2>2. Word(n) = cells[s]
    BY <1>6, <1>8, <1>9, <2>1 DEF WordOf
  <2>3. Word(n) \in Machine!CodeWord
    BY <1>7, <2>2 DEF Machine!CodeWord
  <2>4. m \in Machine!TwoCell => Word(n + 1) \in Machine!ImmKind(m)
    BY <1>7, <1>8, <1>10, <2>1
  <2> QED
    BY <1>6, <1>7, <2>2, <2>3, <2>4
<1>12. CASE k = 2
  <2>1. n = s + 1 /\ IsTwoCell(m)
    BY <1>4, <1>5, <1>12 DEF s
  <2>2. Word(n) \in Machine!ImmKind(m)
    BY <1>7, <1>8, <2>1
  <2>3. Word(n) \in Machine!CodeWord /\ Word(n)[1] \in {"LABEL", "INT", "ATOM"}
    BY <2>1, <2>2, ImmediateIsWord
  <2>4. Word(n)[1] \notin Machine!TwoCell
    BY <2>3 DEF Machine!TwoCell
  <2>5. ~Instruction(n)
    <3>1. cells[n][1] \in {"LABEL", "INT", "ATOM"}
      BY <1>8, <2>3 DEF WordOf
    <3> QED
      BY <3>1, WhatItTakes DEF Instruction
  <2> QED
    BY <2>3, <2>4, <2>5
<1> QED
  BY <1>4, <1>5, <1>11, <1>12

(***************************************************************************)
(* For every text that is accepted, LoadsIntoMachine: what LamVM assumes   *)
(* of the code it runs is true of its words.  The machine reads them by    *)
(* tables of its own, and the assembler emits them one call a line.        *)
(***************************************************************************)
THEOREM AssembledCodeLoads == Spec => []LoadsIntoMachine
<1>1. ASSUME Inv, Tabled, Laid, Told, Declared, result = <<"ok">>
      PROVE  LoadsIntoMachine
  <2>1. pass = 2 /\ line = Len(src)
    <3>1. \A e : <<"ok">> # <<e, line + 1>>
      OBVIOUS
    <3> QED
      BY <1>1, <3>1 DEF Told
  <2>2. DOMAIN cells = 1 .. Len(cells) /\ Len(cells) \in Nat
    BY <1>1 DEF Inv, Typed
  <2>3. Words \in Seq(Machine!CodeWord) /\ Len(Words) = Len(cells)
    <3>1. \A n \in 1 .. Len(cells) : Word(n) \in Machine!CodeWord
      BY <1>1, <2>1, <2>2, LoadsAt
    <3>2. Words = [n \in 1 .. Len(cells) |-> Word(n)]
      BY <2>2 DEF Words
    <3> QED
      BY <2>2, <3>1, <3>2
  <2>4. ASSUME NEW n \in 1 .. Len(Words), Words[n][1] \in Machine!TwoCell, n < Len(Words)
        PROVE  /\ Words[n] \in Machine!Mnemonic \X Nat \X Nat
               /\ Words[n + 1] \in Machine!ImmKind(Words[n][1])
    <3>1. n \in DOMAIN cells /\ n + 1 \in DOMAIN cells
      BY <2>2, <2>3, <2>4
    <3>2. Words[n] = Word(n) /\ Words[n + 1] = Word(n + 1)
      BY <3>1 DEF Words
    <3> QED
      BY <1>1, <2>1, <2>4, <3>1, <3>2, LoadsAt
  <2>5. Machine!WellFormed(Words)
    BY <2>3, <2>4 DEF Machine!WellFormed
  <2> QED
    BY <1>1, <2>1, <2>5, LoadsAt DEF LoadsIntoMachine
<1>2. Inv /\ Tabled /\ Laid /\ Told /\ Declared => LoadsIntoMachine
  BY <1>1 DEF LoadsIntoMachine
<1>3. Spec => []Declared
  BY InitDeclared, NextDeclared, AlwaysExplained, PTL DEF Spec
<1> QED
  BY <1>2, <1>3, AlwaysExplained, PTL
=============================================================================
