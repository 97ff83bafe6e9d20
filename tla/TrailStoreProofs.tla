-------------------------- MODULE TrailStoreProofs --------------------------
(***************************************************************************)
(* The trail implements the snapshots, for every set of atoms and every    *)
(* bound: the inductive invariant is TypeOK, TrailSound and MarksNested    *)
(* together, and the refinement follows action by action from it.          *)
(***************************************************************************)
EXTENDS TrailStore, SequenceTheorems, TLAPS

(* A reference to any address is a cell.                                   *)
LEMMA RefIsCell == \A a \in Nat : Ref(a) \in Cell
  BY DEF Ref, Cell

(* Functor and structure cells are cells.                                  *)
LEMMA NewCells ==
  ASSUME NEW f \in Atoms, NEW n \in Nat
  PROVE  Fun(f, n) \in Cell /\ Str(n) \in Cell
<1>1. n % 32 \in Arities
  BY DEF Arities
<1> QED
  BY <1>1 DEF Fun, Str, Cell

(* A function on 1 .. n is a sequence of length n.                         *)
LEMMA FunctionIsSeq ==
  ASSUME NEW S, NEW n \in Nat, NEW f \in [1 .. n -> S]
  PROVE  f \in Seq(S) /\ Len(f) = n
<1>1. f \in Seq(S)
  BY SeqDef
<1>2. DOMAIN f = 1 .. Len(f) /\ Len(f) \in Nat
  BY <1>1, LenProperties
<1>3. QED
  BY <1>1, <1>2

(* The two sequence operations of the store, by their elements.            *)
LEMMA PrefixFacts ==
  ASSUME NEW S, NEW s \in Seq(S), NEW n \in 0 .. Len(s)
  PROVE  /\ SubSeq(s, 1, n) \in Seq(S)
         /\ Len(SubSeq(s, 1, n)) = n
         /\ \A i \in 1 .. n : SubSeq(s, 1, n)[i] = s[i]
<1>1. \A i \in 1 .. n : s[i] \in S
  BY ElementOfSeq, LenProperties
<1>2. n \in Int /\ 1 \in Int
  BY LenProperties
<1>3. /\ SubSeq(s, 1, n) \in Seq(S)
      /\ Len(SubSeq(s, 1, n)) = IF 1 <= n THEN n - 1 + 1 ELSE 0
      /\ \A i \in 1 .. n - 1 + 1 : SubSeq(s, 1, n)[i] = s[1 + i - 1]
  BY <1>1, <1>2, SubSeqProperties
<1>4. QED
  BY <1>2, <1>3

(* What undoing the trail yields, cell by cell.                            *)
LEMMA UndoFacts ==
  ASSUME NEW h \in Seq(Cell), NEW t \in Seq(Nat), NEW hp \in 0 .. Len(h),
         NEW tr \in Nat
  PROVE  /\ Undo(h, t, hp, tr) \in Seq(Cell)
         /\ Len(Undo(h, t, hp, tr)) = hp
         /\ \A a \in 1 .. hp : Undo(h, t, hp, tr)[a] =
              IF a \in Trailed(t, tr) THEN Ref(a) ELSE h[a]
<1>1. \A a \in 1 .. hp : h[a] \in Cell
  BY LenProperties, ElementOfSeq
<1>2. Undo(h, t, hp, tr) \in [1 .. hp -> Cell]
  BY <1>1, RefIsCell DEF Undo
<1>3. hp \in Nat
  BY LenProperties
<1>4. QED
  BY <1>2, <1>3, FunctionIsSeq DEF Undo

-----------------------------------------------------------------------------

IInv == TypeOK /\ TrailSound /\ MarksNested

(* The invariant holds at the start.                                       *)
LEMMA InitIInv == Init => IInv
  BY DEF Init, IInv, TypeOK, TrailSound, MarksNested

(* The newest choice point, when there is one, is within bounds.           *)
LEMMA TopFacts ==
  ASSUME IInv, choice # <<>>
  PROVE  /\ Len(choice) \in Nat \ {0}
         /\ Top = choice[Len(choice)]
         /\ Top \in Mark
         /\ Top.hp \in 0 .. Len(heap)
         /\ Top.tr \in 0 .. Len(trail)
         /\ \A j \in 1 .. Top.tr : trail[j] <= Top.hp
<1>1. Len(choice) \in Nat \ {0} /\ Len(heap) \in Nat /\ Len(trail) \in Nat
  BY LenProperties, EmptySeq DEF IInv, TypeOK
<1>2. Top \in Mark
  BY <1>1, ElementOfSeq DEF Top, IInv, TypeOK
<1>3. QED
  BY <1>1, <1>2 DEF Top, Mark, IInv, MarksNested

(* Pushing a cell keeps the invariant.                                     *)
LEMMA PushIInv ==
  ASSUME IInv, NEW c \in Cell, Push(c)
  PROVE  IInv'
<1> USE DEF IInv
<1>1. /\ heap' \in Seq(Cell)
      /\ Len(heap') = Len(heap) + 1
      /\ \A a \in 1 .. Len(heap) : heap'[a] = heap[a]
      /\ Len(heap) \in Nat
  BY AppendProperties, LenProperties DEF Push, TypeOK
<1>2. Len(choice) \in Nat /\ Len(trail) \in Nat
  BY LenProperties DEF TypeOK
<1>3. TypeOK'
  BY <1>1 DEF Push, TypeOK
<1>4. TrailSound'
  <2>1. trail' = trail
    BY DEF Push
  <2>2. \A i \in 1 .. Len(trail) : trail[i] \in 1 .. Len(heap)
    BY DEF TrailSound
  <2>3. \A i \in 1 .. Len(trail) : trail[i] \in 1 .. Len(heap')
    BY <1>1, <2>2
  <2>4. \A i \in 1 .. Len(trail) : heap'[trail[i]] = heap[trail[i]]
    BY <1>1, <2>2
  <2>5. QED
    BY <2>1, <2>3, <2>4 DEF TrailSound
<1>5. MarksNested'
  <2>1. \A i \in 1 .. Len(choice) : choice[i].hp \in Nat
    <3>1. \A i \in 1 .. Len(choice) : choice[i] \in Mark
      BY ElementOfSeq DEF TypeOK
    <3>2. QED
      BY <3>1 DEF Mark
  <2>2. trail' = trail /\ choice' = choice
    BY DEF Push
  <2>3. \A i \in 1 .. Len(choice) : choice[i].hp <= Len(heap')
    BY <1>1, <2>1 DEF MarksNested
  <2>4. QED
    BY <2>2, <2>3 DEF MarksNested
<1>6. QED
  BY <1>3, <1>4, <1>5

(* Binding an unbound cell keeps the invariant.                            *)
LEMMA BindIInv ==
  ASSUME IInv, NEW a \in 1 .. Len(heap), NEW c \in Cell, BindCell(a, c)
  PROVE  IInv'
<1> USE DEF IInv
<1>1. Len(heap) \in Nat /\ Len(trail) \in Nat /\ Len(choice) \in Nat
  BY LenProperties DEF TypeOK
<1>2. /\ heap' \in Seq(Cell)
      /\ Len(heap') = Len(heap)
      /\ \A b \in 1 .. Len(heap) : heap'[b] = IF b = a THEN c ELSE heap[b]
  BY ExceptSeq DEF BindCell, TypeOK
<1>3. /\ trail' \in Seq(Nat)
      /\ Len(trail') = Len(trail) + 1
      /\ \A i \in 1 .. Len(trail) : trail'[i] = trail[i]
      /\ trail'[Len(trail) + 1] = a
  BY <1>1, AppendProperties DEF BindCell, TypeOK
<1>4. heap[a] = Ref(a) /\ c # Ref(a)
  BY DEF BindCell, IsUnbound, Ref, Tag, Val
<1>5. \A i \in 1 .. Len(trail) : trail[i] # a
  BY <1>4 DEF TrailSound
<1>6. TypeOK'
  BY <1>2, <1>3 DEF BindCell, TypeOK
<1>7. TrailSound'
  <2>1. \A i \in 1 .. Len(trail') : i \in 1 .. Len(trail) \/ i = Len(trail) + 1
    BY <1>1, <1>3
  <2>2. \A i \in 1 .. Len(trail') : trail'[i] \in 1 .. Len(heap')
    BY <1>1, <1>2, <1>3, <2>1 DEF TrailSound
  <2>3. \A i \in 1 .. Len(trail') : heap'[trail'[i]] # Ref(trail'[i])
    BY <1>1, <1>2, <1>3, <1>4, <1>5, <2>1 DEF TrailSound
  <2>4. \A i, j \in 1 .. Len(trail') : trail'[i] = trail'[j] => i = j
    BY <1>1, <1>3, <1>5, <2>1 DEF TrailSound
  <2>5. QED
    BY <2>2, <2>3, <2>4 DEF TrailSound
<1>8. MarksNested'
  <2>1. \A i \in 1 .. Len(choice) : choice[i] \in Mark
    BY ElementOfSeq DEF TypeOK
  <2>2. QED
    BY <1>1, <1>2, <1>3, <2>1 DEF BindCell, MarksNested, Mark
<1>9. QED
  BY <1>6, <1>7, <1>8

(* What BindNew makes of the heap and the trail.                           *)
LEMMA BindNewFacts ==
  ASSUME IInv, NEW a \in 1 .. Len(heap) + 1, NEW f \in Atoms, NEW n \in Nat,
         BindNew(a, f, n)
  PROVE  /\ Len(heap) \in Nat /\ Len(trail) \in Nat /\ Len(choice) \in Nat
         /\ heap' \in Seq(Cell) /\ Len(heap') = Len(heap) + 1
         /\ heap'[a] = Str(Len(heap) + 1)
         /\ \A b \in 1 .. Len(heap) : b # a => heap'[b] = heap[b]
         /\ trail' \in Seq(Nat) /\ Len(trail') = Len(trail) + 1
         /\ \A i \in 1 .. Len(trail) : trail'[i] = trail[i]
         /\ trail'[Len(trail) + 1] = a
         /\ a \in 1 .. Len(heap) => heap[a] = Ref(a)
         /\ choice' = choice
<1> DEFINE pushed == Append(heap, Fun(f, n))
           cell   == Str(Len(heap) + 1)
<1>1. Len(heap) \in Nat /\ Len(trail) \in Nat /\ Len(choice) \in Nat
  BY LenProperties DEF IInv, TypeOK
<1>2. Fun(f, n) \in Cell /\ cell \in Cell
  BY <1>1, NewCells
<1>3. /\ pushed \in Seq(Cell) /\ Len(pushed) = Len(heap) + 1
      /\ \A b \in 1 .. Len(heap) : pushed[b] = heap[b]
  BY <1>1, <1>2, AppendProperties DEF IInv, TypeOK
<1>4. /\ [pushed EXCEPT ![a] = cell] \in Seq(Cell)
      /\ Len([pushed EXCEPT ![a] = cell]) = Len(pushed)
      /\ \A b \in 1 .. Len(pushed) :
           [pushed EXCEPT ![a] = cell][b] = IF b = a THEN cell ELSE pushed[b]
  <2> HIDE DEF pushed, cell
  <2>1. a \in 1 .. Len(pushed)
    BY <1>3
  <2>2. QED
    BY <1>2, <1>3, <2>1, ExceptSeq
<1>5. heap' = [pushed EXCEPT ![a] = cell]
  BY DEF BindNew
<1>6. /\ trail' \in Seq(Nat) /\ Len(trail') = Len(trail) + 1
      /\ \A i \in 1 .. Len(trail) : trail'[i] = trail[i]
      /\ trail'[Len(trail) + 1] = a
  BY <1>1, AppendProperties DEF BindNew, IInv, TypeOK
<1>7. a \in 1 .. Len(heap) => heap[a] = Ref(a)
  BY <1>1 DEF BindNew, IsUnbound, Ref, Tag, Val
<1>8. choice' = choice
  BY DEF BindNew
<1> HIDE DEF pushed, cell
<1>9. /\ heap' \in Seq(Cell) /\ Len(heap') = Len(heap) + 1
      /\ heap'[a] = cell
      /\ \A b \in 1 .. Len(heap) : b # a => heap'[b] = heap[b]
  <2>1. a \in 1 .. Len(pushed) /\ \A b \in 1 .. Len(heap) : b \in 1 .. Len(pushed)
    BY <1>1, <1>3
  <2>2. QED
    BY <1>3, <1>4, <1>5, <2>1
<1>10. QED
  BY <1>1, <1>6, <1>7, <1>8, <1>9 DEF cell

(* Pushing a functor and binding a variable to it keeps the invariant.     *)
LEMMA BindNewIInv ==
  ASSUME IInv, NEW a \in 1 .. Len(heap) + 1, NEW f \in Atoms, NEW n \in Nat,
         BindNew(a, f, n)
  PROVE  IInv'
<1> USE DEF IInv
<1>1. /\ Len(heap) \in Nat /\ Len(trail) \in Nat /\ Len(choice) \in Nat
      /\ heap' \in Seq(Cell) /\ Len(heap') = Len(heap) + 1
      /\ heap'[a] = Str(Len(heap) + 1)
      /\ \A b \in 1 .. Len(heap) : b # a => heap'[b] = heap[b]
      /\ trail' \in Seq(Nat) /\ Len(trail') = Len(trail) + 1
      /\ \A i \in 1 .. Len(trail) : trail'[i] = trail[i]
      /\ trail'[Len(trail) + 1] = a
      /\ a \in 1 .. Len(heap) => heap[a] = Ref(a)
      /\ choice' = choice
  BY BindNewFacts
<1>2. \A i \in 1 .. Len(trail) : trail[i] \in 1 .. Len(heap) /\ trail[i] # a
  BY <1>1 DEF TrailSound
<1>3. heap'[a] # Ref(a)
  BY <1>1 DEF Str, Ref
<1>4. \A i \in 1 .. Len(trail') : i \in 1 .. Len(trail) \/ i = Len(trail) + 1
  BY <1>1
<1>5. TypeOK'
  BY <1>1 DEF TypeOK
<1>6. TrailSound'
  <2>1. \A i \in 1 .. Len(trail') : trail'[i] \in 1 .. Len(heap')
    BY SMTT(30), <1>1, <1>2, <1>4
  <2>2. ASSUME NEW i \in 1 .. Len(trail')
        PROVE  heap'[trail'[i]] # Ref(trail'[i])
    <3>1. CASE i \in 1 .. Len(trail)
      <4>1. trail'[i] = trail[i] /\ heap'[trail[i]] = heap[trail[i]]
        BY <1>1, <1>2, <3>1
      <4>2. heap[trail[i]] # Ref(trail[i])
        BY <3>1 DEF TrailSound
      <4>3. QED
        BY <4>1, <4>2
    <3>2. CASE i = Len(trail) + 1
      BY <1>1, <1>3, <3>2
    <3>3. QED
      BY <1>4, <3>1, <3>2
  <2>3. ASSUME NEW i \in 1 .. Len(trail'), NEW j \in 1 .. Len(trail'),
               trail'[i] = trail'[j]
        PROVE  i = j
    <3>1. CASE i \in 1 .. Len(trail) /\ j \in 1 .. Len(trail)
      <4>1. trail[i] = trail[j]
        BY <1>1, <2>3, <3>1
      <4>2. QED
        BY <3>1, <4>1 DEF TrailSound
    <3>2. CASE i = Len(trail) + 1 /\ j \in 1 .. Len(trail)
      BY <1>1, <1>2, <2>3, <3>2
    <3>3. CASE i \in 1 .. Len(trail) /\ j = Len(trail) + 1
      BY <1>1, <1>2, <2>3, <3>3
    <3>4. QED
      BY <1>4, <3>1, <3>2, <3>3
  <2>4. QED
    BY <2>1, <2>2, <2>3 DEF TrailSound
<1>7. MarksNested'
  <2>1. \A i \in 1 .. Len(choice) : choice[i] \in Mark
    BY ElementOfSeq DEF TypeOK
  <2>2. ASSUME NEW i \in 1 .. Len(choice)
        PROVE  /\ choice[i].hp <= Len(heap')
               /\ choice[i].tr <= Len(trail')
               /\ \A j \in 1 .. choice[i].tr : trail'[j] <= choice[i].hp
    <3>1. /\ choice[i].hp \in Nat /\ choice[i].hp <= Len(heap)
          /\ choice[i].tr \in Nat /\ choice[i].tr <= Len(trail)
          /\ \A j \in 1 .. choice[i].tr : trail[j] <= choice[i].hp
      BY <2>1 DEF MarksNested, Mark
    <3>2. \A j \in 1 .. choice[i].tr : trail'[j] = trail[j]
      BY <1>1, <3>1
    <3>3. QED
      BY <1>1, <3>1, <3>2
  <2>3. choice' = choice
    BY <1>1
  <2>4. QED
    BY <2>2, <2>3 DEF MarksNested
<1>8. QED
  BY <1>5, <1>6, <1>7

(* Making a choice point keeps the invariant.                              *)
LEMMA PushChoiceIInv ==
  ASSUME IInv, PushChoice
  PROVE  IInv'
<1> USE DEF IInv
<1> DEFINE m == [hp |-> Len(heap), tr |-> Len(trail)]
<1>1. Len(heap) \in Nat /\ Len(trail) \in Nat /\ Len(choice) \in Nat
  BY LenProperties DEF TypeOK
<1>2. m \in Mark
  BY <1>1 DEF Mark
<1>3. /\ choice' \in Seq(Mark)
      /\ Len(choice') = Len(choice) + 1
      /\ \A i \in 1 .. Len(choice) : choice'[i] = choice[i]
      /\ choice'[Len(choice) + 1] = m
  BY <1>2, AppendProperties DEF PushChoice, TypeOK
<1>4. TypeOK' /\ TrailSound'
  BY <1>3 DEF PushChoice, TypeOK, TrailSound
<1>5. MarksNested'
  <2>1. \A i \in 1 .. Len(choice') : i \in 1 .. Len(choice) \/ i = Len(choice) + 1
    BY <1>1, <1>3
  <2>2. \A i \in 1 .. Len(choice) : choice[i] \in Mark
    BY ElementOfSeq DEF TypeOK
  <2>3. \A j \in 1 .. Len(trail) : trail[j] <= Len(heap)
    BY <1>1 DEF TrailSound
  <2>4. \A i \in 1 .. Len(choice') :
          /\ choice'[i].hp <= Len(heap)
          /\ choice'[i].tr <= Len(trail)
          /\ \A j \in 1 .. choice'[i].tr : trail[j] <= choice'[i].hp
    <3>1. TAKE i \in 1 .. Len(choice')
    <3>2. CASE i \in 1 .. Len(choice)
      BY <1>3, <3>2 DEF MarksNested
    <3>3. CASE i = Len(choice) + 1
      BY <1>1, <1>3, <2>3, <3>3
    <3>4. QED
      BY <2>1, <3>2, <3>3
  <2>5. \A i, j \in 1 .. Len(choice') :
          i <= j => choice'[i].hp <= choice'[j].hp /\ choice'[i].tr <= choice'[j].tr
    <3>1. SUFFICES ASSUME NEW i \in 1 .. Len(choice'), NEW j \in 1 .. Len(choice'),
                          i <= j
                   PROVE  choice'[i].hp <= choice'[j].hp /\ choice'[i].tr <= choice'[j].tr
      OBVIOUS
    <3>2. CASE j \in 1 .. Len(choice)
      <4>1. i \in 1 .. Len(choice)
        BY <1>1, <1>3, <3>1, <3>2
      <4>2. QED
        BY <1>3, <3>1, <3>2, <4>1 DEF MarksNested
    <3>3. CASE j = Len(choice) + 1
      <4>1. choice'[j] = m
        BY <1>3, <3>3
      <4>2. QED
        BY <2>4, <4>1, <1>1
    <3>4. QED
      BY <2>1, <3>2, <3>3
  <2>6. QED
    BY <2>4, <2>5 DEF MarksNested, PushChoice
<1>6. QED
  BY <1>4, <1>5

(***************************************************************************)
(* Restoring the newest choice point keeps the invariant of every prefix   *)
(* of the choice stack that remains, the whole stack or all but the top.   *)
(***************************************************************************)
LEMMA RestoreIInv ==
  ASSUME IInv, RestoreTop, NEW n \in 0 .. Len(choice),
         choice' = SubSeq(choice, 1, n)
  PROVE  IInv'
<1> USE DEF IInv
<1>1. Len(heap) \in Nat /\ Len(trail) \in Nat /\ Len(choice) \in Nat
  BY LenProperties DEF TypeOK
<1>2. choice # <<>>
  BY DEF RestoreTop
<1>3. /\ Top = choice[Len(choice)] /\ Top \in Mark
      /\ Len(choice) # 0
      /\ Top.hp \in 0 .. Len(heap) /\ Top.tr \in 0 .. Len(trail)
      /\ \A j \in 1 .. Top.tr : trail[j] <= Top.hp
  BY <1>2, TopFacts
<1>4. /\ heap' \in Seq(Cell) /\ Len(heap') = Top.hp
      /\ \A a \in 1 .. Top.hp : heap'[a] =
           IF a \in Trailed(trail, Top.tr) THEN Ref(a) ELSE heap[a]
  <2>1. heap \in Seq(Cell) /\ trail \in Seq(Nat) /\ Top.tr \in Nat
    BY <1>3 DEF TypeOK, Mark
  <2>2. heap' = Undo(heap, trail, Top.hp, Top.tr)
    BY DEF RestoreTop
  <2>3. /\ Undo(heap, trail, Top.hp, Top.tr) \in Seq(Cell)
        /\ Len(Undo(heap, trail, Top.hp, Top.tr)) = Top.hp
        /\ \A a \in 1 .. Top.hp : Undo(heap, trail, Top.hp, Top.tr)[a] =
             IF a \in Trailed(trail, Top.tr) THEN Ref(a) ELSE heap[a]
    <3>1. \A p \in 0 .. Len(heap), r \in Nat :
            /\ Undo(heap, trail, p, r) \in Seq(Cell)
            /\ Len(Undo(heap, trail, p, r)) = p
            /\ \A a \in 1 .. p : Undo(heap, trail, p, r)[a] =
                 IF a \in Trailed(trail, r) THEN Ref(a) ELSE heap[a]
      BY <2>1, UndoFacts, Zenon
    <3>2. QED
      BY <1>3, <2>1, <3>1, Zenon
  <2>4. QED
    BY <2>2, <2>3
<1>5. /\ trail' \in Seq(Nat) /\ Len(trail') = Top.tr
      /\ \A i \in 1 .. Top.tr : trail'[i] = trail[i]
  BY <1>3, PrefixFacts DEF RestoreTop, TypeOK
<1>6. /\ choice' \in Seq(Mark) /\ Len(choice') = n
      /\ \A i \in 1 .. n : choice'[i] = choice[i]
  BY PrefixFacts DEF TypeOK
<1>7. TypeOK'
  BY <1>4, <1>5, <1>6 DEF TypeOK
<1>8. TrailSound'
  <2>1. \A i \in 1 .. Top.tr : i \in 1 .. Len(trail) /\ trail[i] \in 1 .. Top.hp
    BY <1>1, <1>3 DEF TrailSound
  <2>2. \A i \in 1 .. Top.tr : trail[i] \notin Trailed(trail, Top.tr)
    BY <1>1, <1>3, <2>1 DEF TrailSound, Trailed
  <2>3. \A i \in 1 .. Top.tr : heap'[trail[i]] = heap[trail[i]]
    BY <1>4, <2>1, <2>2
  <2>4. \A i \in 1 .. Len(trail') : trail'[i] \in 1 .. Len(heap')
    BY <1>4, <1>5, <2>1
  <2>5. \A i \in 1 .. Len(trail') : heap'[trail'[i]] # Ref(trail'[i])
    BY <1>5, <2>1, <2>3 DEF TrailSound
  <2>6. \A i, j \in 1 .. Len(trail') : trail'[i] = trail'[j] => i = j
    BY <1>5, <2>1 DEF TrailSound
  <2>7. QED
    BY <2>4, <2>5, <2>6 DEF TrailSound
<1>9. MarksNested'
  <2>1. \A i \in 1 .. n : i \in 1 .. Len(choice) /\ i <= Len(choice)
    BY <1>1
  <2>2. \A i \in 1 .. n : choice[i] \in Mark
    BY <2>1, ElementOfSeq DEF TypeOK
  <2>3. \A i \in 1 .. n : choice[i].hp <= Top.hp /\ choice[i].tr <= Top.tr
    BY <1>1, <1>3, <2>1 DEF MarksNested
  <2>4. \A i \in 1 .. n : \A j \in 1 .. choice[i].tr :
          /\ j \in 1 .. Top.tr
          /\ trail[j] <= choice[i].hp
    BY <1>1, <1>3, <2>1, <2>2, <2>3 DEF MarksNested, Mark
  <2>5. \A i \in 1 .. Len(choice') :
          /\ choice'[i].hp <= Len(heap')
          /\ choice'[i].tr <= Len(trail')
          /\ \A j \in 1 .. choice'[i].tr : trail'[j] <= choice'[i].hp
    BY <1>4, <1>5, <1>6, <2>3, <2>4
  <2>6. \A i, j \in 1 .. Len(choice') :
          i <= j => choice'[i].hp <= choice'[j].hp /\ choice'[i].tr <= choice'[j].tr
    BY <1>6, <2>1 DEF MarksNested
  <2>7. QED
    BY <2>5, <2>6 DEF MarksNested
<1>10. QED
  BY <1>7, <1>8, <1>9

(* Clearing the choice stack keeps the invariant.                          *)
LEMMA CutIInv == IInv /\ Cut => IInv'
  BY EmptySeq DEF IInv, Cut, TypeOK, TrailSound, MarksNested

(* Retry and Trust, as prefixes of the choice stack.                       *)
LEMMA BacktrackPrefix ==
  ASSUME IInv, Retry \/ Trust
  PROVE  /\ RestoreTop /\ choice # <<>> /\ Len(choice) \in Nat \ {0}
         /\ Retry => choice' = SubSeq(choice, 1, Len(choice))
         /\ Trust => choice' = SubSeq(choice, 1, Len(choice) - 1)
<1>1. RestoreTop /\ choice # <<>>
  BY DEF Retry, Trust, RestoreTop
<1>2. Len(choice) \in Nat \ {0}
  BY <1>1, TopFacts
<1>3. Retry => choice' = SubSeq(choice, 1, Len(choice))
  BY SubSeqFull DEF Retry, IInv, TypeOK
<1>4. QED
  BY <1>1, <1>2, <1>3 DEF Trust

(* Every call of the store preserves it.                                   *)
LEMMA NextIInv == IInv /\ [Next]_vars => IInv'
<1> SUFFICES ASSUME IInv, [Next]_vars
             PROVE  IInv'
  OBVIOUS
<1>1. ASSUME NEW c \in Cell, Push(c)
      PROVE  IInv'
  BY <1>1, PushIInv
<1>2. ASSUME NEW a \in 1 .. Len(heap), NEW c \in Cell, BindCell(a, c)
      PROVE  IInv'
  BY <1>2, BindIInv
<1>9. ASSUME NEW a \in 1 .. Len(heap) + 1, NEW f \in Atoms, NEW n \in Nat,
             BindNew(a, f, n)
      PROVE  IInv'
  BY <1>9, BindNewIInv
<1>3. CASE PushChoice
  BY <1>3, PushChoiceIInv
<1>4. CASE Retry
  <2>1. Len(choice) \in 0 .. Len(choice)
    BY <1>4, BacktrackPrefix
  <2>2. QED
    BY <1>4, <2>1, BacktrackPrefix, RestoreIInv
<1>5. CASE Trust
  <2>1. Len(choice) - 1 \in 0 .. Len(choice)
    BY <1>5, BacktrackPrefix
  <2>2. QED
    BY <1>5, <2>1, BacktrackPrefix, RestoreIInv
<1>6. CASE Cut
  BY <1>6, CutIInv
<1>7. CASE UNCHANGED vars
  BY <1>7 DEF vars, IInv, TypeOK, TrailSound, MarksNested
<1>8. QED
  BY <1>1, <1>2, <1>3, <1>4, <1>5, <1>6, <1>7, <1>9 DEF Next

(* The inductive invariant holds in every reachable state.                 *)
THEOREM InvariantHolds == Spec => []IInv
  BY InitIInv, NextIInv, PTL DEF Spec

(* Every reachable state of the store is well typed.                       *)
THEOREM TypeCorrect == Spec => []TypeOK
<1>1. IInv => TypeOK
  BY DEF IInv
<1>2. QED
  BY <1>1, InvariantHolds, PTL

(* Unwinding never leaves the heap and never resets a cell twice.          *)
THEOREM TrailIsSound == Spec => []TrailSound
<1>1. IInv => TrailSound
  BY DEF IInv
<1>2. QED
  BY <1>1, InvariantHolds, PTL

(* Choice points nest: a newer one never remembers less than an older one. *)
THEOREM MarksAreNested == Spec => []MarksNested
<1>1. IInv => MarksNested
  BY DEF IInv
<1>2. QED
  BY <1>1, InvariantHolds, PTL

-----------------------------------------------------------------------------
(***************************************************************************)
(* The refinement.  Every action leaves what the older choice points would *)
(* restore as it was; backtracking makes the heap what the newest recalls. *)
(***************************************************************************)

(* Undo depends only on what it yields below the heap mark.                *)
LEMMA UndoEqual ==
  ASSUME NEW h1, NEW t1, NEW h2, NEW t2, NEW hp \in Nat, NEW tr,
         \A a \in 1 .. hp :
           (IF a \in Trailed(t1, tr) THEN Ref(a) ELSE h1[a])
             = (IF a \in Trailed(t2, tr) THEN Ref(a) ELSE h2[a])
  PROVE  Undo(h1, t1, hp, tr) = Undo(h2, t2, hp, tr)
  BY DEF Undo

(* The recovered copies are one sequence of cells per choice point.        *)
CopiesOK ==
  /\ Recovered \in Seq(Seq(Cell))
  /\ Len(Recovered) = Len(choice)
  /\ \A i \in 1 .. Len(choice) :
       Recovered[i] = Undo(heap, trail, choice[i].hp, choice[i].tr)

(* The recovered copies are memories, one per choice point.                *)
LEMMA RecoveredFacts == IInv => CopiesOK
<1> SUFFICES ASSUME IInv
             PROVE  CopiesOK
  OBVIOUS
<1>1. Len(choice) \in Nat /\ Len(heap) \in Nat
  BY LenProperties DEF IInv, TypeOK
<1>2. ASSUME NEW i \in 1 .. Len(choice)
      PROVE  Undo(heap, trail, choice[i].hp, choice[i].tr) \in Seq(Cell)
  <2>1. choice[i] \in Mark
    BY ElementOfSeq DEF IInv, TypeOK
  <2>2. choice[i].hp \in 0 .. Len(heap) /\ choice[i].tr \in Nat
    BY <1>1, <2>1 DEF Mark, IInv, MarksNested
  <2>3. \A p \in 0 .. Len(heap), r \in Nat : Undo(heap, trail, p, r) \in Seq(Cell)
    BY UndoFacts DEF IInv, TypeOK
  <2>4. QED
    BY <2>2, <2>3, Zenon
<1>3. Recovered \in [1 .. Len(choice) -> Seq(Cell)]
  BY <1>2 DEF Recovered
<1>4. Recovered \in Seq(Seq(Cell)) /\ Len(Recovered) = Len(choice)
  BY <1>1, <1>3, FunctionIsSeq
<1>5. QED
  BY <1>4 DEF CopiesOK, Recovered

(* Two states agree on the copies when they agree on each of them.         *)
LEMMA RecoveredStable ==
  ASSUME choice' = choice,
         \A i \in 1 .. Len(choice) :
           Undo(heap', trail', choice[i].hp, choice[i].tr)
             = Undo(heap, trail, choice[i].hp, choice[i].tr)
  PROVE  Recovered' = Recovered
  BY DEF Recovered

(* Pushing a cell is work of the abstract store.                           *)
LEMMA PushWorks ==
  ASSUME IInv, NEW c \in Cell, Push(c)
  PROVE  Snap!Work
<1>1. /\ Len(heap') = Len(heap) + 1
      /\ \A a \in 1 .. Len(heap) : heap'[a] = heap[a]
      /\ Len(heap) \in Nat
  BY AppendProperties, LenProperties DEF Push, IInv, TypeOK
<1>2. trail' = trail /\ choice' = choice
  BY DEF Push
<1>3. ASSUME NEW i \in 1 .. Len(choice)
      PROVE  Undo(heap', trail', choice[i].hp, choice[i].tr)
               = Undo(heap, trail, choice[i].hp, choice[i].tr)
  <2>1. choice[i] \in Mark
    BY ElementOfSeq DEF IInv, TypeOK
  <2>2. choice[i].hp \in Nat /\ choice[i].hp <= Len(heap)
    BY <2>1 DEF Mark, IInv, MarksNested
  <2>3. \A a \in 1 .. choice[i].hp : heap'[a] = heap[a]
    BY <1>1, <2>2
  <2>4. QED
    BY <1>2, <2>2, <2>3, UndoEqual
<1>4. Recovered' = Recovered
  BY <1>2, <1>3, RecoveredStable
<1>5. QED
  BY <1>1, <1>4 DEF Snap!Work

(* Binding an unbound cell is work of the abstract store.                  *)
LEMMA BindWorks ==
  ASSUME IInv, NEW a \in 1 .. Len(heap), NEW c \in Cell, BindCell(a, c)
  PROVE  Snap!Work
<1>1. Len(heap) \in Nat /\ Len(trail) \in Nat
  BY LenProperties DEF IInv, TypeOK
<1>2. /\ Len(heap') = Len(heap)
      /\ \A b \in 1 .. Len(heap) : heap'[b] = IF b = a THEN c ELSE heap[b]
  BY ExceptSeq DEF BindCell, IInv, TypeOK
<1>3. /\ Len(trail') = Len(trail) + 1
      /\ \A j \in 1 .. Len(trail) : trail'[j] = trail[j]
      /\ trail'[Len(trail) + 1] = a
  BY <1>1, AppendProperties DEF BindCell, IInv, TypeOK
<1>4. heap[a] = Ref(a)
  BY DEF BindCell, IsUnbound, Ref, Tag, Val
<1>5. choice' = choice
  BY DEF BindCell
<1>6. ASSUME NEW i \in 1 .. Len(choice)
      PROVE  Undo(heap', trail', choice[i].hp, choice[i].tr)
               = Undo(heap, trail, choice[i].hp, choice[i].tr)
  <2> DEFINE hp == choice[i].hp
             tr == choice[i].tr
  <2>1. choice[i] \in Mark
    BY ElementOfSeq DEF IInv, TypeOK
  <2>2. /\ hp \in Nat /\ hp <= Len(heap)
        /\ tr \in Nat /\ tr <= Len(trail)
    BY <2>1 DEF Mark, IInv, MarksNested
  <2>3. Trailed(trail', tr) = Trailed(trail, tr) \cup {a}
    <3> HIDE DEF tr
    <3>1. (tr + 1) .. Len(trail') = ((tr + 1) .. Len(trail)) \cup {Len(trail) + 1}
      BY <1>1, <1>3, <2>2
    <3>2. \A j \in (tr + 1) .. Len(trail) : trail'[j] = trail[j]
      BY <1>1, <1>3, <2>2
    <3>3. QED
      BY <1>3, <3>1, <3>2 DEF Trailed
  <2>4. ASSUME NEW b \in 1 .. hp
        PROVE  (IF b \in Trailed(trail', tr) THEN Ref(b) ELSE heap'[b])
                 = (IF b \in Trailed(trail, tr) THEN Ref(b) ELSE heap[b])
    <3>1. b \in 1 .. Len(heap)
      BY <1>1, <2>2
    <3>2. CASE b = a
      BY <1>4, <2>3, <3>2
    <3>3. CASE b # a
      BY <1>2, <2>3, <3>1, <3>3
    <3>4. QED
      BY <3>2, <3>3
  <2>5. QED
    BY <2>2, <2>4, UndoEqual
<1>7. Recovered' = Recovered
  BY <1>5, <1>6, RecoveredStable
<1>8. \A b \in 1 .. Len(heap) : heap[b] # Ref(b) => heap'[b] = heap[b]
  BY <1>2, <1>4
<1>9. Len(heap') >= Len(heap)
  BY <1>1, <1>2
<1>10. QED
  BY <1>7, <1>8, <1>9 DEF Snap!Work, Snap!Ref, Ref

(* Pushing a functor and binding a variable to it is work, too.            *)
LEMMA BindNewWorks ==
  ASSUME IInv, NEW a \in 1 .. Len(heap) + 1, NEW f \in Atoms, NEW n \in Nat,
         BindNew(a, f, n)
  PROVE  Snap!Work
<1>1. /\ Len(heap) \in Nat /\ Len(trail) \in Nat
      /\ Len(heap') = Len(heap) + 1
      /\ \A b \in 1 .. Len(heap) : b # a => heap'[b] = heap[b]
      /\ Len(trail') = Len(trail) + 1
      /\ \A i \in 1 .. Len(trail) : trail'[i] = trail[i]
      /\ trail'[Len(trail) + 1] = a
      /\ a \in 1 .. Len(heap) => heap[a] = Ref(a)
      /\ choice' = choice
  BY BindNewFacts
<1>2. ASSUME NEW i \in 1 .. Len(choice)
      PROVE  Undo(heap', trail', choice[i].hp, choice[i].tr)
               = Undo(heap, trail, choice[i].hp, choice[i].tr)
  <2> DEFINE hp == choice[i].hp
             tr == choice[i].tr
  <2>1. choice[i] \in Mark
    BY ElementOfSeq DEF IInv, TypeOK
  <2>2. /\ hp \in Nat /\ hp <= Len(heap)
        /\ tr \in Nat /\ tr <= Len(trail)
    BY <2>1 DEF Mark, IInv, MarksNested
  <2>3. Trailed(trail', tr) = Trailed(trail, tr) \cup {a}
    <3> HIDE DEF tr
    <3>1. (tr + 1) .. Len(trail') = ((tr + 1) .. Len(trail)) \cup {Len(trail) + 1}
      BY <1>1, <2>2
    <3>2. \A j \in (tr + 1) .. Len(trail) : trail'[j] = trail[j]
      BY <1>1, <2>2
    <3>3. QED
      BY <1>1, <3>1, <3>2 DEF Trailed
  <2>4. ASSUME NEW b \in 1 .. hp
        PROVE  (IF b \in Trailed(trail', tr) THEN Ref(b) ELSE heap'[b])
                 = (IF b \in Trailed(trail, tr) THEN Ref(b) ELSE heap[b])
    <3>1. b \in 1 .. Len(heap)
      BY <1>1, <2>2
    <3>2. CASE b = a
      BY <1>1, <2>3, <3>1, <3>2
    <3>3. CASE b # a
      BY <1>1, <2>3, <3>1, <3>3
    <3>4. QED
      BY <3>2, <3>3
  <2>5. QED
    BY <2>2, <2>4, UndoEqual
<1>3. Recovered' = Recovered
  BY <1>1, <1>2, RecoveredStable
<1>4. \A b \in 1 .. Len(heap) : heap[b] # Ref(b) => heap'[b] = heap[b]
  BY <1>1
<1>5. Len(heap') >= Len(heap)
  BY <1>1
<1>6. QED
  BY <1>3, <1>4, <1>5 DEF Snap!Work, Snap!Ref, Ref

(* Making a choice point saves the present memory.                         *)
LEMMA PushChoiceSaves == IInv /\ PushChoice => Snap!Save
<1> SUFFICES ASSUME IInv, PushChoice
             PROVE  Snap!Save
  OBVIOUS
<1> DEFINE m == [hp |-> Len(heap), tr |-> Len(trail)]
<1>1. Len(heap) \in Nat /\ Len(trail) \in Nat /\ Len(choice) \in Nat
  BY LenProperties DEF IInv, TypeOK
<1>2. m \in Mark
  BY <1>1 DEF Mark
<1>3. /\ Len(choice') = Len(choice) + 1
      /\ \A i \in 1 .. Len(choice) : choice'[i] = choice[i]
      /\ choice'[Len(choice) + 1] = m
      /\ heap' = heap /\ trail' = trail
  BY <1>2, AppendProperties DEF PushChoice, IInv, TypeOK
<1>4. Undo(heap, trail, m.hp, m.tr) = heap
  <2>1. Trailed(trail, Len(trail)) = {}
    BY <1>1 DEF Trailed
  <2>2. heap = [a \in 1 .. Len(heap) |-> heap[a]]
    BY LenProperties DEF IInv, TypeOK
  <2>3. QED
    BY <2>1, <2>2 DEF Undo
<1>5. /\ Recovered \in Seq(Seq(Cell)) /\ Len(Recovered) = Len(choice)
      /\ \A i \in 1 .. Len(choice) :
           Recovered[i] = Undo(heap, trail, choice[i].hp, choice[i].tr)
  BY RecoveredFacts DEF CopiesOK
<1>6. IInv'
  BY PushChoiceIInv
<1>7. /\ Recovered' \in Seq(Seq(Cell)) /\ Len(Recovered') = Len(choice) + 1
      /\ \A i \in 1 .. Len(choice) + 1 :
           Recovered'[i] = Undo(heap, trail, choice'[i].hp, choice'[i].tr)
  <2>1. Len(choice') \in Nat
    BY <1>1, <1>3
  <2>2. CopiesOK'
    BY <1>6, RecoveredFacts, PTL
  <2>3. QED
    BY <1>3, <2>2 DEF CopiesOK
<1>8. heap \in Seq(Cell)
  BY DEF IInv, TypeOK
<1>9. /\ Append(Recovered, heap) \in Seq(Seq(Cell))
      /\ Len(Append(Recovered, heap)) = Len(choice) + 1
      /\ \A i \in 1 .. Len(choice) : Append(Recovered, heap)[i] = Recovered[i]
      /\ Append(Recovered, heap)[Len(choice) + 1] = heap
  BY <1>5, <1>8, AppendProperties
<1>10. \A i \in 1 .. Len(choice) + 1 : Recovered'[i] = Append(Recovered, heap)[i]
  <2>1. ASSUME NEW i \in 1 .. Len(choice)
        PROVE  Recovered'[i] = Append(Recovered, heap)[i]
    <3>1. i \in 1 .. Len(choice) + 1
      BY <1>1
    <3>2. Recovered'[i] = Undo(heap, trail, choice'[i].hp, choice'[i].tr)
      BY <1>7, <3>1
    <3>3. choice'[i] = choice[i]
      BY <1>3
    <3>4. QED
      BY <1>5, <1>9, <3>2, <3>3
  <2>2. Recovered'[Len(choice) + 1] = Append(Recovered, heap)[Len(choice) + 1]
    <3>1. Len(choice) + 1 \in 1 .. Len(choice) + 1
      BY <1>1
    <3>2. Recovered'[Len(choice) + 1] = Undo(heap, trail, m.hp, m.tr)
      BY <1>3, <1>7, <3>1
    <3>3. QED
      BY <1>4, <1>9, <3>2
  <2>3. TAKE i \in 1 .. Len(choice) + 1
  <2>4. i \in 1 .. Len(choice) \/ i = Len(choice) + 1
    BY <1>1
  <2>5. QED
    BY <2>1, <2>2, <2>4, Zenon
<1>11. Recovered' = Append(Recovered, heap)
  BY <1>7, <1>9, <1>10, SeqEqual
<1>12. QED
  BY <1>3, <1>11 DEF Snap!Save

(* After restoring, every choice point recalls the memory it recalled.     *)
LEMMA RestoreKeepsRecovered ==
  ASSUME IInv, RestoreTop, NEW i \in 1 .. Len(choice)
  PROVE  Undo(heap', trail', choice[i].hp, choice[i].tr)
           = Undo(heap, trail, choice[i].hp, choice[i].tr)
<1> DEFINE hp == choice[i].hp
           tr == choice[i].tr
           H  == Top.hp
           T  == Top.tr
<1>1. Len(heap) \in Nat /\ Len(trail) \in Nat /\ Len(choice) \in Nat
  BY LenProperties DEF IInv, TypeOK
<1>2. choice # <<>>
  BY DEF RestoreTop
<1>3. /\ Top = choice[Len(choice)] /\ Top \in Mark
      /\ H \in 0 .. Len(heap) /\ T \in 0 .. Len(trail)
  BY <1>2, TopFacts
<1>4. choice[i] \in Mark
  BY ElementOfSeq DEF IInv, TypeOK
<1>5. hp \in Nat /\ tr \in Nat /\ hp <= H /\ tr <= T
  <2>1. i <= Len(choice) /\ Len(choice) \in 1 .. Len(choice)
    BY <1>1
  <2>2. QED
    BY <1>3, <1>4, <2>1 DEF Mark, IInv, MarksNested
<1>6. /\ Len(trail') = T
      /\ \A j \in 1 .. T : trail'[j] = trail[j]
  BY <1>3, PrefixFacts DEF RestoreTop, IInv, TypeOK
<1>7. \A a \in 1 .. H : heap'[a] = IF a \in Trailed(trail, T) THEN Ref(a) ELSE heap[a]
  BY DEF RestoreTop, Undo
<1> HIDE DEF hp, tr, H, T
<1>8. Trailed(trail, tr) = Trailed(trail', tr) \cup Trailed(trail, T)
  <2>1. (tr + 1) .. Len(trail) = ((tr + 1) .. T) \cup ((T + 1) .. Len(trail))
    BY <1>1, <1>3, <1>5
  <2>2. \A j \in (tr + 1) .. T : trail'[j] = trail[j]
    BY <1>3, <1>5, <1>6
  <2>3. QED
    BY <1>6, <2>1, <2>2 DEF Trailed
<1>9. ASSUME NEW a \in 1 .. hp
      PROVE  (IF a \in Trailed(trail', tr) THEN Ref(a) ELSE heap'[a])
               = (IF a \in Trailed(trail, tr) THEN Ref(a) ELSE heap[a])
  <2>1. a \in 1 .. H
    BY <1>3, <1>5
  <2>2. QED
    BY <1>7, <1>8, <2>1
<1>10. QED
  BY <1>5, <1>9, UndoEqual DEF hp, tr

(* The restored heap is the newest copy.                                   *)
LEMMA RestoreIsNewest ==
  ASSUME IInv, RestoreTop
  PROVE  Recovered # <<>> /\ heap' = Recovered[Len(Recovered)]
<1>1. choice # <<>> /\ heap' = Undo(heap, trail, Top.hp, Top.tr)
  BY DEF RestoreTop
<1>2. Len(choice) \in Nat \ {0} /\ Top = choice[Len(choice)]
  BY <1>1, TopFacts
<1>3. QED
  BY <1>1, <1>2, RecoveredFacts, EmptySeq DEF CopiesOK

(* RETRY restores the newest copy and keeps it.                            *)
LEMMA RetryRestores == IInv /\ Retry => Snap!Restore
<1> SUFFICES ASSUME IInv, Retry
             PROVE  Snap!Restore
  OBVIOUS
<1>1. RestoreTop /\ choice' = choice
  BY DEF Retry
<1>2. Recovered' = Recovered
  BY <1>1, RestoreKeepsRecovered, RecoveredStable
<1>3. QED
  BY <1>1, <1>2, RestoreIsNewest DEF Snap!Restore

(* TRUST restores the newest copy and drops it.                            *)
LEMMA TrustRestoresAndPops == IInv /\ Trust => Snap!RestoreAndPop
<1> SUFFICES ASSUME IInv, Trust
             PROVE  Snap!RestoreAndPop
  OBVIOUS
<1> DEFINE n == Len(choice) - 1
<1>1. RestoreTop /\ choice' = SubSeq(choice, 1, n)
  BY DEF Trust
<1>2. Len(choice) \in Nat \ {0}
  BY BacktrackPrefix
<1>3. /\ Len(choice') = n
      /\ \A i \in 1 .. n : choice'[i] = choice[i]
  <2>1. n \in 0 .. Len(choice) /\ choice \in Seq(Mark)
    BY <1>2 DEF IInv, TypeOK
  <2>2. QED
    BY <1>1, <2>1, PrefixFacts
<1>4. /\ Recovered \in Seq(Seq(Cell)) /\ Len(Recovered) = Len(choice)
      /\ \A i \in 1 .. Len(choice) :
           Recovered[i] = Undo(heap, trail, choice[i].hp, choice[i].tr)
  BY RecoveredFacts DEF CopiesOK
<1>5. /\ SubSeq(Recovered, 1, n) \in Seq(Seq(Cell))
      /\ Len(SubSeq(Recovered, 1, n)) = n
      /\ \A i \in 1 .. n : SubSeq(Recovered, 1, n)[i] = Recovered[i]
  BY <1>2, <1>4, PrefixFacts
<1>6. IInv'
  <2>1. n \in 0 .. Len(choice)
    BY <1>2
  <2>2. QED
    BY <1>1, <2>1, RestoreIInv
<1>7. /\ Recovered' \in Seq(Seq(Cell)) /\ Len(Recovered') = n
      /\ \A i \in 1 .. n :
           Recovered'[i] = Undo(heap', trail', choice[i].hp, choice[i].tr)
  <2>1. CopiesOK'
    BY <1>6, RecoveredFacts, PTL
  <2>2. QED
    BY <1>3, <2>1 DEF CopiesOK
<1>8. \A i \in 1 .. n : Recovered'[i] = SubSeq(Recovered, 1, n)[i]
  <2>1. \A i \in 1 .. n : i \in 1 .. Len(choice)
    BY <1>2
  <2>2. QED
    BY <1>1, <1>4, <1>5, <1>7, <2>1, RestoreKeepsRecovered
<1>9. Recovered' = SubSeq(Recovered, 1, n)
  BY <1>5, <1>7, <1>8, SeqEqual
<1>10. QED
  BY <1>1, <1>4, <1>9, RestoreIsNewest DEF Snap!RestoreAndPop

(* Cutting forgets every copy.                                             *)
LEMMA CutCommits == IInv /\ Cut => Snap!Commit
<1> SUFFICES ASSUME IInv, Cut
             PROVE  Snap!Commit
  OBVIOUS
<1>1. choice' = <<>> /\ heap' = heap
  BY DEF Cut
<1>2. Recovered' = <<>>
  BY <1>1, EmptySeq DEF Recovered
<1>3. QED
  BY <1>1, <1>2 DEF Snap!Commit

(* Every call of the store is a step of the store with copies.             *)
LEMMA StepRefines == IInv /\ [Next]_vars => [Snap!Next]_(Snap!storeVars)
<1> SUFFICES ASSUME IInv, [Next]_vars
             PROVE  [Snap!Next]_(Snap!storeVars)
  OBVIOUS
<1> USE DEF Snap!Next
<1>1. ASSUME NEW c \in Cell, Push(c)
      PROVE  Snap!Next
  BY <1>1, PushWorks
<1>2. ASSUME NEW a \in 1 .. Len(heap), NEW c \in Cell, BindCell(a, c)
      PROVE  Snap!Next
  BY <1>2, BindWorks
<1>9. ASSUME NEW a \in 1 .. Len(heap) + 1, NEW f \in Atoms, NEW n \in Nat,
             BindNew(a, f, n)
      PROVE  Snap!Next
  BY <1>9, BindNewWorks
<1>3. CASE PushChoice
  BY <1>3, PushChoiceSaves
<1>4. CASE Retry
  BY <1>4, RetryRestores
<1>5. CASE Trust
  BY <1>5, TrustRestoresAndPops
<1>6. CASE Cut
  BY <1>6, CutCommits
<1>7. CASE UNCHANGED vars
  BY <1>7 DEF vars, Recovered, Snap!storeVars
<1>8. QED
  BY <1>1, <1>2, <1>3, <1>4, <1>5, <1>6, <1>7, <1>9 DEF Next

(***************************************************************************)
(* Backtracking through the trail restores exactly the memory of the time  *)
(* the choice point was made: the store of the machine implements the      *)
(* store with copies.                                                      *)
(***************************************************************************)
THEOREM Refinement == Spec => ImplementsSnapshots
<1>1. Init => Snap!Init
  BY EmptySeq DEF Init, Snap!Init, Recovered
<1>2. IInv /\ [Next]_vars => [Snap!Next]_(Snap!storeVars)
  BY StepRefines
<1>3. QED
  BY <1>1, <1>2, InvariantHolds, PTL DEF Spec, ImplementsSnapshots, Snap!Spec
=============================================================================
