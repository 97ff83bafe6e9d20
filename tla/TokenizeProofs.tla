--------------------------- MODULE TokenizeProofs ---------------------------
(***************************************************************************)
(* For every text and every limit: the cursor stays in the text, what is   *)
(* pushed are tokens within their limits, every turn of the loops reads    *)
(* on, and what is returned is what the lexical grammar says.  The first   *)
(* three need of the scanners where a run of characters ends.  The last    *)
(* relates the cursor to the reference: what is pushed and what the        *)
(* reference says of the place after the cursor are what it says of the    *)
(* whole text.  The reference is a function defined by itself at later     *)
(* places; that it satisfies its equation is proved from the last place    *)
(* where it would not.                                                     *)
(***************************************************************************)
EXTENDS Tokenize, SequenceTheorems, WellFoundedInduction, TLAPS

(* What a step relies on.                                                  *)
Typed == text \in Seq(STRING) /\ TypeOK

-----------------------------------------------------------------------------
LEMMA MinOf ==
  ASSUME NEW S, S \subseteq Nat, S # {}
  PROVE  Min(S) \in S /\ \A y \in S : Min(S) <= y
<1>1. PICK x \in S : \A y \in S : ~(<<y, x>> \in OpToRel(<, Nat))
  BY NatLessThanWellFounded, WFMin
<1>2. OpToRel(<, Nat) = {ss \in Nat \X Nat : ss[1] < ss[2]}
  BY Zenon DEF OpToRel
<1>3. \A y \in S : <<y, x>> \notin {ss \in Nat \X Nat : ss[1] < ss[2]}
  BY <1>1, <1>2
<1>4. ASSUME NEW y \in S PROVE x <= y
  <2>1. x \in Nat /\ y \in Nat /\ <<y, x>> \in Nat \X Nat
    OBVIOUS
  <2>2. ~(y < x)
    BY <1>3, <2>1
  <2> QED
    BY <2>1, <2>2
<1> QED
  BY <1>4 DEF Min

-----------------------------------------------------------------------------
(* Past the end there is no character.                                     *)
LEMMA Ahead ==
  ASSUME Typed
  PROVE  /\ pos \in Nat /\ Len(text) \in Nat /\ DOMAIN text = 1 .. Len(text)
         /\ \A k \in Nat \ {0} : At(k) # "end" => k <= Len(text)
         /\ Peek # "end" => pos + 1 \in 1 .. Len(text)
         /\ Peek1 # "end" => pos + 2 \in 1 .. Len(text)
<1>1. pos \in Nat /\ Len(text) \in Nat /\ DOMAIN text = 1 .. Len(text) /\ pos <= Len(text)
  BY DEF Typed, TypeOK
<1>2. \A k \in Nat \ {0} : At(k) # "end" => k <= Len(text)
  BY <1>1 DEF At
<1>3. Peek # "end" => pos + 1 \in 1 .. Len(text)
  BY <1>1, <1>2 DEF Peek
<1>4. Peek1 # "end" => pos + 2 \in 1 .. Len(text)
  BY <1>1, <1>2 DEF Peek1
<1> QED
  BY <1>1, <1>2, <1>3, <1>4

(* A run begins at i or is empty, ends in the text and is all of S.        *)
LEMMA RunEnds ==
  ASSUME Typed, NEW S, "end" \notin S, NEW i \in 1 .. Len(text) + 1
  PROVE  /\ RunEnd(S, i) \in i - 1 .. Len(text)
         /\ \A k \in i .. RunEnd(S, i) : At(k) \in S
         /\ At(i) \in S => RunEnd(S, i) >= i
         /\ At(RunEnd(S, i) + 1) \notin S
<1> DEFINE Stops == {j \in i .. Len(text) + 1 : At(j) \notin S}
<1>1. Len(text) \in Nat /\ i \in Nat
  BY Ahead
<1>2. At(Len(text) + 1) = "end"
  BY <1>1, Ahead DEF At
<1>3. Len(text) + 1 \in Stops
  BY <1>1, <1>2
<1>4. Stops \subseteq Nat /\ Stops # {}
  BY <1>1, <1>3
<1> DEFINE m == Min(Stops)
<1>5. m \in Stops /\ \A y \in Stops : m <= y
  BY <1>4, MinOf
<1>6. RunEnd(S, i) = m - 1
  BY DEF RunEnd
<1> HIDE DEF m
<1>7. m \in i .. Len(text) + 1 /\ At(m) \notin S
  BY <1>5
<1>8. RunEnd(S, i) \in i - 1 .. Len(text)
  BY <1>1, <1>6, <1>7
<1>9. ASSUME NEW k \in i .. RunEnd(S, i) PROVE At(k) \in S
  <2>1. k \in i .. Len(text) + 1 /\ ~(m <= k)
    BY <1>1, <1>6, <1>7, <1>8
  <2> QED
    BY <1>5, <2>1
<1>10. ASSUME At(i) \in S PROVE RunEnd(S, i) >= i
  <2>1. m # i
    BY <1>7, <1>10
  <2> QED
    BY <1>1, <1>6, <1>7, <2>1
<1>11. RunEnd(S, i) + 1 = m
  BY <1>1, <1>6, <1>7
<1> QED
  BY <1>7, <1>8, <1>9, <1>10, <1>11

LEMMA NoEnd == "end" \notin Digits /\ "end" \notin Ident /\ "end" \notin Lower \cup Upper \cup {"_"}
<1>1. "end" \notin Digits
  BY DEF Digits, Digit
<1>2. "end" \notin Lower /\ "end" \notin Upper
  BY DEF Lower, Upper
<1> QED
  BY <1>1, <1>2 DEF Ident

-----------------------------------------------------------------------------
(* What the actions end with.                                              *)
ReadOn == result' = Scans => pos' > pos

LEMMA Refuses ==
  ASSUME Typed, NEW e \in Errors, NEW at \in 0 .. Len(text), Refuse(e, at), UNCHANGED text
  PROVE  Typed' /\ ReadOn
<1>1. result' \in Errors \X (0 .. Len(text)) /\ result' # Scans
  BY DEF Refuse, Scans
<1>2. UNCHANGED <<text, pos, out>>
  BY DEF Refuse
<1> QED
  BY <1>1, <1>2 DEF Typed, TypeOK, ReadOn

LEMMA Skips ==
  ASSUME Typed, NEW to \in pos + 1 .. Len(text), Skip(to), UNCHANGED text
  PROVE  Typed' /\ ReadOn
<1>1. pos' = to /\ UNCHANGED <<text, out, result>>
  BY DEF Skip
<1>2. pos' \in 0 .. Len(text) /\ pos' > pos
  BY <1>1, Ahead
<1> QED
  BY <1>1, <1>2 DEF Typed, TypeOK, ReadOn

LEMMA Pushes ==
  ASSUME Typed, NEW token \in Tokens, Len(out) < MaxTokens, out' = Append(out, token)
  PROVE  out' \in Seq(Tokens) /\ Len(out') <= MaxTokens
BY TokenizeAssumption DEF Typed, TypeOK

LEMMA Emits ==
  ASSUME Typed, NEW token \in Tokens, NEW to \in pos + 1 .. Len(text), Emit(token, to),
         UNCHANGED text
  PROVE  Typed' /\ ReadOn
<1>1. CASE Push(token, to) /\ UNCHANGED result
  <2>1. out' \in Seq(Tokens) /\ Len(out') <= MaxTokens
    BY <1>1, Pushes DEF Push
  <2>2. pos' = to /\ pos' \in 0 .. Len(text) /\ pos' > pos
    BY <1>1, Ahead DEF Push
  <2> QED
    BY <1>1, <2>1, <2>2 DEF Typed, TypeOK, ReadOn
<1>2. CASE Refuse("Overflow", 0)
  <2>1. "Overflow" \in Errors /\ 0 \in 0 .. Len(text)
    BY Ahead DEF Errors
  <2> QED
    BY <1>2, <2>1, Refuses
<1> QED
  BY <1>1, <1>2 DEF Emit

-----------------------------------------------------------------------------
(* The scanners.                                                           *)
LEMMA Blanks ==
  ASSUME Typed, SkipOver
  PROVE  Typed' /\ ReadOn
<1>0. pos \in Nat /\ Len(text) \in Nat
  BY Ahead
<1>1. CASE SkipBlank
  <2>1. pos + 1 \in 1 .. Len(text)
    BY <1>1, Ahead DEF SkipBlank, Blank
  <2> QED
    BY <1>0, <1>1, <2>1, Skips DEF SkipBlank, Scanning
<1>2. CASE SkipLineComment
  <2> DEFINE S == {j \in pos + 1 .. Len(text) : text[j] = "\n"} \cup {Len(text)}
  <2>1. pos + 1 \in 1 .. Len(text)
    BY <1>2, Ahead DEF SkipLineComment
  <2>2. S \subseteq Nat /\ S # {} /\ S \subseteq pos + 1 .. Len(text)
    BY <1>0, <2>1
  <2>3. Min(S) \in pos + 1 .. Len(text)
    BY <2>2, MinOf
  <2>4. Skip(Min(S)) /\ UNCHANGED text
    BY <1>2 DEF SkipLineComment, Scanning
  <2> HIDE DEF S
  <2> QED
    BY <2>3, <2>4, Skips
<1>3. CASE SkipBlockComment
  <2>1. Closings \subseteq Nat /\ Closings # {}
    BY <1>0, <1>3 DEF SkipBlockComment, Closings
  <2>2. Min(Closings) \in Closings
    BY <2>1, MinOf
  <2>3. Min(Closings) + 1 \in pos + 1 .. Len(text)
    BY <1>0, <2>2 DEF Closings
  <2> QED
    BY <1>3, <2>3, Skips DEF SkipBlockComment, InBlockComment, Scanning
<1>4. CASE Unterminated
  <2>1. "UnterminatedBlockComment" \in Errors /\ pos \in 0 .. Len(text)
    BY DEF Errors, Typed, TypeOK
  <2> QED
    BY <1>4, <2>1, Refuses DEF Unterminated, InBlockComment, Scanning
<1> QED
  BY <1>1, <1>2, <1>3, <1>4 DEF SkipOver

LEMMA Identifiers ==
  ASSUME Typed, NEW kind \in {"Atom", "Var"}, NEW first \in SUBSET Ident, ScanIdent(kind, first)
  PROVE  Typed' /\ ReadOn
<1> DEFINE to == RunEnd(Ident, pos + 1)
           word == SubSeq(text, pos + 1, to)
<1>1. Peek \in first /\ Peek # "end" /\ UNCHANGED text
  BY NoEnd DEF ScanIdent, Scanning
<1>2. pos + 1 \in 1 .. Len(text) /\ pos \in Nat /\ Len(text) \in Nat
  BY <1>1, Ahead
<1>3. /\ to \in pos .. Len(text) /\ to >= pos + 1
      /\ \A k \in pos + 1 .. to : At(k) \in Ident
  BY <1>1, <1>2, NoEnd, RunEnds DEF Peek
<1>4. to \in pos + 1 .. Len(text)
  BY <1>2, <1>3
<1>5. CASE to - pos <= AtomCap
  <2> HIDE DEF to
  <2>1. \A k \in pos + 1 .. to : text[k] \in Ident
    <3> SUFFICES ASSUME NEW k \in pos + 1 .. to PROVE text[k] \in Ident
      OBVIOUS
    <3>1. k \in DOMAIN text
      BY <1>2, <1>4, Ahead
    <3> QED
      BY <1>3, <3>1 DEF At
  <2>2. word \in Seq(Ident) /\ Len(word) = to - pos
    BY <1>2, <1>4, <2>1, SubSeqProperties
  <2> HIDE DEF word
  <2>3. word \in [1 .. Len(word) -> Ident] /\ Len(word) \in 1 .. AtomCap
    BY <1>2, <1>4, <1>5, <2>2, TokenizeAssumption
  <2>4. word \in Names
    BY <2>3 DEF Names
  <2>5. <<kind, word>> \in Tokens
    BY <2>4 DEF Tokens
  <2>6. Emit(<<kind, word>>, to)
    BY <1>5 DEF ScanIdent, to, word
  <2> QED
    BY <1>1, <1>4, <2>5, <2>6, Emits
<1>6. CASE ~(to - pos <= AtomCap)
  <2>1. Refuse("IdentTooLong", pos)
    BY <1>6 DEF ScanIdent
  <2>2. "IdentTooLong" \in Errors /\ pos \in 0 .. Len(text)
    BY DEF Errors, Typed, TypeOK
  <2> QED
    BY <1>1, <2>1, <2>2, Refuses
<1> QED
  BY <1>5, <1>6

LEMMA Numbers ==
  ASSUME Typed, ScanInt
  PROVE  Typed' /\ ReadOn
<1> DEFINE from == IF Signed THEN pos + 2 ELSE pos + 1
           to   == RunEnd(Digits, from)
           size == NumberOf(SubSeq(text, from, to))
           n    == IF Signed THEN -size ELSE size
<1>1. /\ Peek \in Digits \/ Signed
      /\ UNCHANGED text
      /\ IF n \in -IntMax - 1 .. IntMax THEN Emit(<<"Int", n>>, to) ELSE Refuse("IntOverflow", pos)
  BY DEF ScanInt, Scanning
<1>2. from \in pos + 1 .. pos + 2 /\ from \in 1 .. Len(text) /\ At(from) \in Digits
      /\ pos \in Nat /\ Len(text) \in Nat
  <2>1. CASE Signed
    <3>1. Peek1 \in Digits /\ from = pos + 2
      BY <2>1 DEF Signed
    <3> QED
      BY <3>1, NoEnd, Ahead DEF Peek1
  <2>2. CASE ~Signed
    <3>1. Peek \in Digits /\ from = pos + 1
      BY <1>1, <2>2
    <3> QED
      BY <3>1, NoEnd, Ahead DEF Peek
  <2> QED
    BY <2>1, <2>2
<1> HIDE DEF from
<1>3. to \in from - 1 .. Len(text) /\ to >= from
  BY <1>2, NoEnd, RunEnds
<1>4. to \in pos + 1 .. Len(text)
  BY <1>2, <1>3
<1> HIDE DEF n, to
<1>5. CASE n \in -IntMax - 1 .. IntMax
  <2>1. <<"Int", n>> \in Tokens
    BY <1>5 DEF Tokens
  <2> QED
    BY <1>1, <1>4, <1>5, <2>1, Emits
<1>6. CASE n \notin -IntMax - 1 .. IntMax
  <2>1. "IntOverflow" \in Errors /\ pos \in 0 .. Len(text)
    BY DEF Errors, Typed, TypeOK
  <2> QED
    BY <1>1, <1>6, <2>1, Refuses
<1> QED
  BY <1>5, <1>6

LEMMA Signs ==
  ASSUME Typed, Pair \/ Punctuation \/ InvalidChar
  PROVE  Typed' /\ ReadOn
<1>1. CASE Pair
  <2>1. PICK t \in {<<":", "-", "Neck">>, <<"?", "-", "Query">>, <<"\\", "+", "Not">>} :
          Scanning /\ Peek1 = t[2] /\ Emit(<<t[3]>>, pos + 2)
    BY <1>1 DEF Pair
  <2>2. <<t[3]>> \in Tokens /\ Peek1 # "end"
    BY <2>1 DEF Tokens
  <2>3. pos + 2 \in pos + 1 .. Len(text)
    BY <2>2, Ahead
  <2> QED
    BY <2>1, <2>2, <2>3, Emits DEF Scanning
<1>2. CASE Punctuation
  <2>1. Peek \in DOMAIN Punct /\ Emit(<<Punct[Peek]>>, pos + 1) /\ UNCHANGED text
    BY <1>2 DEF Punctuation, Scanning
  <2>2. <<Punct[Peek]>> \in {<<Punct[c]>> : c \in DOMAIN Punct}
    BY <2>1
  <2>3. <<Punct[Peek]>> \in Tokens
    BY ONLY <2>2 DEF Tokens
  <2>4. "end" \notin DOMAIN Punct
    BY ONLY DEF Punct
  <2>5. pos + 1 \in pos + 1 .. Len(text)
    BY <2>1, <2>4, Ahead
  <2> QED
    BY <2>1, <2>3, <2>5, Emits
<1>3. CASE InvalidChar
  <2>1. "InvalidChar" \in Errors /\ pos \in 0 .. Len(text)
    BY DEF Errors, Typed, TypeOK
  <2> QED
    BY <1>3, <2>1, Refuses DEF InvalidChar, Scanning
<1> QED
  BY <1>1, <1>2, <1>3

LEMMA Ends ==
  ASSUME Typed, Finish
  PROVE  Typed' /\ ReadOn
<1>1. CASE Push(<<"Eof">>, pos) /\ result' = Okay
  <2>1. <<"Eof">> \in Tokens
    BY DEF Tokens
  <2>2. out' \in Seq(Tokens) /\ Len(out') <= MaxTokens
    BY <1>1, <2>1, Pushes DEF Push
  <2>3. result' # Scans
    BY <1>1 DEF Okay, Scans
  <2> QED
    BY <1>1, <2>2, <2>3 DEF Finish, Scanning, Push, Typed, TypeOK, ReadOn
<1>2. CASE Refuse("Overflow", 0)
  <2>1. "Overflow" \in Errors /\ 0 \in 0 .. Len(text)
    BY Ahead DEF Errors
  <2> QED
    BY <1>2, <2>1, Refuses DEF Finish, Scanning
<1> QED
  BY <1>1, <1>2 DEF Finish

LEMMA EachTurn ==
  ASSUME Typed, Step
  PROVE  Typed' /\ ReadOn
<1>1. CASE ScanAtom
  <2>1. Lower \in SUBSET Ident
    BY DEF Ident
  <2> QED
    BY <1>1, <2>1, Identifiers DEF ScanAtom
<1>2. CASE ScanVar
  <2>1. Upper \cup {"_"} \in SUBSET Ident
    BY DEF Ident
  <2> QED
    BY <1>2, <2>1, Identifiers DEF ScanVar
<1> QED
  BY <1>1, <1>2, Blanks, Numbers, Signs, Ends DEF Step, NextToken

-----------------------------------------------------------------------------
LEMMA InitTyped == Init => Typed
<1> SUFFICES ASSUME Init PROVE Typed
  OBVIOUS
<1>1. text \in Seq(STRING) /\ 0 \in 0 .. Len(text)
  BY TokenizeAssumption DEF Init
<1>2. <<>> \in Seq(Tokens) /\ Len(<<>>) = 0
  OBVIOUS
<1> QED
  BY <1>1, <1>2, TokenizeAssumption DEF Init, Typed, TypeOK

LEMMA StaysTyped == Typed /\ [Next]_vars => Typed' /\ (ReadOn \/ UNCHANGED vars)
<1> SUFFICES ASSUME Typed, [Next]_vars PROVE Typed' /\ (ReadOn \/ UNCHANGED vars)
  OBVIOUS
<1>1. CASE Step
  BY <1>1, EachTurn
<1>2. CASE UNCHANGED vars
  BY <1>2 DEF vars, Typed, TypeOK
<1> QED
  BY <1>1, <1>2 DEF Next, Ended

(***************************************************************************)
(* Whatever the text, the cursor stays within it, names fit their buffers  *)
(* and numbers an i32, and no more tokens are pushed than there is room    *)
(* for.                                                                    *)
(***************************************************************************)
THEOREM TypeCorrect == Spec => []TypeOK
<1>1. Spec => []Typed
  BY InitTyped, StaysTyped, PTL DEF Spec
<1>2. Typed => TypeOK
  BY DEF Typed
<1> QED
  BY <1>1, <1>2, PTL

(***************************************************************************)
(* Every turn of the loops either ends tokenize or reads at least one more *)
(* character: there are no more turns than characters, and one.            *)
(***************************************************************************)
THEOREM EveryTurnReads == Spec => [][ReadOn]_vars
<1>1. Spec => []Typed
  BY InitTyped, StaysTyped, PTL DEF Spec
<1>2. Typed /\ [Next]_vars => [ReadOn]_vars
  BY StaysTyped
<1> QED
  BY <1>1, <1>2, PTL DEF Spec

-----------------------------------------------------------------------------
(* The reference: what Lexed says of a text s, place by place.             *)

From(s) ==
  LET F[i \in 1 .. Len(s) + 1] == LexedAt(s, F, i)
  IN  F

LEMMA MaxOf ==
  ASSUME NEW n \in Nat, NEW S, S \subseteq 1 .. n, S # {}
  PROVE  Max(S) \in S /\ \A y \in S : y <= Max(S)
<1> DEFINE D == {n - x : x \in S}
<1>1. D \subseteq Nat /\ D # {}
  <2>1. \A x \in S : n - x \in Nat
    OBVIOUS
  <2>2. PICK x : x \in S
    OBVIOUS
  <2>3. n - x \in D
    BY <2>2
  <2> QED
    BY <2>1, <2>3
<1>2. Min(D) \in D /\ \A y \in D : Min(D) <= y
  BY <1>1, MinOf
<1>3. PICK x \in S : Min(D) = n - x
  BY <1>2
<1>4. ASSUME NEW y \in S PROVE x >= y
  <2>1. n - x <= n - y
    BY <1>2, <1>3
  <2> QED
    BY <2>1
<1> HIDE DEF D
<1> QED
  BY <1>4 DEF Max

(* The greatest element is the one that none exceeds.                      *)
LEMMA MaxIs ==
  ASSUME NEW n \in Nat, NEW S, S \subseteq 1 .. n, NEW x \in S, \A y \in S : y <= x
  PROVE  Max(S) = x
<1> DEFINE m == Max(S)
<1>1. m \in S /\ \A y \in S : y <= m
  BY MaxOf
<1> HIDE DEF m
<1>2. m <= x /\ x <= m /\ m \in Nat /\ x \in Nat
  BY <1>1
<1> QED
  BY <1>2 DEF m

(* What Lexed says of a place, it reads off what it says of later places.  *)
LEMMA SameAhead ==
  ASSUME NEW s \in Seq(STRING), NEW i \in 1 .. Len(s) + 1, NEW F, NEW G,
         \A k \in i + 1 .. Len(s) + 1 : F[k] = G[k]
  PROVE  LexedAt(s, F, i) = LexedAt(s, G, i)
<1> DEFINE skips == {j \in i .. Len(s) : Skipped(s, i, j)}
           ends  == {j \in i .. Len(s) : Lexemes(s, i, j) # {}}
<1>1. Len(s) \in Nat
  OBVIOUS
<1>2. skips \subseteq 1 .. Len(s) /\ ends \subseteq 1 .. Len(s)
  BY <1>1
<1>3. skips # {} => F[Max(skips) + 1] = G[Max(skips) + 1]
  <2> SUFFICES ASSUME skips # {} PROVE F[Max(skips) + 1] = G[Max(skips) + 1]
    OBVIOUS
  <2>1. Max(skips) \in skips
    BY <1>1, <1>2, MaxOf
  <2>2. Max(skips) \in i .. Len(s)
    BY <2>1
  <2> HIDE DEF skips
  <2> QED
    BY <1>1, <2>2
<1>4. ends # {} => F[Max(ends) + 1] = G[Max(ends) + 1]
  <2> SUFFICES ASSUME ends # {} PROVE F[Max(ends) + 1] = G[Max(ends) + 1]
    OBVIOUS
  <2>1. Max(ends) \in ends
    BY <1>1, <1>2, MaxOf
  <2>2. Max(ends) \in i .. Len(s)
    BY <2>1
  <2> HIDE DEF ends
  <2> QED
    BY <1>1, <2>2
<1> DEFINE token == CHOOSE t \in Lexemes(s, i, Max(ends)) : TRUE
           wrong == Refusals(token, i)
           err   == CHOOSE e \in wrong : TRUE
           none  == <<IF Opening(s, i) THEN "UnterminatedBlockComment" ELSE "InvalidChar", i - 1>>
           At2(H) == IF i > Len(s) THEN [tokens |-> <<>>, end |-> Okay]
                     ELSE IF skips # {} THEN H[Max(skips) + 1]
                     ELSE IF ends = {} THEN [tokens |-> <<>>, end |-> none]
                     ELSE IF wrong # {} THEN [tokens |-> <<>>, end |-> err]
                     ELSE [tokens |-> <<token>> \o H[Max(ends) + 1].tokens,
                           end |-> H[Max(ends) + 1].end]
<1>5. LexedAt(s, F, i) = At2(F) /\ LexedAt(s, G, i) = At2(G)
  BY DEF LexedAt
<1> HIDE DEF skips, ends, token, wrong, err, none
<1>6. At2(F) = At2(G)
  BY <1>3, <1>4
<1> QED
  BY <1>5, <1>6

(***************************************************************************)
(* There is a function that satisfies the equation From is defined by:     *)
(* otherwise take the last place from which on there is none.              *)
(***************************************************************************)
LEMMA FromEquation ==
  ASSUME NEW s \in Seq(STRING)
  PROVE  From(s) = [i \in 1 .. Len(s) + 1 |-> LexedAt(s, From(s), i)]
<1> DEFINE n == Len(s)
           Part(k, f) == f = [i \in k .. n + 1 |-> LexedAt(s, f, i)]
           Some(k) == \E f : Part(k, f)
           Bad == {m \in 0 .. n + 1 : ~Some(n + 2 - m)}
<1>1. n \in Nat
  OBVIOUS
<1> HIDE DEF n, Some
<1>0. /\ \A m \in Bad : m \in 0 .. n + 1 /\ ~Some(n + 2 - m)
      /\ \A m \in 0 .. n + 1 : m \notin Bad => Some(n + 2 - m)
  OBVIOUS
<1> HIDE DEF Bad
<1>2. ASSUME Bad # {} PROVE FALSE
  <2> DEFINE m == Min(Bad)
  <2>1. Bad \subseteq Nat
    BY <1>0, <1>1
  <2>2. m \in Bad /\ \A y \in Bad : m <= y
    BY <1>2, <2>1, MinOf
  <2>3. m \in 0 .. n + 1 /\ ~Some(n + 2 - m)
    BY <1>0, <2>2
  <2> HIDE DEF m
  <2>4. m # 0
    <3> DEFINE f == [i \in n + 2 .. n + 1 |-> 0]
    <3>1. \A i : i \notin n + 2 .. n + 1
      BY <1>1
    <3>2. Part(n + 2, f)
      BY <3>1
    <3>3. n + 2 - 0 = n + 2
      BY <1>1
    <3> QED
      BY <2>3, <3>2, <3>3 DEF Some
  <2>5. m - 1 \in 0 .. n + 1 /\ m - 1 \notin Bad
    BY <1>1, <2>2, <2>3, <2>4
  <2> DEFINE k == n + 2 - m
  <2>6. k \in 1 .. n + 1 /\ n + 2 - (m - 1) = k + 1
    BY <1>1, <2>3, <2>4
  <2>7. Some(n + 2 - (m - 1))
    BY <1>0, <2>5
  <2>8. ~Some(k)
    BY <2>3
  <2> HIDE DEF k
  <2>9. PICK f : Part(k + 1, f)
    BY <2>6, <2>7 DEF Some
  <2> DEFINE g == [i \in k .. n + 1 |-> IF i = k THEN LexedAt(s, f, k) ELSE f[i]]
  <2>10. \A i \in k + 1 .. n + 1 : g[i] = f[i] /\ f[i] = LexedAt(s, f, i)
    <3>1. \A i \in k + 1 .. n + 1 : f[i] = LexedAt(s, f, i)
      BY <2>9
    <3>2. \A i \in k + 1 .. n + 1 : i \in k .. n + 1 /\ i # k
      BY <1>1, <2>6
    <3> QED
      BY <3>1, <3>2
  <2>11. g[k] = LexedAt(s, f, k)
    BY <1>1, <2>6
  <2>12. g = [i \in k .. n + 1 |-> g[i]]
    OBVIOUS
  <2> HIDE DEF g
  <2>13. ASSUME NEW i \in k .. n + 1 PROVE g[i] = LexedAt(s, g, i)
    <3>1. \A j \in i + 1 .. n + 1 : f[j] = g[j]
      BY <1>1, <2>6, <2>10, <2>13
    <3>2. i \in 1 .. n + 1
      BY <1>1, <2>6, <2>13
    <3>3. LexedAt(s, f, i) = LexedAt(s, g, i)
      BY <3>1, <3>2, SameAhead DEF n
    <3>4. g[i] = LexedAt(s, f, i)
      BY <1>1, <2>6, <2>10, <2>11, <2>13
    <3> QED
      BY <3>3, <3>4
  <2>14. Part(k, g)
    BY <2>12, <2>13
  <2> QED
    BY <2>8, <2>14 DEF Some
<1>3. n + 1 \notin Bad /\ n + 1 \in 0 .. n + 1
  BY <1>1, <1>2
<1>4. PICK f : Part(n + 2 - (n + 1), f)
  BY <1>0, <1>3 DEF Some
<1>5. n + 2 - (n + 1) = 1
  BY <1>1
<1>6. f = [i \in 1 .. n + 1 |-> LexedAt(s, f, i)]
  BY <1>4, <1>5
<1> QED
  BY <1>6 DEF From, n

LEMMA FromPlaces ==
  ASSUME NEW s \in Seq(STRING)
  PROVE  /\ Lexed(s) = From(s)[1]
         /\ \A i \in 1 .. Len(s) + 1 : From(s)[i] = LexedAt(s, From(s), i)
<1>1. Lexed(s) = From(s)[1]
  BY DEF Lexed, From
<1> DEFINE F == From(s)
<1>2. F = [i \in 1 .. Len(s) + 1 |-> LexedAt(s, F, i)]
  BY FromEquation
<1> HIDE DEF F
<1>3. \A i \in 1 .. Len(s) + 1 : F[i] = LexedAt(s, F, i)
  BY <1>2
<1> QED
  BY <1>1, <1>3 DEF F

-----------------------------------------------------------------------------
(* The equation, case by case.                                             *)
LEMMA FromEnd ==
  ASSUME NEW s \in Seq(STRING)
  PROVE  From(s)[Len(s) + 1] = [tokens |-> <<>>, end |-> Okay]
<1>1. Len(s) + 1 \in 1 .. Len(s) + 1 /\ Len(s) + 1 > Len(s)
  OBVIOUS
<1>2. From(s)[Len(s) + 1] = LexedAt(s, From(s), Len(s) + 1)
  BY <1>1, FromPlaces
<1> QED
  BY <1>1, <1>2 DEF LexedAt

LEMMA FromSkip ==
  ASSUME NEW s \in Seq(STRING), NEW i \in 1 .. Len(s), NEW j \in i .. Len(s),
         Skipped(s, i, j), \A k \in i .. Len(s) : Skipped(s, i, k) => k <= j
  PROVE  From(s)[i] = From(s)[j + 1]
<1> DEFINE skips == {k \in i .. Len(s) : Skipped(s, i, k)}
<1>1. Len(s) \in Nat /\ i \in 1 .. Len(s) + 1 /\ ~(i > Len(s))
  OBVIOUS
<1>2. skips \subseteq 1 .. Len(s) /\ j \in skips /\ \A k \in skips : k <= j
  BY <1>1
<1>3. Max(skips) = j
  BY <1>1, <1>2, MaxIs
<1>4. From(s)[i] = LexedAt(s, From(s), i)
  BY <1>1, FromPlaces
<1>5. LexedAt(s, From(s), i) = From(s)[Max(skips) + 1]
  BY <1>1, <1>2 DEF LexedAt
<1> QED
  BY <1>3, <1>4, <1>5

NoSkip(s, i) == \A k \in i .. Len(s) : ~Skipped(s, i, k)

LEMMA FromNothing ==
  ASSUME NEW s \in Seq(STRING), NEW i \in 1 .. Len(s), NoSkip(s, i),
         \A k \in i .. Len(s) : Lexemes(s, i, k) = {}
  PROVE  From(s)[i] =
           [tokens |-> <<>>,
            end    |-> <<IF Opening(s, i) THEN "UnterminatedBlockComment" ELSE "InvalidChar", i - 1>>]
<1>1. Len(s) \in Nat /\ i \in 1 .. Len(s) + 1 /\ ~(i > Len(s))
  OBVIOUS
<1>2. {k \in i .. Len(s) : Skipped(s, i, k)} = {}
  BY DEF NoSkip
<1>3. {k \in i .. Len(s) : Lexemes(s, i, k) # {}} = {}
  OBVIOUS
<1>4. From(s)[i] = LexedAt(s, From(s), i)
  BY <1>1, FromPlaces
<1> QED
  BY <1>1, <1>2, <1>3, <1>4 DEF LexedAt

(* The token at i is t and ends at j.                                      *)
Longest(s, i, j, t) ==
  /\ j \in i .. Len(s)
  /\ Lexemes(s, i, j) = {t}
  /\ \A k \in i .. Len(s) : Lexemes(s, i, k) # {} => k <= j

(* What the reference says of a place with such a token.                   *)
Cut(s, i, j, t) ==
  IF Refusals(t, i) # {} THEN [tokens |-> <<>>, end |-> CHOOSE e \in Refusals(t, i) : TRUE]
  ELSE [tokens |-> <<t>> \o From(s)[j + 1].tokens, end |-> From(s)[j + 1].end]

LEMMA FromFirst ==
  ASSUME NEW s \in Seq(STRING), NEW i \in 1 .. Len(s), NEW j, NEW t,
         NoSkip(s, i), Longest(s, i, j, t)
  PROVE  From(s)[i] = Cut(s, i, j, t)
<1> DEFINE skips == {k \in i .. Len(s) : Skipped(s, i, k)}
           ends  == {k \in i .. Len(s) : Lexemes(s, i, k) # {}}
           token == CHOOSE u \in Lexemes(s, i, Max(ends)) : TRUE
           wrong == Refusals(token, i)
<1>1. Len(s) \in Nat /\ i \in 1 .. Len(s) + 1 /\ ~(i > Len(s))
  OBVIOUS
<1>2. skips = {}
  BY DEF NoSkip
<1>3. ends \subseteq 1 .. Len(s) /\ j \in ends /\ \A k \in ends : k <= j
  <2>1. /\ j \in i .. Len(s) /\ Lexemes(s, i, j) # {}
        /\ \A k \in i .. Len(s) : Lexemes(s, i, k) # {} => k <= j
    BY DEF Longest
  <2> QED
    BY <1>1, <2>1
<1>4. Max(ends) = j
  BY <1>1, <1>3, MaxIs
<1>5. token = t
  BY <1>4 DEF Longest
<1>6. From(s)[i] = LexedAt(s, From(s), i)
  BY <1>1, FromPlaces
<1>7. LexedAt(s, From(s), i) =
        IF wrong # {} THEN [tokens |-> <<>>, end |-> CHOOSE e \in wrong : TRUE]
        ELSE [tokens |-> <<token>> \o From(s)[Max(ends) + 1].tokens,
              end |-> From(s)[Max(ends) + 1].end]
  BY <1>1, <1>2, <1>3 DEF LexedAt
<1> HIDE DEF ends, token, skips
<1> QED
  BY <1>4, <1>5, <1>6, <1>7 DEF Cut

LEMMA FromLexeme ==
  ASSUME NEW s \in Seq(STRING), NEW i \in 1 .. Len(s), NEW j, NEW t,
         NoSkip(s, i), Longest(s, i, j, t), Refusals(t, i) = {}
  PROVE  From(s)[i] = [tokens |-> <<t>> \o From(s)[j + 1].tokens, end |-> From(s)[j + 1].end]
<1>1. From(s)[i] = Cut(s, i, j, t)
  BY FromFirst
<1> QED
  BY <1>1 DEF Cut

LEMMA FromWrong ==
  ASSUME NEW s \in Seq(STRING), NEW i \in 1 .. Len(s), NEW j, NEW t, NEW e,
         NoSkip(s, i), Longest(s, i, j, t), Refusals(t, i) = {e}
  PROVE  From(s)[i] = [tokens |-> <<>>, end |-> e]
<1>1. Refusals(t, i) # {} /\ (CHOOSE x \in Refusals(t, i) : TRUE) = e
  OBVIOUS
<1>2. From(s)[i] = Cut(s, i, j, t)
  BY FromFirst
<1> QED
  BY <1>1, <1>2 DEF Cut

(* What a text is cut into is a sequence of its lexemes.                   *)
Pieces(s) == UNION {Lexemes(s, i, j) : i \in 1 .. Len(s), j \in 1 .. Len(s)}

LEMMA FromType ==
  ASSUME NEW s \in Seq(STRING), NEW i \in 1 .. Len(s) + 1
  PROVE  From(s)[i].tokens \in Seq(Pieces(s))
<1> DEFINE F == From(s)
           Bad == {k \in 1 .. Len(s) + 1 : F[k].tokens \notin Seq(Pieces(s))}
           m == Max(Bad)
<1>1. Len(s) \in Nat
  OBVIOUS
<1> SUFFICES ASSUME Bad # {} PROVE FALSE
  OBVIOUS
<1>2. m \in Bad /\ \A y \in Bad : y <= m
  <2>1. Len(s) + 1 \in Nat /\ Bad \subseteq 1 .. Len(s) + 1
    BY <1>1
  <2> HIDE DEF Bad
  <2> QED
    BY <2>1, MaxOf
<1> HIDE DEF m
<1>3. m \in 1 .. Len(s) + 1 /\ F[m].tokens \notin Seq(Pieces(s))
  BY <1>2
<1>4. \A k \in m + 1 .. Len(s) + 1 : F[k].tokens \in Seq(Pieces(s))
  <2> SUFFICES ASSUME NEW k \in m + 1 .. Len(s) + 1 PROVE F[k].tokens \in Seq(Pieces(s))
    OBVIOUS
  <2>1. k \in 1 .. Len(s) + 1 /\ ~(k <= m)
    BY <1>1, <1>3
  <2> QED
    BY <1>2, <2>1
<1> HIDE DEF Bad
<1> DEFINE skips == {j \in m .. Len(s) : Skipped(s, m, j)}
           ends  == {j \in m .. Len(s) : Lexemes(s, m, j) # {}}
           token == CHOOSE t \in Lexemes(s, m, Max(ends)) : TRUE
           wrong == Refusals(token, m)
           rest  == F[Max(ends) + 1]
<1>5. F[m] = LexedAt(s, F, m)
  BY <1>3, FromPlaces
<1>6. skips \subseteq 1 .. Len(s) /\ ends \subseteq 1 .. Len(s)
  BY <1>1, <1>3
<1>7. CASE m > Len(s)
  <2>1. F[m].tokens = <<>>
    BY <1>5, <1>7 DEF LexedAt
  <2> QED
    BY <1>3, <2>1
<1>8. CASE ~(m > Len(s)) /\ skips # {}
  <2>1. Max(skips) \in skips
    BY <1>1, <1>6, <1>8, MaxOf
  <2>2. Max(skips) + 1 \in m + 1 .. Len(s) + 1
    BY <1>1, <1>3, <2>1
  <2>3. F[m] = F[Max(skips) + 1]
    BY <1>5, <1>8 DEF LexedAt
  <2> QED
    BY <1>3, <1>4, <2>2, <2>3
<1>9. CASE ~(m > Len(s)) /\ skips = {} /\ ends = {}
  <2>1. F[m].tokens = <<>>
    BY <1>5, <1>9 DEF LexedAt
  <2> QED
    BY <1>3, <2>1
<1>10. CASE ~(m > Len(s)) /\ skips = {} /\ ends # {} /\ wrong # {}
  <2>1. F[m].tokens = <<>>
    BY <1>5, <1>10 DEF LexedAt
  <2> QED
    BY <1>3, <2>1
<1>11. CASE ~(m > Len(s)) /\ skips = {} /\ ends # {} /\ wrong = {}
  <2>1. Max(ends) \in ends
    BY <1>1, <1>6, <1>11, MaxOf
  <2>2. Max(ends) + 1 \in m + 1 .. Len(s) + 1 /\ Max(ends) \in 1 .. Len(s) /\ m \in 1 .. Len(s)
    BY <1>1, <1>3, <2>1
  <2>3. token \in Lexemes(s, m, Max(ends))
    BY <2>1
  <2>4. F[m] = [tokens |-> <<token>> \o rest.tokens, end |-> rest.end]
    BY <1>5, <1>11 DEF LexedAt
  <2> HIDE DEF token, ends
  <2>5. token \in Pieces(s)
    BY <2>2, <2>3 DEF Pieces
  <2>6. rest.tokens \in Seq(Pieces(s))
    BY <1>4, <2>2
  <2>7. <<token>> \in Seq(Pieces(s))
    BY <2>5
  <2> HIDE DEF rest
  <2>8. <<token>> \o rest.tokens \in Seq(Pieces(s))
    BY <2>6, <2>7, ConcatProperties
  <2>9. F[m].tokens = <<token>> \o rest.tokens
    BY <2>4
  <2> QED
    BY <1>3, <2>8, <2>9
<1> QED
  BY <1>7, <1>8, <1>9, <1>10, <1>11

-----------------------------------------------------------------------------
(* The characters i .. j as a word.                                        *)
LEMMA WordFacts ==
  ASSUME NEW s \in Seq(STRING), NEW i \in 1 .. Len(s), NEW j \in i .. Len(s)
  PROVE  /\ SubSeq(s, i, j) \in Seq(STRING) /\ Len(SubSeq(s, i, j)) = j - i + 1
         /\ SubSeq(s, i, j)[1] = s[i]
         /\ j = i + 1 => SubSeq(s, i, j)[2] = s[i + 1]
         /\ Tail(SubSeq(s, i, j)) = SubSeq(s, i + 1, j)
<1> DEFINE w == SubSeq(s, i, j)
<1>1. i \in Int /\ j \in Int /\ Len(s) \in Nat /\ i <= j /\ \A k \in i .. j : s[k] \in STRING
  OBVIOUS
<1>2. /\ w \in Seq(STRING) /\ Len(w) = j - i + 1
      /\ \A k \in 1 .. j - i + 1 : w[k] = s[i + k - 1]
  BY <1>1, SubSeqProperties
<1>3. w[1] = s[i]
  BY <1>1, <1>2
<1>4. j = i + 1 => w[2] = s[i + 1]
  BY <1>1, <1>2
<1>5. Tail(w) = SubSeq(s, i + 1, j)
  BY <1>1, HeadTailOfSubSeq
<1> QED
  BY <1>2, <1>3, <1>4, <1>5

LEMMA OneOrTwo ==
  ASSUME NEW S, NEW w \in Seq(S)
  PROVE  /\ Len(w) = 1 => w = <<w[1]>>
         /\ Len(w) = 2 => w = <<w[1], w[2]>>
<1>1. ASSUME Len(w) = 1 PROVE w = <<w[1]>>
  <2>1. w[1] \in S
    BY <1>1
  <2> DEFINE x == w[1]
  <2> HIDE DEF x
  <2>2. <<x>> \in Seq(S) /\ Len(<<x>>) = 1 /\ <<x>>[1] = x
    BY <2>1 DEF x
  <2>3. \A k \in 1 .. Len(w) : w[k] = <<x>>[k]
    BY <1>1, <2>2 DEF x
  <2> QED
    BY <1>1, <2>2, <2>3, SeqEqual DEF x
<1>2. ASSUME Len(w) = 2 PROVE w = <<w[1], w[2]>>
  <2>1. w[1] \in S /\ w[2] \in S
    BY <1>2
  <2> DEFINE x == w[1]
             y == w[2]
  <2>2. \A k \in 1 .. Len(w) : (k = 1 /\ w[k] = x) \/ (k = 2 /\ w[k] = y)
    BY <1>2
  <2>3. x \in S /\ y \in S
    BY <2>1
  <2> HIDE DEF x, y
  <2>4. <<x, y>> \in Seq(S) /\ Len(<<x, y>>) = 2 /\ <<x, y>>[1] = x /\ <<x, y>>[2] = y
    BY <2>3
  <2>5. \A k \in 1 .. Len(w) : w[k] = <<x, y>>[k]
    BY <2>2, <2>4
  <2> QED
    BY <1>2, <2>4, <2>5, SeqEqual DEF x, y
<1> QED
  BY <1>1, <1>2

LEMMA OneChar ==
  ASSUME NEW s \in Seq(STRING), NEW i \in 1 .. Len(s), NEW j \in i .. Len(s), NEW c
  PROVE  SubSeq(s, i, j) = <<c>> <=> j = i /\ s[i] = c
<1> DEFINE w == SubSeq(s, i, j)
<1>1. w \in Seq(STRING) /\ Len(w) = j - i + 1 /\ w[1] = s[i]
  BY WordFacts
<1>2. i \in Int /\ j \in Int
  OBVIOUS
<1> HIDE DEF w
<1>3. w = <<c>> => Len(w) = 1 /\ w[1] = c
  OBVIOUS
<1>4. Len(w) = 1 => w = <<w[1]>>
  BY <1>1, OneOrTwo
<1>5. ASSUME w = <<c>> PROVE j = i /\ s[i] = c
  BY <1>1, <1>2, <1>3, <1>5
<1>6. ASSUME j = i, s[i] = c PROVE w = <<c>>
  <2>1. Len(w) = 1 /\ w[1] = c
    BY <1>1, <1>2, <1>6
  <2> QED
    BY <1>4, <2>1
<1> QED
  BY <1>5, <1>6 DEF w

(* The lexemes of a word, by how it begins.                                *)
LEMMA LexemesAre ==
  ASSUME NEW s \in Seq(STRING), NEW i \in 1 .. Len(s), NEW j \in i .. Len(s), NEW t
  PROVE  t \in Lexemes(s, i, j) <=>
           \/ j = i /\ s[i] \in DOMAIN Punct /\ t = <<Punct[s[i]]>>
           \/ j = i + 1 /\ s[i] = ":" /\ s[i + 1] = "-" /\ t = <<"Neck">>
           \/ j = i + 1 /\ s[i] = "?" /\ s[i + 1] = "-" /\ t = <<"Query">>
           \/ j = i + 1 /\ s[i] = "\\" /\ s[i + 1] = "+" /\ t = <<"Not">>
           \/ All(s, Digits, i, j) /\ t = <<"Int", NumberOf(SubSeq(s, i, j))>>
           \/ /\ s[i] = "-" /\ All(s, Digits, i + 1, j)
              /\ t = <<"Int", -NumberOf(SubSeq(s, i + 1, j))>>
           \/ s[i] \in Lower /\ All(s, Ident, i, j) /\ t = <<"Atom", SubSeq(s, i, j)>>
           \/ /\ s[i] \in Upper \cup {"_"} /\ All(s, Ident, i, j)
              /\ t = <<"Var", SubSeq(s, i, j)>>
<1> DEFINE w == SubSeq(s, i, j)
<1>1. w[1] = s[i] /\ Tail(w) = SubSeq(s, i + 1, j)
  BY WordFacts
<1>2. \A c : w = <<c>> <=> j = i /\ s[i] = c
  BY OneChar
<1>3. ASSUME NEW c, NEW d
      PROVE  w = <<c, d>> <=> j = i + 1 /\ s[i] = c /\ s[i + 1] = d
  <2>1. /\ w \in Seq(STRING) /\ Len(w) = j - i + 1 /\ w[1] = s[i]
        /\ j = i + 1 => w[2] = s[i + 1]
    BY WordFacts
  <2>2. i \in Int /\ j \in Int
    OBVIOUS
  <2> HIDE DEF w
  <2>3. Len(w) = 2 => w = <<w[1], w[2]>>
    BY <2>1, OneOrTwo
  <2>4. ASSUME w = <<c, d>> PROVE j = i + 1 /\ s[i] = c /\ s[i + 1] = d
    <3>1. Len(w) = 2 /\ w[1] = c /\ w[2] = d
      BY <2>4
    <3>2. j - i + 1 = 2
      BY <2>1, <3>1
    <3>3. j = i + 1
      BY <2>2, <3>2
    <3> QED
      BY <2>1, <3>1, <3>3
  <2>5. ASSUME j = i + 1, s[i] = c, s[i + 1] = d PROVE w = <<c, d>>
    <3>1. Len(w) = 2 /\ w[1] = c /\ w[2] = d
      BY <2>1, <2>2, <2>5
    <3> QED
      BY <2>3, <3>1
  <2> QED
    BY <2>4, <2>5
<1>4. t \in Lexemes(s, i, j) <=>
        \/ \E c \in DOMAIN Punct : w = <<c>> /\ t = <<Punct[c]>>
        \/ w = <<":", "-">> /\ t = <<"Neck">>
        \/ w = <<"?", "-">> /\ t = <<"Query">>
        \/ w = <<"\\", "+">> /\ t = <<"Not">>
        \/ All(s, Digits, i, j) /\ t = <<"Int", NumberOf(w)>>
        \/ w[1] = "-" /\ All(s, Digits, i + 1, j) /\ t = <<"Int", -NumberOf(Tail(w))>>
        \/ w[1] \in Lower /\ All(s, Ident, i, j) /\ t = <<"Atom", w>>
        \/ w[1] \in Upper \cup {"_"} /\ All(s, Ident, i, j) /\ t = <<"Var", w>>
  BY DEF Lexemes
<1> HIDE DEF w
<1>5. (\E c \in DOMAIN Punct : w = <<c>> /\ t = <<Punct[c]>>)
        <=> j = i /\ s[i] \in DOMAIN Punct /\ t = <<Punct[s[i]]>>
  BY <1>2
<1> QED
  BY <1>1, <1>3, <1>4, <1>5 DEF w

(* What begins one kind of lexeme begins no other.                         *)
Odd == {":", "?", "\\", "%", "/"} \cup Blank

LEMMA Classes ==
  /\ \A c \in DOMAIN Punct : c \notin Ident /\ c \notin Odd
  /\ \A c \in Digits : c \notin Lower /\ c \notin Upper /\ c # "_"
  /\ \A c \in Lower : c \notin Upper /\ c # "_"
  /\ \A c \in Ident : c \notin Odd
<1>1. Digits = {"0", "1", "2", "3", "4", "5", "6", "7", "8", "9"}
  <2>1. DOMAIN Digit = {1, 2, 3, 4, 5, 6, 7, 8, 9, 10}
    BY DEF Digit
  <2>2. \A c : c \in Digits <=> \E d \in {1, 2, 3, 4, 5, 6, 7, 8, 9, 10} : c = Digit[d]
    BY <2>1 DEF Digits
  <2> QED
    BY <2>2 DEF Digit
<1>2. DOMAIN Punct = {"(", ")", "[", "]", ",", ".", "|", "!", "+", "-", "<", ">", "="}
  BY DEF Punct
<1>3. \A c \in Lower : c \notin Upper /\ c # "_"
  BY ZenonT(40) DEF Lower, Upper
<1>4. \A c \in Digits : c \notin Lower /\ c \notin Upper /\ c # "_"
  BY <1>1 DEF Lower, Upper
<1>5. \A c \in DOMAIN Punct : c \notin Digits /\ c \notin Lower /\ c \notin Upper /\ c # "_"
  BY ZenonT(40), <1>1, <1>2 DEF Lower, Upper
<1>6. \A c \in DOMAIN Punct : c \notin Odd
  BY <1>2 DEF Odd, Blank
<1>7. \A c \in Odd : c \notin Digits /\ c \notin Lower /\ c \notin Upper /\ c # "_"
  BY ZenonT(40), <1>1 DEF Odd, Blank, Lower, Upper
<1> HIDE DEF Odd
<1> QED
  BY <1>3, <1>4, <1>5, <1>6, <1>7 DEF Ident

-----------------------------------------------------------------------------
(* The longest lexeme at a place, by the character there.                  *)
LEMMA AllFirst ==
  ASSUME NEW s, NEW S, NEW i \in Int, NEW j \in Int, All(s, S, i, j)
  PROVE  i <= j /\ s[i] \in S
BY DEF All

LEMMA NotAll ==
  ASSUME NEW s, NEW S, NEW i \in Int, NEW j \in Int, s[i] \notin S
  PROVE  ~All(s, S, i, j)
BY DEF All

LEMMA NoName ==
  ASSUME NEW s, NEW i \in Int, NEW j \in Int, s[i] \notin Ident
  PROVE  ~All(s, Digits, i, j) /\ ~All(s, Ident, i, j)
<1>1. s[i] \notin Digits
  BY DEF Ident
<1> QED
  BY <1>1, NotAll

LEMMA NothingSkipped ==
  ASSUME NEW s, NEW i, s[i] \notin Blank, s[i] # "%", ~Opening(s, i)
  PROVE  NoSkip(s, i)
BY DEF NoSkip, Skipped

LEMMA PunctLongest ==
  ASSUME NEW s \in Seq(STRING), NEW i \in 1 .. Len(s), s[i] \in DOMAIN Punct,
         ~(s[i] = "-" /\ i < Len(s) /\ s[i + 1] \in Digits)
  PROVE  Longest(s, i, i, <<Punct[s[i]]>>)
<1>1. i \in Int /\ Len(s) \in Int /\ i \in i .. Len(s)
  OBVIOUS
<1>2. s[i] \notin Ident /\ s[i] \notin Odd
  BY Classes
<1>3. ASSUME NEW k \in i .. Len(s), NEW t, t \in Lexemes(s, i, k)
      PROVE  k = i /\ t = <<Punct[s[i]]>>
  <2>1. k \in Int /\ ~All(s, Digits, i, k) /\ ~All(s, Ident, i, k)
    BY <1>1, <1>2, NoName
  <2>2. ~(s[i] = "-" /\ All(s, Digits, i + 1, k))
    <3> SUFFICES ASSUME s[i] = "-", All(s, Digits, i + 1, k) PROVE FALSE
      OBVIOUS
    <3>1. i + 1 <= k /\ s[i + 1] \in Digits
      BY <1>1, <2>1, AllFirst
    <3> QED
      BY <1>1, <3>1
  <2>3. s[i] # ":" /\ s[i] # "?" /\ s[i] # "\\"
    BY <1>2 DEF Odd
  <2> QED
    BY <1>3, <2>1, <2>2, <2>3, LexemesAre
<1>4. <<Punct[s[i]]>> \in Lexemes(s, i, i)
  BY <1>1, LexemesAre
<1> QED
  BY <1>1, <1>3, <1>4 DEF Longest

LEMMA PairLongest ==
  ASSUME NEW s \in Seq(STRING), NEW i \in 1 .. Len(s), i < Len(s), NEW name,
         \/ s[i] = ":" /\ s[i + 1] = "-" /\ name = "Neck"
         \/ s[i] = "?" /\ s[i + 1] = "-" /\ name = "Query"
         \/ s[i] = "\\" /\ s[i + 1] = "+" /\ name = "Not"
  PROVE  Longest(s, i, i + 1, <<name>>)
<1>1. i \in Int /\ Len(s) \in Int /\ i + 1 \in i .. Len(s)
  OBVIOUS
<1>2. s[i] \in Odd
  BY DEF Odd
<1>3. s[i] \notin Ident /\ s[i] \notin DOMAIN Punct /\ s[i] # "-"
  <2>1. s[i] \notin Ident /\ s[i] \notin DOMAIN Punct
    BY <1>2, Classes
  <2> QED
    BY <2>1
<1>4. ASSUME NEW k \in i .. Len(s), NEW t, t \in Lexemes(s, i, k)
      PROVE  k = i + 1 /\ t = <<name>>
  <2>1. k \in Int /\ ~All(s, Digits, i, k) /\ ~All(s, Ident, i, k)
    BY <1>1, <1>3, NoName
  <2> QED
    BY <1>3, <1>4, <2>1, LexemesAre DEF Ident
<1>5. <<name>> \in Lexemes(s, i, i + 1)
  BY <1>1, LexemesAre
<1> QED
  BY <1>1, <1>4, <1>5 DEF Longest

LEMMA NumberLongest ==
  ASSUME NEW s \in Seq(STRING), NEW i \in 1 .. Len(s), NEW j \in i .. Len(s),
         All(s, Digits, i, j), \A k \in i .. Len(s) : All(s, Digits, i, k) => k <= j
  PROVE  Longest(s, i, j, <<"Int", NumberOf(SubSeq(s, i, j))>>)
<1>1. i \in Int /\ j \in Int
  OBVIOUS
<1>2. /\ s[i] \in Digits /\ s[i] \notin DOMAIN Punct
      /\ s[i] \notin Lower /\ s[i] \notin Upper /\ s[i] # "_" /\ s[i] \notin Odd
  BY <1>1, AllFirst, Classes DEF Ident
<1>3. "-" \in DOMAIN Punct
  BY DEF Punct
<1>4. s[i] # "-" /\ s[i] # ":" /\ s[i] # "?" /\ s[i] # "\\"
  BY <1>2, <1>3 DEF Odd
<1>5. ASSUME NEW k \in i .. Len(s), NEW t
      PROVE  t \in Lexemes(s, i, k)
               <=> All(s, Digits, i, k) /\ t = <<"Int", NumberOf(SubSeq(s, i, k))>>
  BY <1>2, <1>4, LexemesAre
<1> QED
  BY <1>5 DEF Longest

LEMMA NegativeLongest ==
  ASSUME NEW s \in Seq(STRING), NEW i \in 1 .. Len(s), NEW j \in i + 1 .. Len(s), s[i] = "-",
         All(s, Digits, i + 1, j), \A k \in i + 1 .. Len(s) : All(s, Digits, i + 1, k) => k <= j
  PROVE  Longest(s, i, j, <<"Int", -NumberOf(SubSeq(s, i + 1, j))>>)
<1>1. i \in Int /\ j \in Int /\ j # i /\ j \in i .. Len(s)
  OBVIOUS
<1>2. s[i] \in DOMAIN Punct
  BY DEF Punct
<1>3. s[i] \notin Ident
  BY <1>2, Classes
<1>4. ASSUME NEW k \in i .. Len(s), NEW t
      PROVE  t \in Lexemes(s, i, k)
               <=> \/ k = i /\ t = <<Punct[s[i]]>>
                   \/ All(s, Digits, i + 1, k) /\ t = <<"Int", -NumberOf(SubSeq(s, i + 1, k))>>
  <2>1. k \in Int /\ ~All(s, Digits, i, k) /\ ~All(s, Ident, i, k)
    BY <1>1, <1>3, NoName
  <2> QED
    BY <1>2, <2>1, LexemesAre
<1>5. ASSUME NEW k \in i .. Len(s), Lexemes(s, i, k) # {}
      PROVE  k <= j
  <2>1. k = i \/ All(s, Digits, i + 1, k)
    BY <1>4, <1>5
  <2>2. CASE k = i
    BY <1>1, <2>2
  <2>3. CASE All(s, Digits, i + 1, k)
    <3>1. k \in i + 1 .. Len(s)
      BY <1>1, <2>3, AllFirst
    <3> QED
      BY <2>3, <3>1
  <2> QED
    BY <2>1, <2>2, <2>3
<1> QED
  BY <1>1, <1>4, <1>5 DEF Longest

LEMMA NameLongest ==
  ASSUME NEW s \in Seq(STRING), NEW i \in 1 .. Len(s), NEW j \in i .. Len(s), NEW kind,
         (kind = "Atom" /\ s[i] \in Lower) \/ (kind = "Var" /\ s[i] \in Upper \cup {"_"}),
         All(s, Ident, i, j), \A k \in i .. Len(s) : All(s, Ident, i, k) => k <= j
  PROVE  Longest(s, i, j, <<kind, SubSeq(s, i, j)>>)
<1>1. i \in Int /\ j \in Int /\ Len(s) \in Int
  <2>1. Len(s) \in Nat
    BY LenProperties
  <2>2. i \in 1 .. Len(s) /\ j \in i .. Len(s)
    OBVIOUS
  <2> QED
    BY ONLY <2>1, <2>2
<1>2. s[i] \in Ident /\ s[i] \notin DOMAIN Punct /\ s[i] \notin Odd /\ s[i] \notin Digits
  <2>1. s[i] \in Ident
    BY DEF Ident
  <2> QED
    BY <2>1, Classes
<1>3. "-" \in DOMAIN Punct
  BY DEF Punct
<1>4. s[i] # "-" /\ s[i] # ":" /\ s[i] # "?" /\ s[i] # "\\"
  BY <1>2, <1>3 DEF Odd
<1>5. ASSUME NEW k \in i .. Len(s), NEW t
      PROVE  t \in Lexemes(s, i, k) <=> All(s, Ident, i, k) /\ t = <<kind, SubSeq(s, i, k)>>
  <2>1. ~All(s, Digits, i, k)
    <3>1. k \in i .. Len(s)
      OBVIOUS
    <3>2. k \in Int
      BY ONLY <1>1, <3>1
    <3> QED
      BY <1>1, <1>2, <3>2, NotAll
  <2>2. CASE kind = "Atom" /\ s[i] \in Lower
    <3>1. s[i] \notin Upper \cup {"_"}
      BY <2>2, Classes
    <3> QED
      BY <1>2, <1>4, <2>1, <2>2, <3>1, LexemesAre
  <2>3. CASE kind = "Var" /\ s[i] \in Upper \cup {"_"}
    <3>1. s[i] \notin Lower
      BY <2>3, Classes
    <3> QED
      BY <1>2, <1>4, <2>1, <2>3, <3>1, LexemesAre
  <2> QED
    BY <2>2, <2>3
<1> QED
  BY <1>5 DEF Longest

LEMMA NoLexeme ==
  ASSUME NEW s \in Seq(STRING), NEW i \in 1 .. Len(s), s[i] \notin Ident \cup DOMAIN Punct,
         i < Len(s) /\ s[i] \in {":", "?"} => s[i + 1] # "-",
         i < Len(s) /\ s[i] = "\\" => s[i + 1] # "+"
  PROVE  \A k \in i .. Len(s) : Lexemes(s, i, k) = {}
<1>1. i \in Int /\ Len(s) \in Int
  OBVIOUS
<1>2. "-" \in DOMAIN Punct
  BY DEF Punct
<1>3. ASSUME NEW k \in i .. Len(s), NEW t PROVE t \notin Lexemes(s, i, k)
  <2>1. k \in Int /\ ~All(s, Digits, i, k) /\ ~All(s, Ident, i, k)
    BY <1>1, NoName
  <2>2. k = i + 1 => i < Len(s)
    BY <1>1
  <2>3. s[i] # "-" /\ s[i] \notin Lower /\ s[i] \notin Upper \cup {"_"}
    BY <1>2 DEF Ident
  <2> QED
    BY <2>1, <2>2, <2>3, LexemesAre
<1> QED
  BY <1>3

-----------------------------------------------------------------------------
(***************************************************************************)
(* The cursor.  While it scans, what is pushed and what the reference says *)
(* of the place it is at make up the lexemes of the text.                  *)
(***************************************************************************)
Following ==
  /\ Lexed(text).tokens = out \o From(text)[pos + 1].tokens
  /\ Lexed(text).end = From(text)[pos + 1].end

Follows == IF result = Scans THEN Following ELSE LongestLexemes

LEMMA Looking ==
  ASSUME Typed
  PROVE  /\ Peek = IF pos < Len(text) THEN text[pos + 1] ELSE "end"
         /\ Peek1 = IF pos + 1 < Len(text) THEN text[pos + 2] ELSE "end"
BY Ahead DEF Peek, Peek1, At

(* A run of characters is all of S, and no longer one is.                  *)
LEMMA LongestRun ==
  ASSUME Typed, NEW S, "end" \notin S, NEW i \in 1 .. Len(text), text[i] \in S
  PROVE  /\ RunEnd(S, i) \in i .. Len(text)
         /\ All(text, S, i, RunEnd(S, i))
         /\ \A k \in i .. Len(text) : All(text, S, i, k) => k <= RunEnd(S, i)
<1> DEFINE j == RunEnd(S, i)
<1>1. Len(text) \in Nat /\ i \in 1 .. Len(text) + 1 /\ DOMAIN text = 1 .. Len(text)
  BY Ahead
<1>2. At(i) \in S
  BY <1>1 DEF At
<1>3. j \in i - 1 .. Len(text) /\ (\A k \in i .. j : At(k) \in S) /\ j >= i /\ At(j + 1) \notin S
  BY <1>1, <1>2, RunEnds
<1> HIDE DEF j
<1>4. j \in i .. Len(text)
  BY <1>1, <1>3
<1>5. \A k \in i .. j : text[k] \in S
  BY <1>1, <1>3, <1>4 DEF At
<1>6. ASSUME NEW k \in i .. Len(text), All(text, S, i, k), ~(k <= j) PROVE FALSE
  <2>1. j + 1 \in i .. k /\ j + 1 \in DOMAIN text
    BY <1>1, <1>4, <1>6
  <2>2. text[j + 1] \in S
    BY <1>6, <2>1 DEF All
  <2> QED
    BY <1>3, <2>1, <2>2 DEF At
<1> QED
  BY <1>1, <1>4, <1>5, <1>6 DEF All, j

(* What is pushed and what is ahead are sequences of one set.              *)
LEMMA Sequences ==
  ASSUME Typed, NEW i \in 1 .. Len(text) + 1
  PROVE  /\ out \in Seq(Tokens \cup Pieces(text))
         /\ From(text)[i].tokens \in Seq(Tokens \cup Pieces(text))
<1>1. From(text)[i].tokens \in Seq(Pieces(text))
  BY FromType DEF Typed
<1>2. out \in Seq(Tokens)
  BY DEF Typed, TypeOK
<1> QED
  BY <1>1, <1>2, SeqMonotonic

LEMMA RefusesRight ==
  ASSUME Typed, result = Scans, Following, NEW e \in Errors, Refuse(e, pos), UNCHANGED text,
         From(text)[pos + 1] = [tokens |-> <<>>, end |-> <<e, pos>>]
  PROVE  Follows'
<1>1. pos \in Nat /\ out \in Seq(Tokens) /\ Len(out) \in Nat /\ Len(out) <= MaxTokens
  BY DEF Typed, TypeOK
<1>2. Lexed(text).tokens = out /\ Lexed(text).end = <<e, pos>>
  <2>1. Lexed(text).tokens = out \o <<>> /\ Lexed(text).end = <<e, pos>>
    BY DEF Following
  <2> QED
    BY <1>1, <2>1, ConcatEmptySeq
<1>3. <<e, pos>> # Okay /\ <<e, pos>> # Scans
  BY DEF Okay, Scans
<1>4. result' = <<e, pos>> /\ out' = out /\ text' = text
  BY DEF Refuse
<1>5. Len(out) + 0 <= MaxTokens
  BY <1>1
<1>6. LongestLexemes'
  BY <1>2, <1>3, <1>4, <1>5 DEF LongestLexemes
<1> QED
  BY <1>3, <1>4, <1>6 DEF Follows

LEMMA SkipsRight ==
  ASSUME Typed, result = Scans, Following, NEW to, Skip(to), UNCHANGED text,
         From(text)[pos + 1] = From(text)[to + 1]
  PROVE  Follows'
BY DEF Skip, Follows, Following

LEMMA OverflowsRight ==
  ASSUME Typed, NEW n \in Nat, Len(Lexed(text).tokens) = MaxTokens + n,
         n > 0 \/ Lexed(text).end = Okay,
         Refuse("Overflow", 0), UNCHANGED text
  PROVE  Follows'
<1>1. result' = <<"Overflow", 0>> /\ text' = text
  BY DEF Refuse
<1>2. result' # Okay /\ result' # Scans /\ result'[1] = "Overflow"
  BY <1>1 DEF Okay, Scans
<1>3. ~(Len(Lexed(text).tokens) + (IF Lexed(text).end = Okay THEN 1 ELSE 0) <= MaxTokens)
  BY TokenizeAssumption
<1>4. LongestLexemes'
  BY <1>1, <1>2, <1>3 DEF LongestLexemes
<1> QED
  BY <1>2, <1>4 DEF Follows

LEMMA EmitsRight ==
  ASSUME Typed, result = Scans, Following, pos < Len(text), NEW t \in Tokens, NEW to, Emit(t, to),
         UNCHANGED text, NoSkip(text, pos + 1), Longest(text, pos + 1, to, t),
         Refusals(t, pos + 1) = {}
  PROVE  Follows'
<1> DEFINE R  == From(text)[to + 1].tokens
           T  == Tokens \cup Pieces(text)
           LT == Lexed(text).tokens
<1>1. pos \in Nat /\ Len(text) \in Nat /\ pos + 1 \in 1 .. Len(text) /\ text \in Seq(STRING)
  BY Ahead DEF Typed
<1>2. to \in pos + 1 .. Len(text)
  BY DEF Longest
<1>3. From(text)[pos + 1] = [tokens |-> <<t>> \o R, end |-> From(text)[to + 1].end]
  BY <1>1, FromLexeme
<1>4. LT = out \o (<<t>> \o R) /\ Lexed(text).end = From(text)[to + 1].end
  BY <1>3 DEF Following
<1>5. out \in Seq(T) /\ R \in Seq(T) /\ <<t>> \in Seq(T) /\ t \in T
  <2>1. to + 1 \in 1 .. Len(text) + 1
    BY <1>1, <1>2
  <2>2. out \in Seq(T) /\ R \in Seq(T)
    BY <2>1, Sequences
  <2> QED
    BY <2>2
<1> HIDE DEF R, T, LT
<1>6. LT = Append(out, t) \o R
  <2>1. (out \o <<t>>) \o R = out \o (<<t>> \o R)
    BY <1>5, ConcatAssociative
  <2>2. Append(out, t) = out \o <<t>>
    BY <1>5, AppendIsConcat
  <2> QED
    BY <1>4, <2>1, <2>2
<1>7. CASE Push(t, to) /\ UNCHANGED result
  <2>1. out' = Append(out, t) /\ pos' = to /\ result' = result /\ text' = text
    BY <1>7 DEF Push
  <2> QED
    BY <1>4, <1>6, <2>1 DEF Follows, Following, R, LT
<1>8. CASE Len(out) = MaxTokens /\ Refuse("Overflow", 0)
  <2>1. Len(LT) = MaxTokens + (Len(R) + 1) /\ Len(R) + 1 \in Nat /\ Len(R) + 1 > 0
    <3>1. Append(out, t) \in Seq(T) /\ Len(Append(out, t)) = MaxTokens + 1 /\ Len(R) \in Nat
      BY <1>5, <1>8, AppendProperties, LenProperties
    <3>2. Len(LT) = Len(Append(out, t)) + Len(R)
      BY <1>5, <1>6, <3>1, ConcatProperties
    <3> QED
      BY <3>1, <3>2, TokenizeAssumption
  <2> QED
    BY <1>8, <2>1, OverflowsRight DEF LT
<1> QED
  BY <1>7, <1>8 DEF Emit

LEMMA WrongRight ==
  ASSUME Typed, result = Scans, Following, pos < Len(text), NEW t, NEW to, NEW e \in Errors,
         Refuse(e, pos), UNCHANGED text, NoSkip(text, pos + 1), Longest(text, pos + 1, to, t),
         Refusals(t, pos + 1) = {<<e, pos>>}
  PROVE  Follows'
<1> DEFINE i == pos + 1
<1>1. text \in Seq(STRING) /\ i \in 1 .. Len(text) /\ NoSkip(text, i) /\ Longest(text, i, to, t)
  BY Ahead DEF Typed
<1> HIDE DEF i
<1>2. Refusals(t, i) = {<<e, pos>>}
  BY DEF i
<1>3. From(text)[i] = [tokens |-> <<>>, end |-> <<e, pos>>]
  BY <1>1, <1>2, FromWrong
<1> QED
  BY <1>3, RefusesRight DEF i

(* skip_ws_and_comments: where it stops is the end of what can be skipped. *)
LEMMA BlanksRight ==
  ASSUME Typed, Following, SkipOver
  PROVE  Follows'
<1> DEFINE i == pos + 1
           L == Len(text)
<1>1. pos \in Nat /\ L \in Nat /\ text \in Seq(STRING) /\ result = Scans /\ UNCHANGED text
  BY Ahead DEF Typed, SkipOver, SkipBlank, SkipLineComment, SkipBlockComment, Unterminated,
     InBlockComment, Scanning
<1>2. /\ Peek = IF pos < L THEN text[i] ELSE "end"
      /\ Peek1 = IF pos + 1 < L THEN text[i + 1] ELSE "end"
  <2>1. pos + 2 = i + 1
    BY <1>1
  <2> QED
    BY <2>1, Looking
<1>3. "%" \notin Blank /\ "/" \notin Blank /\ "end" \notin Blank
  BY DEF Blank
<1>4. CASE SkipBlank
  <2>1. Peek \in Blank /\ Skip(i)
    BY <1>4 DEF SkipBlank
  <2>2. i \in 1 .. L /\ text[i] \in Blank /\ i \in i .. L
    BY <1>1, <1>2, <1>3, <2>1
  <2>3. Skipped(text, i, i) /\ \A k \in i .. L : Skipped(text, i, k) => k <= i
    BY <1>3, <2>2 DEF Skipped, Opening
  <2>4. From(text)[i] = From(text)[i + 1]
    BY <1>1, <2>2, <2>3, FromSkip
  <2> QED
    BY <1>1, <2>1, <2>4, SkipsRight
<1>5. CASE SkipLineComment
  <2> DEFINE S == {j \in i .. L : text[j] = "\n"} \cup {L}
             m == Min(S)
  <2>1. Peek = "%" /\ Skip(m)
    BY <1>5 DEF SkipLineComment
  <2>2. i \in 1 .. L /\ text[i] = "%"
    BY <1>1, <1>2, <2>1
  <2>3. m \in S /\ \A y \in S : m <= y
    <3>1. S \subseteq Nat /\ S # {}
      BY <1>1
    <3> HIDE DEF S
    <3> QED
      BY <3>1, MinOf
  <2>4. m \in i .. L /\ (text[m] = "\n" \/ m = L)
    BY <1>1, <2>2, <2>3
  <2>5. \A k \in i .. m - 1 : text[k] # "\n"
    <3> SUFFICES ASSUME NEW k \in i .. m - 1, text[k] = "\n" PROVE FALSE
      OBVIOUS
    <3>1. k \in S /\ ~(m <= k)
      BY <1>1, <2>4
    <3> QED
      BY <2>3, <3>1
  <2> HIDE DEF m, S
  <2>6. Skipped(text, i, m)
    BY <2>2, <2>4, <2>5 DEF Skipped
  <2>7. ASSUME NEW k \in i .. L, Skipped(text, i, k) PROVE k <= m
    <3>1. \A l \in i .. k - 1 : text[l] # "\n"
      BY <1>3, <2>2, <2>7 DEF Skipped, Opening
    <3>2. ~(k <= m) => m \in i .. k - 1 /\ m # L
      BY <1>1, <2>4
    <3> QED
      BY <2>4, <3>1, <3>2
  <2>8. From(text)[i] = From(text)[m + 1]
    BY <1>1, <2>2, <2>4, <2>6, <2>7, FromSkip
  <2> QED
    BY <1>1, <2>1, <2>8, SkipsRight
<1>6. CASE InBlockComment
  <2>1. Peek = "/" /\ Peek1 = "*"
    BY <1>6 DEF InBlockComment
  <2>2. /\ i \in 1 .. L /\ text[i] = "/" /\ i < L /\ text[i + 1] = "*"
    BY <1>1, <1>2, <2>1
  <2>3. Opening(text, i)
    BY <2>2 DEF Opening
  <2>4. \A k : k \in Closings <=> k \in i + 2 .. L - 1 /\ text[k] = "*" /\ text[k + 1] = "/"
    <3>1. pos + 3 = i + 2
      BY <1>1
    <3> QED
      BY <3>1 DEF Closings
  <2>5. ASSUME NEW k \in i .. L
        PROVE  Skipped(text, i, k) <=>
                 i + 3 <= k /\ \A l \in i + 2 .. k - 1 : l \in Closings <=> l = k - 1
    <3>1. \A l \in i + 2 .. k - 1 : l \in Closings <=> text[l] = "*" /\ text[l + 1] = "/"
      BY <1>1, <2>2, <2>4
    <3> QED
      BY <1>3, <2>2, <2>3, <3>1 DEF Skipped
  <2>6. CASE Closings # {} /\ Skip(Min(Closings) + 1)
    <3> DEFINE m == Min(Closings)
    <3>1. m \in Closings /\ \A y \in Closings : m <= y
      <4>1. Closings \subseteq Nat
        BY <1>1 DEF Closings
      <4> QED
        BY <2>6, <4>1, MinOf
    <3> HIDE DEF m
    <3>2. m \in i + 2 .. L - 1 /\ m \in Nat
      BY <1>1, <2>4, <3>1
    <3>3. m + 1 \in i .. L /\ i + 3 <= m + 1
      BY <1>1, <3>2
    <3>4. \A l \in i + 2 .. (m + 1) - 1 : l \in Closings <=> l = (m + 1) - 1
      BY <1>1, <3>1, <3>2
    <3>5. Skipped(text, i, m + 1)
      BY <2>5, <3>3, <3>4
    <3>6. ASSUME NEW k \in i .. L, Skipped(text, i, k) PROVE k <= m + 1
      <4>1. \A l \in i + 2 .. k - 1 : l \in Closings <=> l = k - 1
        BY <2>5, <3>6
      <4>2. ~(k <= m + 1) => m \in i + 2 .. k - 1 /\ m # k - 1
        BY <1>1, <3>2
      <4> QED
        BY <3>1, <4>1, <4>2
    <3>7. From(text)[i] = From(text)[(m + 1) + 1]
      BY <1>1, <2>2, <3>3, <3>5, <3>6, FromSkip
    <3> QED
      BY <1>1, <2>6, <3>7, SkipsRight DEF m
  <2>7. CASE Closings = {} /\ Refuse("UnterminatedBlockComment", pos)
    <3>1. NoSkip(text, i)
      <4> SUFFICES ASSUME NEW k \in i .. L, Skipped(text, i, k) PROVE FALSE
        BY DEF NoSkip
      <4>1. i + 3 <= k /\ \A l \in i + 2 .. k - 1 : l \in Closings <=> l = k - 1
        BY <2>5
      <4>2. k - 1 \in i + 2 .. k - 1
        BY <1>1, <4>1
      <4> QED
        BY <2>7, <4>1, <4>2
    <3>2. text[i] \in Odd
      BY <2>2 DEF Odd
    <3>3. text[i] \notin Ident \cup DOMAIN Punct
      BY <3>2, Classes
    <3>4. \A k \in i .. L : Lexemes(text, i, k) = {}
      BY <1>1, <2>2, <3>3, NoLexeme
    <3>5. i - 1 = pos /\ "UnterminatedBlockComment" \in Errors
      BY <1>1 DEF Errors
    <3>6. From(text)[i] = [tokens |-> <<>>, end |-> <<"UnterminatedBlockComment", pos>>]
      BY <1>1, <2>2, <2>3, <3>1, <3>4, <3>5, FromNothing
    <3> QED
      BY <1>1, <2>7, <3>5, <3>6, RefusesRight
  <2> QED
    BY <1>4, <1>5, <2>6, <2>7 DEF SkipOver, SkipBlockComment, Unterminated
<1> QED
  BY <1>4, <1>5, <1>6 DEF SkipOver, SkipBlockComment, Unterminated

(* next_token.  What stands at the cursor, and that nothing is skipped.    *)
LEMMA AtToken ==
  ASSUME Typed, Peek # "end"
  PROVE  LET i == pos + 1
         IN  /\ text \in Seq(STRING) /\ pos \in Nat /\ Len(text) \in Nat
             /\ i \in 1 .. Len(text) /\ pos < Len(text) /\ text[i] = Peek
             /\ i < Len(text) => text[i + 1] = Peek1
             /\ ~(i < Len(text)) => Peek1 = "end"
             /\ Peek \in Ident \cup DOMAIN Punct => NoSkip(text, i)
<1> DEFINE i == pos + 1
<1>1. /\ text \in Seq(STRING) /\ pos \in Nat /\ Len(text) \in Nat
      /\ Peek = IF pos < Len(text) THEN text[i] ELSE "end"
      /\ Peek1 = IF pos + 1 < Len(text) THEN text[pos + 2] ELSE "end"
  BY Ahead, Looking DEF Typed
<1>2. pos + 2 = i + 1
  BY <1>1
<1>3. i \in 1 .. Len(text) /\ pos < Len(text) /\ text[i] = Peek
  BY <1>1
<1>4. ASSUME Peek \in Ident \cup DOMAIN Punct PROVE NoSkip(text, i)
  <2>1. Peek \notin Odd
    BY <1>4, Classes
  <2>2. Peek \notin Blank /\ Peek # "%" /\ Peek # "/"
    BY <2>1 DEF Odd
  <2>3. ~Opening(text, i)
    BY <1>3, <2>2 DEF Opening
  <2> QED
    BY <1>3, <2>2, <2>3, NothingSkipped
<1> QED
  BY <1>1, <1>2, <1>3, <1>4

(* What is no number and no name is never wrong.                           *)
LEMMA RightSigns ==
  ASSUME NEW name, name # "Int", name # "Atom", name # "Var", NEW i
  PROVE  Refusals(<<name>>, i) = {}
BY DEF Refusals

LEMMA WrongNames ==
  ASSUME NEW kind \in {"Atom", "Var"}, NEW word, NEW i
  PROVE  /\ Len(word) > AtomCap => Refusals(<<kind, word>>, i) = {<<"IdentTooLong", i - 1>>}
         /\ ~(Len(word) > AtomCap) => Refusals(<<kind, word>>, i) = {}
<1> DEFINE t == <<kind, word>>
<1>1. t[1] = kind /\ t[2] = word /\ t[1] # "Int" /\ t[1] \in {"Atom", "Var"}
  OBVIOUS
<1> HIDE DEF t
<1>2. {u \in {t} : u[1] = "Int" /\ u[2] \notin -IntMax - 1 .. IntMax} = {}
  BY <1>1
<1>3. {u \in {t} : u[1] \in {"Atom", "Var"} /\ Len(u[2]) > AtomCap}
        = IF Len(word) > AtomCap THEN {t} ELSE {}
  BY <1>1
<1>4. /\ Len(word) > AtomCap => Refusals(t, i) = {<<"IdentTooLong", i - 1>>}
      /\ ~(Len(word) > AtomCap) => Refusals(t, i) = {}
  BY <1>2, <1>3 DEF Refusals
<1> QED
  BY <1>4 DEF t

LEMMA WrongNumbers ==
  ASSUME NEW n, NEW i
  PROVE  /\ n \notin -IntMax - 1 .. IntMax => Refusals(<<"Int", n>>, i) = {<<"IntOverflow", i - 1>>}
         /\ n \in -IntMax - 1 .. IntMax => Refusals(<<"Int", n>>, i) = {}
<1> DEFINE t == <<"Int", n>>
           Ints == -IntMax - 1 .. IntMax
<1>1. t[1] = "Int" /\ t[2] = n /\ t[1] \notin {"Atom", "Var"}
  OBVIOUS
<1> HIDE DEF t, Ints
<1>2. {u \in {t} : u[1] \in {"Atom", "Var"} /\ Len(u[2]) > AtomCap} = {}
  BY <1>1
<1>3. {u \in {t} : u[1] = "Int" /\ u[2] \notin Ints} = IF n \notin Ints THEN {t} ELSE {}
  BY <1>1
<1>4. /\ n \notin Ints => Refusals(t, i) = {<<"IntOverflow", i - 1>>}
      /\ n \in Ints => Refusals(t, i) = {}
  BY <1>2, <1>3 DEF Refusals, Ints
<1> QED
  BY <1>4 DEF t, Ints

LEMMA PairRight ==
  ASSUME Typed, Following, Pair
  PROVE  Follows'
<1> DEFINE i == pos + 1
<1>1. PICK t \in {<<":", "-", "Neck">>, <<"?", "-", "Query">>, <<"\\", "+", "Not">>} :
        Scanning /\ Peek = t[1] /\ Peek1 = t[2] /\ Emit(<<t[3]>>, pos + 2)
  BY DEF Pair
<1> DEFINE name == t[3]
<1>2. \/ Peek = ":" /\ Peek1 = "-" /\ name = "Neck"
      \/ Peek = "?" /\ Peek1 = "-" /\ name = "Query"
      \/ Peek = "\\" /\ Peek1 = "+" /\ name = "Not"
  BY <1>1
<1> HIDE DEF name
<1>3. Peek # "end" /\ Peek1 # "end"
  BY <1>2
<1>4. /\ text \in Seq(STRING) /\ pos \in Nat /\ i \in 1 .. Len(text) /\ pos < Len(text)
      /\ text[i] = Peek /\ i < Len(text) /\ text[i + 1] = Peek1
  BY <1>3, AtToken
<1>5. NoSkip(text, i)
  <2>1. Peek \notin Blank /\ Peek # "%" /\ Peek # "/"
    BY <1>2 DEF Blank
  <2>2. ~Opening(text, i)
    BY <1>4, <2>1 DEF Opening
  <2> QED
    BY <1>4, <2>1, <2>2, NothingSkipped
<1>6. Longest(text, i, i + 1, <<name>>)
  BY <1>2, <1>4, PairLongest
<1>7. Refusals(<<name>>, i) = {}
  BY <1>2, RightSigns
<1>8. <<name>> \in Tokens
  BY <1>2 DEF Tokens
<1>9. Emit(<<name>>, i + 1) /\ result = Scans /\ UNCHANGED text
  <2>1. pos + 2 = i + 1
    BY <1>4
  <2> QED
    BY <1>1, <2>1 DEF name, Scanning
<1> QED
  BY <1>4, <1>5, <1>6, <1>7, <1>8, <1>9, EmitsRight

LEMMA PunctuationRight ==
  ASSUME Typed, Following, Punctuation
  PROVE  Follows'
<1> DEFINE i == pos + 1
           t == <<Punct[Peek]>>
<1>1. /\ Peek \in DOMAIN Punct /\ ~Signed /\ Emit(t, i) /\ result = Scans /\ UNCHANGED text
  BY DEF Punctuation, Scanning
<1>2. "end" \notin DOMAIN Punct /\ "end" \notin Digits
  BY NoEnd DEF Punct
<1>3. /\ text \in Seq(STRING) /\ i \in 1 .. Len(text) /\ pos < Len(text)
      /\ text[i] = Peek /\ NoSkip(text, i)
      /\ i < Len(text) => text[i + 1] = Peek1
  BY <1>1, <1>2, AtToken
<1>4. Longest(text, i, i, t)
  <2>1. ~(text[i] = "-" /\ i < Len(text) /\ text[i + 1] \in Digits)
    BY <1>1, <1>3 DEF Signed
  <2> QED
    BY <1>1, <1>3, <2>1, PunctLongest
<1>5. t \in {<<Punct[c]>> : c \in DOMAIN Punct}
  BY <1>1
<1>6. t \in Tokens
  BY ONLY <1>5 DEF Tokens
<1>7. Refusals(t, i) = {}
  <2>1. \A c \in DOMAIN Punct : Punct[c] # "Int" /\ Punct[c] # "Atom" /\ Punct[c] # "Var"
    BY ZenonT(40) DEF Punct
  <2> QED
    BY <1>1, <2>1, RightSigns
<1> HIDE DEF t
<1> QED
  BY <1>1, <1>3, <1>4, <1>6, <1>7, EmitsRight

LEMMA NamesRight ==
  ASSUME Typed, Following, NEW kind, NEW first, ScanIdent(kind, first),
         (kind = "Atom" /\ first = Lower) \/ (kind = "Var" /\ first = Upper \cup {"_"})
  PROVE  Follows'
<1> DEFINE i  == pos + 1
           to == RunEnd(Ident, i)
           word == SubSeq(text, i, to)
           t == <<kind, word>>
<1>1. /\ Peek \in first /\ result = Scans /\ UNCHANGED text
      /\ IF to - pos <= AtomCap THEN Emit(t, to) ELSE Refuse("IdentTooLong", pos)
  BY DEF ScanIdent, Scanning
<1>2. Peek \in Ident /\ Peek # "end"
  <2>1. first \subseteq Ident
    BY DEF Ident
  <2> QED
    BY <1>1, <2>1, NoEnd
<1>3. /\ text \in Seq(STRING) /\ pos \in Nat /\ Len(text) \in Nat
      /\ i \in 1 .. Len(text) /\ pos < Len(text) /\ text[i] = Peek /\ NoSkip(text, i)
  BY <1>2, AtToken
<1>4. /\ to \in i .. Len(text) /\ All(text, Ident, i, to)
      /\ \A k \in i .. Len(text) : All(text, Ident, i, k) => k <= to
  BY <1>2, <1>3, NoEnd, LongestRun
<1> HIDE DEF to
<1>10. i \in Int /\ to \in Int /\ i <= to /\ i - 1 = pos /\ to - i + 1 = to - pos /\ to - pos \in Nat \ {0}
  <2>1. pos \in Nat /\ Len(text) \in Nat /\ to \in pos + 1 .. Len(text)
    BY <1>3, <1>4
  <2> QED
    BY ONLY <2>1
<1>5. Longest(text, i, to, t)
  <2>1. (kind = "Atom" /\ text[i] \in Lower) \/ (kind = "Var" /\ text[i] \in Upper \cup {"_"})
    BY <1>1, <1>3
  <2> QED
    BY <1>3, <1>4, <2>1, NameLongest
<1>6. word \in Seq(Ident) /\ Len(word) = to - pos
  <2>1. \A k \in i .. to : text[k] \in Ident
    BY <1>4 DEF All
  <2> QED
    BY <1>10, <2>1, SubSeqProperties
<1>7. /\ Len(word) > AtomCap => Refusals(t, i) = {<<"IdentTooLong", i - 1>>}
      /\ ~(Len(word) > AtomCap) => Refusals(t, i) = {}
  BY WrongNames
<1>8. CASE to - pos <= AtomCap
  <2>1. to - pos \in Nat /\ to - pos \in 1 .. AtomCap
    <3>1. to - pos \in Nat \ {0}
      BY <1>10
    <3> QED
      BY ONLY <1>8, <3>1, TokenizeAssumption
  <2> HIDE DEF word
  <2>2. word \in [1 .. Len(word) -> Ident] /\ Len(word) \in 1 .. AtomCap
    BY <1>6, <2>1, LenProperties
  <2>3. t \in Tokens
    <3>1. word \in Names
      BY <2>2 DEF Names
    <3> QED
      BY <3>1 DEF Tokens
  <2>4. Refusals(t, i) = {}
    <3>1. ~(Len(word) > AtomCap)
      <4>1. Len(word) \in 1 .. AtomCap
        BY <1>6, <2>1
      <4> QED
        BY ONLY <4>1, TokenizeAssumption
    <3> QED
      BY <1>7, <3>1
  <2>5. Emit(t, to)
    BY <1>1, <1>8
  <2> HIDE DEF t
  <2> QED
    BY <1>1, <1>3, <1>5, <2>3, <2>4, <2>5, EmitsRight
<1>9. CASE ~(to - pos <= AtomCap)
  <2>1. i - 1 = pos /\ "IdentTooLong" \in Errors
    BY <1>10 DEF Errors
  <2>2. Len(word) > AtomCap
    <3>1. ~(to - pos <= AtomCap) => to - pos > AtomCap
      BY ONLY <1>10, TokenizeAssumption
    <3> QED
      BY <1>6, <1>9, <3>1
  <2>3. Refusals(t, i) = {<<"IdentTooLong", pos>>}
    BY <1>7, <2>1, <2>2
  <2>4. Refuse("IdentTooLong", pos)
    BY <1>1, <1>9
  <2> HIDE DEF t, word
  <2> QED
    BY <1>1, <1>3, <1>5, <2>1, <2>3, <2>4, WrongRight
<1> QED
  BY <1>8, <1>9

LEMMA NumbersRight ==
  ASSUME Typed, Following, ScanInt
  PROVE  Follows'
<1> DEFINE i    == pos + 1
           from == IF Signed THEN pos + 2 ELSE pos + 1
           to   == RunEnd(Digits, from)
           size == NumberOf(SubSeq(text, from, to))
           n    == IF Signed THEN -size ELSE size
           t    == <<"Int", n>>
<1>1. /\ Peek \in Digits \/ Signed
      /\ result = Scans /\ UNCHANGED text
      /\ IF n \in -IntMax - 1 .. IntMax THEN Emit(t, to) ELSE Refuse("IntOverflow", pos)
  BY DEF ScanInt, Scanning
<1>2. Peek \in Ident \cup DOMAIN Punct /\ Peek # "end"
  <2>1. Digits \subseteq Ident /\ "-" \in DOMAIN Punct
    BY DEF Ident, Punct
  <2> QED
    BY <1>1, <2>1, NoEnd DEF Signed
<1>3. /\ text \in Seq(STRING) /\ pos \in Nat /\ Len(text) \in Nat
      /\ i \in 1 .. Len(text) /\ pos < Len(text) /\ text[i] = Peek /\ NoSkip(text, i)
      /\ i < Len(text) => text[i + 1] = Peek1
      /\ ~(i < Len(text)) => Peek1 = "end"
  BY <1>2, AtToken
<1>4. Longest(text, i, to, t)
  <2>1. CASE Signed
    <3>1. i + 1 \in 1 .. Len(text) /\ i < Len(text) /\ pos + 2 = i + 1
      BY <1>3, <2>1, NoEnd DEF Signed
    <3>2. text[i] = "-" /\ text[i + 1] \in Digits
      BY <1>3, <2>1, <3>1 DEF Signed
    <3> DEFINE j == RunEnd(Digits, i + 1)
    <3>3. /\ j \in i + 1 .. Len(text) /\ All(text, Digits, i + 1, j)
          /\ \A k \in i + 1 .. Len(text) : All(text, Digits, i + 1, k) => k <= j
      BY <3>1, <3>2, NoEnd, LongestRun
    <3>4. to = j /\ t = <<"Int", -NumberOf(SubSeq(text, i + 1, j))>>
      BY <2>1, <3>1
    <3> HIDE DEF j, to, t
    <3> QED
      BY <1>3, <3>2, <3>3, <3>4, NegativeLongest
  <2>2. CASE ~Signed
    <3>1. text[i] \in Digits
      BY <1>1, <1>3, <2>2
    <3> DEFINE j == RunEnd(Digits, i)
    <3>2. /\ j \in i .. Len(text) /\ All(text, Digits, i, j)
          /\ \A k \in i .. Len(text) : All(text, Digits, i, k) => k <= j
      BY <1>3, <3>1, NoEnd, LongestRun
    <3>3. to = j /\ t = <<"Int", NumberOf(SubSeq(text, i, j))>>
      BY <2>2
    <3> HIDE DEF j, to, t
    <3> QED
      BY <1>3, <3>2, <3>3, NumberLongest
  <2> QED
    BY <2>1, <2>2
<1> HIDE DEF n, to
<1>5. /\ n \notin -IntMax - 1 .. IntMax => Refusals(t, i) = {<<"IntOverflow", i - 1>>}
      /\ n \in -IntMax - 1 .. IntMax => Refusals(t, i) = {}
  BY WrongNumbers
<1>6. CASE n \in -IntMax - 1 .. IntMax
  <2>1. t \in Tokens
    BY <1>6 DEF Tokens
  <2>2. Emit(t, to) /\ Refusals(t, i) = {}
    BY <1>1, <1>5, <1>6
  <2> HIDE DEF t
  <2> QED
    BY <1>1, <1>3, <1>4, <2>1, <2>2, EmitsRight
<1>7. CASE n \notin -IntMax - 1 .. IntMax
  <2>1. i - 1 = pos /\ "IntOverflow" \in Errors
    BY <1>3 DEF Errors
  <2>2. Refuse("IntOverflow", pos) /\ Refusals(t, i) = {<<"IntOverflow", pos>>}
    BY <1>1, <1>5, <1>7, <2>1
  <2> HIDE DEF t
  <2> QED
    BY <1>1, <1>3, <1>4, <2>1, <2>2, WrongRight
<1> QED
  BY <1>6, <1>7

LEMMA InvalidRight ==
  ASSUME Typed, Following, InvalidChar
  PROVE  Follows'
<1> DEFINE i == pos + 1
<1>1. /\ result = Scans /\ UNCHANGED text /\ pos < Len(text) /\ Refuse("InvalidChar", pos)
      /\ \/ Peek \notin Blank \cup Ident \cup DOMAIN Punct \cup {"%", "/", ":", "?", "\\"}
         \/ Peek = "/" /\ Peek1 # "*"
         \/ Peek \in {":", "?"} /\ Peek1 # "-"
         \/ Peek = "\\" /\ Peek1 # "+"
  BY DEF InvalidChar, Scanning
<1>2. /\ text \in Seq(STRING) /\ pos \in Nat /\ Len(text) \in Nat
      /\ Peek = text[i] /\ Peek1 = IF pos + 1 < Len(text) THEN text[pos + 2] ELSE "end"
  BY <1>1, Ahead, Looking DEF Typed
<1>3. i \in 1 .. Len(text) /\ pos + 2 = i + 1 /\ i - 1 = pos
  BY <1>1, <1>2
<1>4. i < Len(text) => text[i + 1] = Peek1
  BY <1>2, <1>3
<1>5. /\ Peek \notin Ident /\ Peek \notin DOMAIN Punct /\ Peek \notin Blank /\ Peek # "%"
      /\ Peek = "/" => Peek1 # "*"
      /\ Peek \in {":", "?"} => Peek1 # "-"
      /\ Peek = "\\" => Peek1 # "+"
  <2>1. Peek \in {"/", ":", "?", "\\"} => /\ Peek \notin Ident /\ Peek \notin DOMAIN Punct
                                          /\ Peek \notin Blank /\ Peek # "%"
    <3>1. Peek \in {"/", ":", "?", "\\"} => Peek \in Odd /\ Peek \notin Blank
      BY DEF Odd, Blank
    <3> QED
      BY <3>1, Classes
  <2>2. CASE Peek \notin Blank \cup Ident \cup DOMAIN Punct \cup {"%", "/", ":", "?", "\\"}
    BY <2>2
  <2>3. CASE Peek = "/" /\ Peek1 # "*"
    BY <2>1, <2>3
  <2>4. CASE Peek \in {":", "?"} /\ Peek1 # "-"
    BY <2>1, <2>4
  <2>5. CASE Peek = "\\" /\ Peek1 # "+"
    BY <2>1, <2>5
  <2> QED
    BY <1>1, <2>2, <2>3, <2>4, <2>5
<1>6. ~Opening(text, i)
  BY <1>2, <1>4, <1>5 DEF Opening
<1>7. NoSkip(text, i)
  BY <1>2, <1>5, <1>6, NothingSkipped
<1>8. \A k \in i .. Len(text) : Lexemes(text, i, k) = {}
  <2>1. i < Len(text) /\ text[i] \in {":", "?"} => text[i + 1] # "-"
    BY <1>2, <1>4, <1>5
  <2>2. i < Len(text) /\ text[i] = "\\" => text[i + 1] # "+"
    BY <1>2, <1>4, <1>5
  <2>3. text[i] \notin Ident \cup DOMAIN Punct
    BY <1>2, <1>5
  <2> HIDE DEF i
  <2> QED
    BY <1>2, <1>3, <2>1, <2>2, <2>3, NoLexeme
<1>9. From(text)[i] = [tokens |-> <<>>, end |-> <<"InvalidChar", pos>>]
  <2> HIDE DEF i
  <2> QED
    BY <1>2, <1>3, <1>6, <1>7, <1>8, FromNothing
<1>10. "InvalidChar" \in Errors
  BY DEF Errors
<1> QED
  BY <1>1, <1>9, <1>10, RefusesRight

LEMMA FinishRight ==
  ASSUME Typed, Following, Finish
  PROVE  Follows'
<1>1. /\ result = Scans /\ UNCHANGED text /\ pos = Len(text)
      /\ \/ Push(<<"Eof">>, pos) /\ result' = Okay
         \/ Len(out) = MaxTokens /\ Refuse("Overflow", 0)
  BY DEF Finish, Scanning
<1>2. text \in Seq(STRING) /\ out \in Seq(Tokens) /\ Len(out) \in Nat
  BY DEF Typed, TypeOK
<1>3. Lexed(text).tokens = out /\ Lexed(text).end = Okay
  <2>1. From(text)[pos + 1] = [tokens |-> <<>>, end |-> Okay]
    BY <1>1, <1>2, FromEnd
  <2>2. Lexed(text).tokens = out \o <<>> /\ Lexed(text).end = Okay
    BY <2>1 DEF Following
  <2> QED
    BY <1>2, <2>2, ConcatEmptySeq
<1>4. CASE Push(<<"Eof">>, pos) /\ result' = Okay
  <2>1. /\ text' = text /\ result' = Okay /\ out' = Append(out, <<"Eof">>)
        /\ Len(out) < MaxTokens
    BY <1>1, <1>4 DEF Push
  <2>2. Len(out) + 1 <= MaxTokens
    BY <1>2, <2>1, TokenizeAssumption
  <2>3. result' # Scans
    BY <2>1 DEF Okay, Scans
  <2>4. LongestLexemes'
    BY <1>3, <2>1, <2>2 DEF LongestLexemes
  <2> QED
    BY <2>3, <2>4 DEF Follows
<1>5. CASE Len(out) = MaxTokens /\ Refuse("Overflow", 0)
  <2>1. Len(Lexed(text).tokens) = MaxTokens + 0
    BY <1>2, <1>3, <1>5
  <2> QED
    BY <1>1, <1>3, <1>5, <2>1, OverflowsRight
<1> QED
  BY <1>1, <1>4, <1>5

-----------------------------------------------------------------------------
LEMMA InitFollows == Init => Follows
<1> SUFFICES ASSUME Init PROVE Follows
  OBVIOUS
<1>1. text \in Seq(STRING) /\ pos = 0 /\ out = <<>> /\ result = Scans
  BY TokenizeAssumption DEF Init
<1>2. Lexed(text) = From(text)[pos + 1] /\ pos + 1 = 1 /\ 1 \in 1 .. Len(text) + 1
  BY <1>1, FromPlaces
<1>3. From(text)[1].tokens \in Seq(Pieces(text))
  BY <1>1, <1>2, FromType
<1>4. <<>> \o From(text)[1].tokens = From(text)[1].tokens
  BY <1>3, ConcatEmptySeq
<1> QED
  BY <1>1, <1>2, <1>4 DEF Follows, Following

LEMMA NextFollows == Typed /\ Follows /\ [Next]_vars => Follows'
<1> SUFFICES ASSUME Typed, Follows, [Next]_vars PROVE Follows'
  OBVIOUS
<1>1. CASE UNCHANGED vars
  BY <1>1 DEF vars, Follows, Following, LongestLexemes
<1>2. CASE Step
  <2>1. Following
    BY <1>2 DEF Follows, Step, SkipOver, SkipBlank, SkipLineComment, SkipBlockComment,
                Unterminated, InBlockComment, NextToken, Pair, Punctuation, ScanInt, ScanAtom,
                ScanVar, ScanIdent, InvalidChar, Finish, Scanning
  <2>2. CASE SkipOver
    BY <2>1, <2>2, BlanksRight
  <2>3. CASE Pair
    BY <2>1, <2>3, PairRight
  <2>4. CASE Punctuation
    BY <2>1, <2>4, PunctuationRight
  <2>5. CASE ScanInt
    BY <2>1, <2>5, NumbersRight
  <2>6. CASE ScanAtom
    BY <2>1, <2>6, NamesRight DEF ScanAtom
  <2>7. CASE ScanVar
    BY <2>1, <2>7, NamesRight DEF ScanVar
  <2>8. CASE InvalidChar
    BY <2>1, <2>8, InvalidRight
  <2>9. CASE Finish
    BY <2>1, <2>9, FinishRight
  <2> QED
    BY <1>2, <2>2, <2>3, <2>4, <2>5, <2>6, <2>7, <2>8, <2>9 DEF Step, NextToken
<1> QED
  BY <1>1, <1>2 DEF Next, Ended

(***************************************************************************)
(* What tokenize returns of any text, under any limits, is what the        *)
(* lexical grammar says: the lexemes of the text, each the longest where   *)
(* it begins, or the error of the first place that has none, or that the   *)
(* tokens no longer fit.                                                   *)
(***************************************************************************)
THEOREM LexemesAreLongest == Spec => []LongestLexemes
<1>1. Init => Follows
  BY InitFollows
<1>2. Typed /\ Follows /\ [Next]_vars => Follows'
  BY NextFollows
<1>3. Init => Typed
  BY InitTyped
<1>4. Typed /\ [Next]_vars => Typed'
  BY StaysTyped
<1>5. Follows => LongestLexemes
  <2>1. Scans # Okay
    BY DEF Scans, Okay
  <2> QED
    BY <2>1 DEF Follows, LongestLexemes
<1> QED
  BY <1>1, <1>2, <1>3, <1>4, <1>5, PTL DEF Spec
=============================================================================
