------------------------------ MODULE Tokenize ------------------------------
(***************************************************************************)
(* tokenize: the cursor over the bytes of a program text, one action per   *)
(* turn of its loops and per refusal.  A text is a sequence of characters. *)
(* The reference it is checked against says, without a cursor, what the    *)
(* tokens of a text are: the text is cut into pieces, each as long as the  *)
(* lexical grammar allows where it begins.                                 *)
(***************************************************************************)
EXTENDS Integers, Sequences, FiniteSetsExt

CONSTANTS
  Sources,    \* the texts
  MaxTokens,  \* MAX_TOKENS
  AtomCap,    \* ATOM_CAP
  IntMax      \* i32::MAX

ASSUME TokenizeAssumption ==
  /\ Sources \subseteq Seq(STRING)
  /\ MaxTokens \in Nat \ {0} /\ AtomCap \in Nat \ {0} /\ IntMax \in Nat

VARIABLES
  text,
  pos,        \* Cursor.pos: how many characters are read
  out,        \* the tokens so far
  result      \* <<"scanning">>, <<"ok">>, or <<error, where>>

vars == <<text, pos, out, result>>

-----------------------------------------------------------------------------
(* The bytes the scanner tells apart.                                      *)
Blank  == {" ", "\t", "\n", "\r"}
Digit  == <<"0", "1", "2", "3", "4", "5", "6", "7", "8", "9">>
Digits == {Digit[d] : d \in DOMAIN Digit}
Lower  == {"a", "b", "c", "d", "e", "f", "g", "h", "i", "j", "k", "l", "m",
           "n", "o", "p", "q", "r", "s", "t", "u", "v", "w", "x", "y", "z"}
Upper  == {"A", "B", "C", "D", "E", "F", "G", "H", "I", "J", "K", "L", "M",
           "N", "O", "P", "Q", "R", "S", "T", "U", "V", "W", "X", "Y", "Z"}
Ident  == Lower \cup Upper \cup Digits \cup {"_"}

Punct  == [c \in {"(", ")", "[", "]", ",", ".", "|", "!", "+", "-", "<", ">", "="} |->
             CASE c = "(" -> "LParen"   [] c = ")" -> "RParen"
               [] c = "[" -> "LBracket" [] c = "]" -> "RBracket"
               [] c = "," -> "Comma"    [] c = "." -> "Dot"
               [] c = "|" -> "Pipe"     [] c = "!" -> "Cut"
               [] c = "+" -> "Plus"     [] c = "-" -> "Minus"
               [] c = "<" -> "Lt"       [] c = ">" -> "Gt"     [] c = "=" -> "Eq"]

(* peek and peek_at; "end" past the end, which is no character.            *)
At(i) == IF i \in DOMAIN text THEN text[i] ELSE "end"
Peek  == At(pos + 1)
Peek1 == At(pos + 2)

(* Where a run of characters of S that begins at i ends.                   *)
RunEnd(S, i) == Min({j \in i .. Len(text) + 1 : At(j) \notin S}) - 1

(* parse::<i32> of digits, without its width.                              *)
NumberOf(s) ==
  LET Val[i \in 0 .. Len(s)] ==
        IF i = 0 THEN 0 ELSE 10 * Val[i - 1] + (CHOOSE d \in 1 .. 10 : Digit[d] = s[i]) - 1
  IN  Val[Len(s)]

Scans == <<"scanning">>
Okay  == <<"ok">>

-----------------------------------------------------------------------------
Init ==
  /\ text \in Sources
  /\ pos = 0
  /\ out = <<>>
  /\ result = Scans

Scanning == result = Scans /\ UNCHANGED text

Refuse(error, at) == result' = <<error, at>> /\ UNCHANGED <<pos, out>>
Skip(to)          == pos' = to /\ UNCHANGED <<out, result>>

Push(token, to) ==
  /\ Len(out) < MaxTokens
  /\ out' = Append(out, token)
  /\ pos' = to

Emit(token, to) ==
  \/ Push(token, to) /\ UNCHANGED result
  \/ Len(out) = MaxTokens /\ Refuse("Overflow", 0)

(* skip_ws_and_comments.                                                   *)
SkipBlank == Scanning /\ Peek \in Blank /\ Skip(pos + 1)

SkipLineComment ==
  /\ Scanning /\ Peek = "%"
  /\ Skip(Min({j \in pos + 1 .. Len(text) : text[j] = "\n"} \cup {Len(text)}))

Closings == {j \in pos + 3 .. Len(text) - 1 : text[j] = "*" /\ text[j + 1] = "/"}

InBlockComment == Scanning /\ Peek = "/" /\ Peek1 = "*"

SkipBlockComment == InBlockComment /\ Closings # {} /\ Skip(Min(Closings) + 1)

(* Mutant: the end of the text is not looked for.                          *)
SlipUnterminated == InBlockComment /\ Closings = {} /\ Skip(pos)

Unterminated ==
  InBlockComment /\ Closings = {} /\ Refuse("UnterminatedBlockComment", pos)

(* next_token, in the order of its tests.                                  *)
Pair ==
  \E t \in {<<":", "-", "Neck">>, <<"?", "-", "Query">>, <<"\\", "+", "Not">>} :
    /\ Scanning /\ Peek = t[1] /\ Peek1 = t[2]
    /\ Emit(<<t[3]>>, pos + 2)

(* Mutant: what follows the sign is not looked at.                         *)
SlipSigned == Peek = "-"

Signed == Peek = "-" /\ Peek1 \in Digits

Punctuation ==
  /\ Scanning /\ Peek \in DOMAIN Punct /\ ~Signed
  /\ Emit(<<Punct[Peek]>>, pos + 1)

ScanInt ==
  LET from == IF Signed THEN pos + 2 ELSE pos + 1
      to   == RunEnd(Digits, from)
      size == NumberOf(SubSeq(text, from, to))
      n    == IF Signed THEN -size ELSE size
  IN  /\ Scanning /\ (Peek \in Digits \/ Signed)
      /\ IF n \in -IntMax - 1 .. IntMax
           THEN Emit(<<"Int", n>>, to)
           ELSE Refuse("IntOverflow", pos)

(* Mutant: a name of any length is taken.                                  *)
SlipScanIdent(kind, first) ==
  LET to == RunEnd(Ident, pos + 1)
  IN  Scanning /\ Peek \in first /\ Emit(<<kind, SubSeq(text, pos + 1, to)>>, to)

ScanIdent(kind, first) ==
  LET to == RunEnd(Ident, pos + 1)
  IN  /\ Scanning /\ Peek \in first
      /\ IF to - pos <= AtomCap
           THEN Emit(<<kind, SubSeq(text, pos + 1, to)>>, to)
           ELSE Refuse("IdentTooLong", pos)

ScanAtom == ScanIdent("Atom", Lower)
ScanVar  == ScanIdent("Var", Upper \cup {"_"})

(* A character that begins nothing.                                        *)
InvalidChar ==
  /\ Scanning /\ pos < Len(text)
  /\ \/ Peek \notin Blank \cup Ident \cup DOMAIN Punct \cup {"%", "/", ":", "?", "\\"}
     \/ Peek = "/" /\ Peek1 # "*"
     \/ Peek \in {":", "?"} /\ Peek1 # "-"
     \/ Peek = "\\" /\ Peek1 # "+"
  /\ Refuse("InvalidChar", pos)

Finish ==
  /\ Scanning /\ pos = Len(text)
  /\ \/ Push(<<"Eof">>, pos) /\ result' = Okay
     \/ Len(out) = MaxTokens /\ Refuse("Overflow", 0)

Ended == result # Scans /\ UNCHANGED vars

SkipOver == SkipBlank \/ SkipLineComment \/ SkipBlockComment \/ Unterminated
NextToken == Pair \/ Punctuation \/ ScanInt \/ ScanAtom \/ ScanVar \/ InvalidChar
Step == SkipOver \/ NextToken \/ Finish
Next == Step \/ Ended

(* tokenize runs until it returns.                                         *)
Spec == Init /\ [][Next]_vars /\ WF_vars(Step)
-----------------------------------------------------------------------------
Names  == UNION {[1 .. n -> Ident] : n \in 1 .. AtomCap}
Tokens == ({"Int"} \X (-IntMax - 1 .. IntMax)) \cup ({"Atom", "Var"} \X Names)
            \cup {<<Punct[c]>> : c \in DOMAIN Punct} \cup {<<"Neck">>, <<"Query">>, <<"Not">>, <<"Eof">>}
Errors == {"UnterminatedBlockComment", "InvalidChar", "IntOverflow", "IdentTooLong", "Overflow"}

TypeOK ==
  /\ pos \in 0 .. Len(text)
  /\ out \in Seq(Tokens) /\ Len(out) <= MaxTokens
  /\ result \in {Scans, Okay} \cup (Errors \X (0 .. Len(text)))

-----------------------------------------------------------------------------
(* The lexical grammar: what the characters i .. j of a text may be.       *)
All(s, S, i, j) == i <= j /\ \A k \in i .. j : s[k] \in S

Opening(s, i) == i < Len(s) /\ s[i] = "/" /\ s[i + 1] = "*"

Skipped(s, i, j) ==
  \/ i = j /\ s[i] \in Blank
  \/ s[i] = "%" /\ (\A k \in i .. j - 1 : s[k] # "\n") /\ (s[j] = "\n" \/ j = Len(s))
  \/ /\ i + 3 <= j /\ Opening(s, i)
     /\ \A k \in i + 2 .. j - 1 : s[k] = "*" /\ s[k + 1] = "/" <=> k = j - 1

Lexemes(s, i, j) ==
  LET word == SubSeq(s, i, j)
  IN  {<<Punct[c]>> : c \in {d \in DOMAIN Punct : word = <<d>>}}
        \cup {<<"Neck">>  : x \in {w \in {word} : w = <<":", "-">>}}
        \cup {<<"Query">> : x \in {w \in {word} : w = <<"?", "-">>}}
        \cup {<<"Not">>   : x \in {w \in {word} : w = <<"\\", "+">>}}
        \cup {<<"Int", NumberOf(w)>> : w \in {v \in {word} : All(s, Digits, i, j)}}
        \cup {<<"Int", -NumberOf(Tail(w))>> : w \in {v \in {word} : v[1] = "-" /\ All(s, Digits, i + 1, j)}}
        \cup {<<"Atom", w>> : w \in {v \in {word} : v[1] \in Lower /\ All(s, Ident, i, j)}}
        \cup {<<"Var", w>>  : w \in {v \in {word} : v[1] \in Upper \cup {"_"} /\ All(s, Ident, i, j)}}

(* What is wrong with a token that begins at i.                            *)
Refusals(token, i) ==
  {<<"IntOverflow", i - 1>>  : t \in {u \in {token} : u[1] = "Int" /\ u[2] \notin -IntMax - 1 .. IntMax}}
    \cup {<<"IdentTooLong", i - 1>> : t \in {u \in {token} : u[1] \in {"Atom", "Var"} /\ Len(u[2]) > AtomCap}}

(***************************************************************************)
(* The lexemes of a text from i on, each the longest that begins where the *)
(* one before ended, and why there are no more.  From[j] says the same of  *)
(* the places j after i.                                                   *)
(***************************************************************************)
LexedAt(s, From, i) ==
  LET skips == {j \in i .. Len(s) : Skipped(s, i, j)}
      ends  == {j \in i .. Len(s) : Lexemes(s, i, j) # {}}
      token == CHOOSE t \in Lexemes(s, i, Max(ends)) : TRUE
      wrong == Refusals(token, i)
      rest  == From[Max(ends) + 1]
  IN  IF i > Len(s) THEN [tokens |-> <<>>, end |-> Okay]
      ELSE IF skips # {} THEN From[Max(skips) + 1]
      ELSE IF ends = {}
        THEN [tokens |-> <<>>,
              end    |-> <<IF Opening(s, i) THEN "UnterminatedBlockComment" ELSE "InvalidChar", i - 1>>]
      ELSE IF wrong # {} THEN [tokens |-> <<>>, end |-> CHOOSE e \in wrong : TRUE]
      ELSE [tokens |-> <<token>> \o rest.tokens, end |-> rest.end]

Lexed(s) ==
  LET From[i \in 1 .. Len(s) + 1] == LexedAt(s, From, i)
  IN  From[1]

(***************************************************************************)
(* tokenize returns the lexemes of the text, of which each is the longest  *)
(* possible where it begins ("X-2" is a variable and the number -2, "12a"  *)
(* a number and an atom), or the error of the first place where the text   *)
(* has none, where one is too large, or where the tokens no longer fit.    *)
(***************************************************************************)
LongestLexemes ==
  LET lexed == Lexed(text)
      room  == Len(lexed.tokens) + (IF lexed.end = Okay THEN 1 ELSE 0) <= MaxTokens
  IN  /\ result = Okay => room /\ lexed.end = Okay /\ out = Append(lexed.tokens, <<"Eof">>)
      /\ result # Scans /\ result # Okay =>
           IF room THEN result = lexed.end /\ out = lexed.tokens ELSE result[1] = "Overflow"

(***************************************************************************)
(* tokenize returns, whatever the text: every turn of its loops reads on   *)
(* or refuses.                                                             *)
(***************************************************************************)
Returns == <>(result # Scans)
=============================================================================
