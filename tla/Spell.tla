-------------------------------- MODULE Spell --------------------------------
(***************************************************************************)
(* A program as an author writes it, in the tokens of Tokenize: lists in   *)
(* brackets, operators between their operands, negation in front.          *)
(***************************************************************************)
EXTENDS Integers, Sequences, SequencesExt

TokenOf == [f \in {"+", "-", "<", ">", "="} |->
              CASE f = "+" -> "Plus" [] f = "-" -> "Minus" [] f = "<" -> "Lt"
                [] f = ">" -> "Gt"   [] f = "=" -> "Eq"]

Commas(words) ==
  [i \in 1 .. 2 * Len(words) - 1 |-> IF i % 2 = 1 THEN words[(i + 1) \div 2] ELSE <<<<"Comma">>>>]

RECURSIVE Spell(_), SpellRest(_)
Spell(t) ==
  LET name  == t[2]
      args  == t[3]
      words == FlattenSeq(Commas([i \in DOMAIN args |-> Spell(args[i])]))
  IN  CASE t = <<"NIL">>          -> <<<<"LBracket">>, <<"RBracket">>>>
        [] t = <<"ATOM", "!">>    -> <<<<"Cut">>>>
        [] t[1] = "ATOM" /\ t # <<"ATOM", "!">> -> <<<<"Atom", name>>>>
        [] t[1] = "VAR"           -> <<<<"Var", name>>>>
        [] t[1] = "INT"           -> <<<<"Int", name>>>>
        [] t[1] = "STR" ->
             CASE name = "."        -> <<<<"LBracket">>>> \o SpellRest(t) \o <<<<"RBracket">>>>
               [] name = "\\+"      -> <<<<"Not">>>> \o Spell(args[1])
               [] name = "is"       -> Spell(args[1]) \o <<<<"Atom", "is">>>> \o Spell(args[2])
               [] name \in DOMAIN TokenOf -> Spell(args[1]) \o <<<<TokenOf[name]>>>> \o Spell(args[2])
               [] OTHER             -> <<<<"Atom", name>>, <<"LParen">>>> \o words \o <<<<"RParen">>>>

SpellRest(t) ==
  LET h == Spell(t[3][1])
      r == t[3][2]
  IN  CASE r = <<"NIL">> -> h
        [] r[1] = "STR"  -> h \o <<<<"Comma">>>> \o SpellRest(r)
        [] OTHER         -> h \o <<<<"Pipe">>>> \o Spell(r)

SpellClause(k) ==
  LET goals == FlattenSeq(Commas([i \in DOMAIN k.body |-> Spell(k.body[i])]))
  IN  CASE k.kind = "fact"  -> Spell(k.head) \o <<<<"Dot">>>>
        [] k.kind = "rule"  -> Spell(k.head) \o <<<<"Neck">>>> \o goals \o <<<<"Dot">>>>
        [] k.kind = "query" -> <<<<"Query">>>> \o goals \o <<<<"Dot">>>>

SpellProgram(p) ==
  Append(FlattenSeq([i \in DOMAIN p |-> SpellClause(p[i])]), <<"Eof">>)
=============================================================================
