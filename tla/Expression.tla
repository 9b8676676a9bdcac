----------------------------- MODULE Expression -----------------------------
(***************************************************************************)
(* The evaluator of operand expressions: get_expr of expression.c over the *)
(* recursive-descent parser of tinyexpr_bitw.c.  An expression is the      *)
(* sequence of its tokens, <<"num", n>>, <<"name", x>>, <<"op", o>>,       *)
(* <<"open">> and <<"close">>, or <<"bad">> for a character the tokenizer  *)
(* refuses; how digits and letters are spelled is left out.  The tree of   *)
(* te_expr nodes is evaluated once and freed, so the parser here yields    *)
(* values; a divisor of zero and a shift by 32 or more are undefined in    *)
(* C and outside the domain of Apply.                                      *)
(***************************************************************************)
EXTENDS Word, Sequences
LOCAL INSTANCE FiniteSetsExt

\* The binary infix operators, by the function of the grammar that takes them.
Additive       == {"+", "-", "<<", ">>", "^", "|", "&"}
Multiplicative == {"*", "/"}
UnaryOps       == {"+", "-", "~"}

NoWord == -1

------------------------------------------------------------------------------
\* An int as 32 bits, bit 31 the sign.
Positions == 0 .. 31
One(a, i) == IF i = 31 THEN a < 0 ELSE (a \div 2^i) % 2 = 1
OfBits(ones) ==
  LET low31 == MapThenSumSet(LAMBDA i : 2^i, ones \ {31})
  IN  IF 31 \in ones THEN (low31 - 2147483647) - 1 ELSE low31

\* Division in C rounds towards zero.
Quotient(a, b) ==
  LET abs(x) == IF x < 0 THEN - x ELSE x
      q == abs(a) \div abs(b)
  IN  IF (a < 0) = (b < 0) THEN q ELSE - q

\* The functions behind the operators and the two builtin names.
Apply(op, a, b) ==
  CASE op = "+"  -> a + b
    [] op = "-"  -> a - b
    [] op = "*"  -> a * b
    [] op = "/"  -> Quotient(a, b)
    [] op = "<<" -> OfBits({i \in Positions : i >= b /\ One(a, i - b)})
    [] op = ">>" -> OfBits({i \in Positions : i + b <= 31 /\ One(a, i + b)})
    [] op = "^"  -> OfBits({i \in Positions : One(a, i) # One(b, i)})
    [] op = "|"  -> OfBits({i \in Positions : One(a, i) \/ One(b, i)})
    [] op = "&"  -> OfBits({i \in Positions : One(a, i) /\ One(b, i)})

Not(a) == - a - 1
Builtin == [low |-> [w \in Addr |-> Lo(w)], high |-> [w \in Addr |-> Hi(w)]]

------------------------------------------------------------------------------
\* find_lookup: the first entry of the table with this name.
Known(env, name) == \E i \in DOMAIN env : env[i].key = name

\* Mutant of Lookup: the last entry.
LookupLast(env, name) ==
  env[CHOOSE i \in DOMAIN env :
        /\ env[i].key = name
        /\ \A j \in (i + 1) .. Len(env) : env[j].key # name].val

Lookup(env, name) ==
  env[CHOOSE i \in DOMAIN env :
        env[i].key = name /\ \A j \in 1 .. (i - 1) : env[j].key # name].val

\* The parser is at a token of the text with the value read so far, or has
\* met TOK_ERROR, which nothing takes back.
At(at, val) == [at |-> at, val |-> val, ok |-> TRUE]
Error(at)   == [at |-> at, val |-> 0, ok |-> FALSE]

Token(text, at) == IF at \in DOMAIN text THEN text[at] ELSE <<"end">>
IsOp(token, ops) == token[1] = "op" /\ token[2] \in ops

RECURSIVE Expr(_, _, _), Base(_, _, _), Chain(_, _, _, _, _)

\* Mutant of Power: a sign is taken, whatever it is.
PowerUnsigned(text, env, at) ==
  LET past == CHOOSE j \in at .. (Len(text) + 1) :
                /\ ~ IsOp(Token(text, j), UnaryOps)
                /\ \A k \in at .. (j - 1) : IsOp(text[k], UnaryOps)
  IN  Base(text, env, past)

\* power: a run of signs before a base.  Two minus signs cancel; a ~ counts
\* once, and not at all when the run is negative.
Power(text, env, at) ==
  LET past == CHOOSE j \in at .. (Len(text) + 1) :
                /\ ~ IsOp(Token(text, j), UnaryOps)
                /\ \A k \in at .. (j - 1) : IsOp(text[k], UnaryOps)
      minuses == Quantify(at .. (past - 1), LAMBDA k : text[k][2] = "-")
      base == Base(text, env, past)
  IN  CASE minuses % 2 = 1 -> [base EXCEPT !.val = - @]
        [] minuses % 2 = 0 /\ \E k \in at .. (past - 1) : text[k][2] = "~" ->
             [base EXCEPT !.val = Not(@)]
        [] OTHER -> base

\* base: a number, a name of the table, one of the two functions applied to
\* a power, or an expression in parentheses.  A name of the table hides the
\* function of that name.
Base(text, env, at) ==
  LET t == Token(text, at)
  IN  CASE t[1] = "num" -> At(at + 1, t[2])
        [] t[1] = "name" /\ Known(env, t[2]) -> At(at + 1, Lookup(env, t[2]))
        [] t[1] = "name" /\ ~ Known(env, t[2]) /\ t[2] \in DOMAIN Builtin ->
             LET p == Power(text, env, at + 1)
             IN  [p EXCEPT !.val = Builtin[t[2]][U16(@)]]
        [] t[1] = "open" ->
             LET e == Expr(text, env, at + 1)
             IN  IF e.ok /\ Token(text, e.at)[1] = "close"
                 THEN [e EXCEPT !.at = @ + 1] ELSE Error(e.at)
        [] OTHER -> Error(at)

\* The loops of term and expr: operators of one level, from left to right.
\* factor adds nothing: its operator, pow, is never a token.
Chain(text, env, left, ops, isTerm) ==
  LET t == Token(text, left.at)
      right == IF isTerm THEN Power(text, env, left.at + 1)
               ELSE Chain(text, env, Power(text, env, left.at + 1),
                          Multiplicative, TRUE)
  IN  IF ~ left.ok \/ ~ IsOp(t, ops) THEN left
      ELSE IF ~ right.ok THEN right
      ELSE Chain(text, env, [right EXCEPT !.val = Apply(t[2], left.val, @)],
                 ops, isTerm)

Term(text, env, at) ==
  Chain(text, env, Power(text, env, at), Multiplicative, TRUE)
Expr(text, env, at) ==
  Chain(text, env, Term(text, env, at), Additive, FALSE)

\* get_expr: the whole text has to be used up; the value is cut to 16 bits.
\* The comma of list ends the operand before te_compile could see one.
Get_expr(text, env) ==
  LET e == Expr(text, env, 1)
  IN  IF e.ok /\ e.at = Len(text) + 1 THEN U16(e.val) ELSE NoWord

------------------------------------------------------------------------------
\* What an expression is meant to be: a tree <<"num", n>>, <<"name", x>>,
\* <<"call", f, e>>, <<"neg", e>>, <<"not", e>> or <<o, l, r>>.  * and / bind
\* tighter than all the other operators, which share one level; operators of
\* a level go from left to right; a sign goes before an operand that is a
\* name, a number, a call or in parentheses.
Level(e) == IF e[1] \in Additive THEN 1
            ELSE IF e[1] \in Multiplicative THEN 2
            ELSE IF e[1] \in {"neg", "not"} THEN 3 ELSE 4

\* The tree written down with no more parentheses than that calls for.
RECURSIVE Written(_)
Written(e) ==
  LET from(level, x) == IF Level(x) >= level THEN Written(x)
                        ELSE <<<<"open">>>> \o Written(x) \o <<<<"close">>>>
  IN  CASE e[1] \in {"num", "name"} -> <<e>>
        [] e[1] = "call" -> <<<<"name", e[2]>>, <<"open">>>> \o Written(e[3])
                              \o <<<<"close">>>>
        [] e[1] = "neg"  -> <<<<"op", "-">>>> \o from(4, e[2])
        [] e[1] = "not"  -> <<<<"op", "~">>>> \o from(4, e[2])
        [] e[1] = "raw"  -> e[2]
        [] OTHER -> from(Level(e), e[2]) \o <<<<"op", e[1]>>>>
                      \o from(Level(e) + 1, e[3])

\* Its value, where value(x) is that of a name.
RECURSIVE Eval(_, _)
Eval(e, value) ==
  CASE e[1] = "num"  -> e[2]
    [] e[1] = "name" -> value[e[2]]
    [] e[1] = "call" -> LET w == U16(Eval(e[3], value))
                        IN  IF e[2] = "low" THEN w % 256 ELSE w \div 256
    [] e[1] = "neg"  -> - Eval(e[2], value)
    [] e[1] = "not"  -> Not(Eval(e[2], value))
    [] OTHER -> Apply(e[1], Eval(e[2], value), Eval(e[3], value))

RECURSIVE Names(_)
Names(e) == CASE e[1] = "num" -> {}
              [] e[1] = "name" -> {e[2]}
              [] e[1] = "call" -> Names(e[3])
              [] e[1] \in {"neg", "not"} -> Names(e[2])
              [] OTHER -> Names(e[2]) \cup Names(e[3])

\* A text with an error in it, <<"raw", tokens>>, and a tree that names what
\* is not defined have no value.
MeaningOf(e, value) ==
  IF e[1] # "raw" /\ Names(e) \subseteq DOMAIN value
  THEN U16(Eval(e, value)) ELSE NoWord
=============================================================================
