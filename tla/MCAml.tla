------------------------------- MODULE MCAml -------------------------------
(***************************************************************************)
(* What a well-formed line means, structure by structure, to compare the   *)
(* token machine of Aml with; and the lines for TLC, made of these         *)
(* structures, with some that are not well formed between them.            *)
(***************************************************************************)
EXTENDS Aml

CONSTANT Programs  \* the well-formed lines, as structures

Do(t) == [do |-> t]                  \* a number or a word of DataOps
Quote(t) == [quote |-> t]            \* $ t
Choice(a, b) == [then |-> a, else |-> b]
Repeat(c, b) == [test |-> c, body |-> b]
Until(b) == [until |-> b]
Each(how, b) == [each |-> how, body |-> b]
Call(w) == [call |-> w]
Var(x) == [var |-> x]                \* variable! x
Def(w, b) == [def |-> w, body |-> b]

RECURSIVE Text(_)
TextOf(s) ==
  LET F == DOMAIN s IN
  CASE "do" \in F -> <<s.do>>
    [] "quote" \in F -> <<"$", s.quote>>
    [] "then" \in F -> <<"if">> \o Text(s.then) \o (IF s.else = <<>> THEN <<>> ELSE <<"else">> \o Text(s.else)) \o <<"then">>
    [] "test" \in F -> <<"begin">> \o Text(s.test) \o <<"while">> \o Text(s.body) \o <<"repeat">>
    [] "until" \in F -> <<"begin">> \o Text(s.until) \o <<"until">>
    [] "each" \in F -> <<"iter_start">> \o Text(s.body) \o <<s.each>>
    [] "call" \in F -> <<s.call>>
    [] "var" \in F -> <<"variable!", s.var>>
    [] "def" \in F -> <<":", s.def>> \o Text(s.body) \o <<";">>
Text(p) == IF p = <<>> THEN <<>> ELSE TextOf(Head(p)) \o Text(Tail(p))

\* x is the data and the structures of the words
RECURSIVE Denote(_, _), Rounds(_, _, _, _)
DenoteOf(s, x) ==
  LET F == DOMAIN s
      e == Evaluate(x.d)
      c == PopValue(e)
      On(p, y) == IF y.d.ok THEN Denote(p, y) ELSE y
      With(f) == [x EXCEPT !.d = f]
  IN
  CASE "do" \in F -> With(IF s.do \in DOMAIN Last(x.d.scopes) THEN Push(x.d, Str(s.do))
                          ELSE IF s.do \in DOMAIN DataOps THEN DataOp(s.do, e)
                          ELSE IF s.do \in DOMAIN Numerals THEN PushNumber(x.d, Numerals[s.do])
                          ELSE Push(e, Input(s.do)))
    [] "quote" \in F -> With(Push(e, Str(s.quote)))
    [] "then" \in F -> On(IF c.val # 0 THEN s.then ELSE s.else, With(c))
    [] "test" \in F ->
         LET y == Denote(s.test, x)
             t == IF y.d.ok THEN PopValue(Evaluate(y.d)) ELSE y.d
             z == [y EXCEPT !.d = t]
         IN  IF t.ok /\ t.val # 0 THEN On(<<s>>, On(s.body, z)) ELSE z
    [] "until" \in F ->
         LET y == Denote(s.until, x)
             t == IF y.d.ok THEN PopValue(y.d) ELSE y.d
             z == [y EXCEPT !.d = t]
         IN  IF t.ok /\ t.val = 0 THEN On(<<s>>, z) ELSE z
    [] "each" \in F ->
         LET p == Pop(e) IN IF p.ok THEN Rounds(s, p.top, 0, With(p)) ELSE With(p)
    [] "call" \in F ->
         IF s.call \notin DOMAIN x.words THEN With(Push(e, Input(s.call))) ELSE
         LET y == Denote(x.words[s.call], With([x.d EXCEPT !.scopes = Append(@, <<>>)]))
         IN  [y EXCEPT !.d.scopes = IF y.d.ok THEN Front(@) ELSE @]
    [] "var" \in F ->
         LET v == Pop(e) IN With(NewLocal(v, s.var, v.top))
    [] "def" \in F -> [x EXCEPT !.d = e, !.words = IF e.ok THEN (s.def :> s.body) @@ @ ELSE @]

Denote(p, x) == IF p = <<>> \/ ~x.d.ok THEN x ELSE Denote(Tail(p), DenoteOf(Head(p), x))

Rounds(s, item, n, x) ==
  LET slots == s.each = "iter_slots"
      last == IF slots THEN x.d.heap[item.pack].count ELSE Value(item)
      next == IF slots THEN Push(x.d, FetchSlot(x.d, item.pack, n + 1)) ELSE PushNumber(x.d, n)
  IN  IF ~x.d.ok THEN x
      ELSE IF n < last THEN Rounds(s, item, n + 1, IF next.ok THEN Denote(s.body, [x EXCEPT !.d = next])
                                                   ELSE [x EXCEPT !.d = next])
      ELSE IF slots THEN [x EXCEPT !.d = Push(@, item)] ELSE x

\* the words of the programs as structures: each has a name of its own
Bodies == UNION {{p[i] : i \in DOMAIN p} : p \in Programs}
Defines(s, w, words) == "def" \in DOMAIN s /\ s.def = w /\ Text(s.body) = words[w]
Structures(words) ==
  [w \in {v \in DOMAIN words : \E s \in Bodies : Defines(s, v, words)} |->
     (CHOOSE s \in Bodies : Defines(s, w, words)).body]

Rest(e) == [e EXCEPT !.ok = TRUE, !.top = Null, !.val = 0, !.scopes = IF e.ok THEN @ ELSE <<@[1]>>]

(* A line in which all words are closed means what its structure says -    *)
(* branches, loops in loops, words with their own variables - wherever it  *)
(* is given: after other lines, after a line that failed in the middle of  *)
(* branches, loops and words, after a reset.  Nothing that a line leaves   *)
(* half done changes the next one, once an error was reported.             *)
LineMeansItself ==
  Calm /\ before.clean => \A p \in Programs :
    Text(p) = before.line =>
      LET x == Denote(p, [d |-> before.d, words |-> Structures(before.words)])
      IN  /\ d = Rest(x.d) /\ (result = "OK") = x.d.ok
          /\ DOMAIN m.words = DOMAIN before.words \cup DOMAIN x.words
          /\ \A w \in DOMAIN x.words : m.words[w] = Text(x.words[w])
          /\ x.d.ok => m.state = 0 /\ m.conds = <<TRUE>> /\ m.loopCond = <<>> /\ m.pending = <<>>
-----------------------------------------------------------------------------
MCNumerals == [t \in {"-1", "0", "1", "2"} |->
                 CASE t = "-1" -> -1 [] t = "0" -> 0 [] t = "1" -> 1 [] t = "2" -> 2]
Words(S) == [i \in DOMAIN S |-> Do(S[i])]

MCPrograms == {
  Words(<<"1", "2">>),
  Words(<<"1", "roll", "-">>),
  Words(<<"+", "drop">>),
  <<Do("0"), Choice(<<Do("1"), Choice(Words(<<"2">>), <<>>)>>, Words(<<"-1">>))>>,
  <<Choice(<<Do("0"), Choice(<<Do("drop")>>, <<Do("1")>>)>>, <<Do("1"), Choice(<<Do("2")>>, <<>>), Do("+")>>)>>,
  <<Do("2"), Do("0"), Choice(<<Until(<<Do("1")>>)>>, <<Do("1")>>),
    Repeat(Words(<<"0", "pick">>), <<Do("-1"), Do("+"), Do("0"), Choice(<<Do("drop")>>, <<>>)>>)>>,
  <<Do("2"), Each("iter_range", <<Do("2"), Each("iter_range", <<Do("+")>>)>>)>>,
  <<Do("2"), Until(Words(<<"-1", "+", "0", "pick", "0", "=">>))>>,
  <<Def("w", <<Var("x"), Do("x"), Do("@"), Choice(<<Do("x"), Do("@"), Do("-1"), Do("+"), Call("w")>>, <<Do("x"), Do("@")>>)>>)>>,
  <<Do("2"), Call("w")>>,
  <<Def("v", <<Do("x"), Do("@"), Do("1"), Do("+"), Do("x"), Do("!")>>),
    Def("u", <<Var("x"), Call("v"), Do("x"), Do("@")>>)>>,
  <<Do("1"), Call("u"), Call("u")>>,
  Words(<<"0", "pack", "0", "pick", "1", "pack&", "2", "0", "pack+", "drop", "1", "pack-", "decap">>),
  <<Quote("1"), Quote("if"), Do("1"), Do(">r"), Do("2"), Do("pack"), Do("eval"), Each("iter_slots", <<Do("r@")>>), Do("r>")>>
}
MCWellFormed == {Text(p) : p \in MCPrograms}
MCLines == MCWellFormed \cup {
  <<":", "w", "1">>,
  <<"0", "if", "begin", "1">>,
  <<"1", "if", "begin", "2", "iter_start">>,
  <<"2", "iter_range", "until">>,
  <<"reset!">>,
  <<";">>,
  <<"1", "begin", "1", "if", "0", "while", "then", "repeat">>,
  <<"$">>,
  <<"variable", "x", "x", "@">>,
  <<":", "i", "inline", "if", "$", ";">>,
  <<"0", "i">>,
  <<"forget", "w">>,
  <<"a.aml", "throw">>,
  <<"filter:playlist", "slots=1", "1", "pack@">>,
  <<"1", "$", "variable!", "execute", "$", "y", "execute", "$", "y", "1", "pack", "execute">>,
  <<":", "q", "parse", ";", ":", "p", "parseable", "q", "2", ";", "p">>,
  <<"else">>, <<"while">>, <<"begin", "1", "repeat">>, <<":", "e", ";">>,
  <<"host">>
}
MCFiles == [f \in {"a.aml"} |-> << <<"1", "host">>, <<"parse", "2", "drop">> >>]
MCHost == [w \in {"host"} |-> <<"0", "pick">>]
MCSlots == [t \in {"slots=1"} |-> 1]
=============================================================================
