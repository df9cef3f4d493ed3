-------------------------------- MODULE Aml --------------------------------
(***************************************************************************)
(* The aml stack of the ardendo plugin (input_aml_stack.cpp): a Forth that *)
(* builds filter graphs.  A client gives it tokens; the interpreter is     *)
(* re-entrant, for words run words, files are read on the way, and a word  *)
(* of the client (see py/aml/thread_stack.py) gives commands of its own    *)
(* while it is asked.  Whether a token is defined, collected for a loop,   *)
(* skipped, taken by the word before it or run is decided token by token   *)
(* from a dozen members; any error resets them and keeps the stacks.       *)
(*                                                                         *)
(* What the C++ stack holds is explicit: exec is execution_stack_ with the *)
(* callers between its entries.  Undefined behaviour of the code (back()   *)
(* of an empty vector) sets broken and ends the run.                       *)
(*                                                                         *)
(* Left out: frames, properties other than slots, pipes, output, words for *)
(* trigonometry, formats in strings, comparison of names, words for packs  *)
(* given what is no pack, and words of the client that take a token.       *)
(*                                                                         *)
(* A definition marked as a mutant is what a plausible slip would make of  *)
(* the one after it; the properties tell the two apart.                    *)
(***************************************************************************)
EXTENDS Integers, Sequences, SequencesExt, FiniteSets, TLC

CONSTANTS
  Numerals,   \* the number a token stands for
  Slots,      \* the number of slots a token "slots=n" assigns
  Files,      \* the lines of each aml file
  Sources,    \* the names of the inputs that can be opened
  Host,       \* the commands that each word of the client gives
  Lines,      \* the lines the client may give
  WellFormed, \* those of them in which all words are closed
  MaxLines    \* bound: how many lines it gives

VARIABLES
  d,       \* the data: see TypeOK
  m,       \* the control: see TypeOK
  result,  \* prop_result_
  broken,  \* the code did something undefined
  clean,   \* history: since the last reset all lines were well formed
  before,  \* history: the last line, and d, words and clean before it
  given    \* bound: the lines given

vars == <<d, m, result, broken, clean, before, given>>

Null == [null |-> TRUE]
Num(n) == [num |-> n]        \* stack_value
Str(t) == [str |-> t]        \* input_value
Input(t) == [input |-> t]    \* a delayed input
Pack(k) == [pack |-> k]      \* a playlist filter, an object of the heap

Numeric(x) == "num" \in DOMAIN x \/ ("str" \in DOMAIN x /\ x.str \in DOMAIN Numerals)

Value(x) == IF "num" \in DOMAIN x THEN x.num ELSE IF Numeric(x) THEN Numerals[x.str] ELSE 0

Uri(x) == CASE "num" \in DOMAIN x ->
                 IF \E t \in DOMAIN Numerals : Numerals[t] = x.num
                 THEN CHOOSE t \in DOMAIN Numerals : Numerals[t] = x.num ELSE "number"
            [] "str" \in DOMAIN x -> x.str
            [] "input" \in DOMAIN x -> x.input
            [] "pack" \in DOMAIN x -> "playlist"

-----------------------------------------------------------------------------
(* The data.  ok tells whether what is being done has failed, top and val  *)
(* are what was popped last.                                               *)

Failed(e) == [e EXCEPT !.ok = FALSE]

IsLocal(e, name) == \E i \in DOMAIN e.scopes : name \in DOMAIN e.scopes[i]

\* slots_ has the size slot_count() had when it was last connected
FetchSlot(e, k, i) == IF i \in DOMAIN e.heap[k].slots THEN e.heap[k].slots[i] ELSE Null

Connect(e, k, i, x) ==
  LET sized == [j \in 1..e.heap[k].count |-> FetchSlot(e, k, j)]
  IN  [e EXCEPT !.heap[k].slots = IF i \in DOMAIN sized THEN [sized EXCEPT ![i] = x] ELSE sized]

Resize(e, k, n) == [e EXCEPT !.heap[k].count = n]

\* Popping connects a filter: it takes what it lacks from the stack.
RECURSIVE Pop(_), Fill(_, _, _)
Pop(e) ==
  IF ~e.ok \/ e.in = <<>> THEN Failed(e)
  ELSE LET x == Last(e.in)
           f == [e EXCEPT !.in = Front(@), !.top = x]
       IN  CASE "pack" \in DOMAIN x -> Fill(f, x, e.heap[x.pack].count)
             [] "input" \in DOMAIN x -> [f EXCEPT !.ok = IsLocal(e, x.input) \/ x.input \in Sources]
             [] OTHER -> f

Fill(e, x, i) ==
  IF i = 0 THEN [e EXCEPT !.top = x]
  ELSE IF FetchSlot(e, x.pack, i) # Null THEN Fill(e, x, i - 1)
  ELSE LET f == Pop(e)
       IN  IF f.ok THEN Fill(Connect(f, x.pack, i, f.top), x, i - 1) ELSE f

PopValue(e) ==
  IF ~e.ok \/ e.in = <<>> THEN Failed(e)
  ELSE [e EXCEPT !.in = Front(@), !.val = Value(Last(e.in))]

Push(e, x) == IF ~e.ok \/ x = Null THEN Failed(e) ELSE [e EXCEPT !.in = Append(@, x)]

\* push( pop( ) ), before every operation
Evaluate(e) == IF e.in = <<>> THEN e ELSE LET f == Pop(e) IN Push(f, f.top)

PushNumber(e, n) == Push(IF e.ok THEN Evaluate(e) ELSE e, Num(n))

Plus(e) == LET a == PopValue(e) b == PopValue(a) IN PushNumber(b, b.val + a.val)
Minus(e) == LET a == PopValue(e) b == PopValue(a) IN PushNumber(b, b.val - a.val)

Truth(p) == IF p THEN 1 ELSE 0

Equal(e) ==
  LET b == Pop(e)
      a == Pop(b)
      same == \/ a.top = b.top
              \/ IF Numeric(a.top) /\ Numeric(b.top) THEN Value(a.top) = Value(b.top)
                                                     ELSE Uri(a.top) = Uri(b.top)
  IN  IF a.ok THEN PushNumber(a, Truth(same)) ELSE a

Less(e) ==
  LET b == Pop(e) a == Pop(b)
  IN  IF a.ok THEN PushNumber(a, Truth(Value(a.top) < Value(b.top))) ELSE a

Drop(e) == Pop(e)

\* The place of the item n below the top, and 0 if there is none.
Below(s, n) == IF n \in 0..Len(s) - 1 THEN Len(s) - n ELSE 0

Pick(e) ==
  LET a == PopValue(e) i == Below(a.in, a.val)
  IN  IF ~a.ok \/ i = 0 THEN Failed(a) ELSE Push(a, a.in[i])

Roll(e) ==
  LET a == PopValue(e) i == Below(a.in, a.val)
  IN  IF ~a.ok \/ i = 0 THEN Failed(a)
      ELSE Push([a EXCEPT !.in = RemoveAt(@, i)], a.in[i])

Shift(e) ==
  LET a == PopValue(e) b == Pop(a)
  IN  IF ~a.ok \/ Below(a.in, a.val) = 0 THEN Failed(a)
      ELSE [b EXCEPT !.in = InsertAt(@, Len(@) - a.val + 1, b.top)]

Depth(e) == PushNumber(e, Len(e.in))

ToReturn(e) == LET a == Pop(e) IN IF a.ok THEN [a EXCEPT !.r = Append(@, a.top)] ELSE a
FromReturn(e) == IF e.r = <<>> THEN Failed(e) ELSE Push([e EXCEPT !.r = Front(@)], Last(e.r))
CopyReturn(e) == IF e.r = <<>> THEN Failed(e) ELSE Push(e, Last(e.r))
DropReturn(e) == IF e.r = <<>> THEN Failed(e) ELSE [e EXCEPT !.r = Front(@)]
DepthOfReturn(e) == PushNumber(e, Len(e.r))

PickReturn(e) ==
  LET a == PopValue(e) i == Below(a.r, a.val)
  IN  IF ~a.ok \/ i = 0 THEN Failed(a) ELSE Push(a, a.r[i])

RollReturn(e) ==
  LET a == PopValue(e) i == Below(a.r, a.val)
  IN  IF ~a.ok \/ i = 0 THEN Failed(a) ELSE [Push(a, a.r[i]) EXCEPT !.r = RemoveAt(@, i)]

NewPack(e, n) == Push([e EXCEPT !.heap = Append(@, [count |-> n, slots |-> <<Null>>])],
                      Pack(Len(e.heap) + 1))

MakePack(e) == LET a == PopValue(e) IN IF a.ok THEN NewPack(a, a.val) ELSE a

AppendToPack(e) ==
  LET v == Pop(e) l == Pop(v) k == l.top.pack n == l.heap[k].count + 1
  IN  IF l.ok THEN Connect(Resize(Push(l, l.top), k, n), k, n, v.top) ELSE l

\* Places are counted from the end when negative.
At(e, k, i) == IF i < 0 THEN e.heap[k].count + i + 1 ELSE i + 1

\* connecting one by one, from the last to the place itself
InsertInPack(e) ==
  LET o == PopValue(e) v == Pop(o) l == Pop(v) k == l.top.pack
      i == At(l, k, o.val) n == l.heap[k].count
      slots == [j \in 1..n + 1 |-> IF j < i THEN FetchSlot(l, k, j)
                                   ELSE IF j = i THEN v.top ELSE FetchSlot(l, k, j - 1)]
  IN  IF ~l.ok THEN l
      ELSE IF i \notin 1..n + 1 THEN Failed(Push(l, l.top))
      ELSE [Push(l, l.top) EXCEPT !.heap[k] = [count |-> n + 1, slots |-> slots]]

RemoveFromPack(e) ==
  LET o == PopValue(e) l == Pop(o) k == l.top.pack
      i == At(l, k, o.val) n == l.heap[k].count
      slots == [j \in 1..n |-> FetchSlot(l, k, IF j < i THEN j ELSE j + 1)]
  IN  IF ~l.ok THEN l
      ELSE IF i \notin 1..n THEN Failed(Push(l, l.top))
      ELSE [Push(l, l.top) EXCEPT !.heap[k] = [count |-> n - 1, slots |-> slots]]

QueryPack(e) ==
  LET o == PopValue(e) l == Pop(o) k == l.top.pack i == At(l, k, o.val)
  IN  IF ~l.ok THEN l
      ELSE IF i \in 1..l.heap[k].count THEN Push(Push(l, l.top), FetchSlot(l, k, i))
      ELSE Failed(Push(l, l.top))

AssignInPack(e) ==
  LET o == PopValue(e) v == Pop(o) l == Pop(v) k == l.top.pack i == At(l, k, o.val)
  IN  IF ~l.ok THEN l
      ELSE IF i \in 1..l.heap[k].count THEN Connect(Push(l, l.top), k, i, v.top)
      ELSE Failed(Push(l, l.top))

CountSlots(e) ==
  LET a == Pop(e)
  IN  IF a.ok THEN PushNumber(Push(a, a.top),
                              IF "pack" \in DOMAIN a.top THEN a.heap[a.top.pack].count ELSE 0)
              ELSE a

\* the items of a pack, one after the other
RECURSIVE PushSlots(_, _, _)
PushSlots(e, k, i) == IF i > e.heap[k].count THEN e
                      ELSE PushSlots(Push(e, FetchSlot(e, k, i)), k, i + 1)

Decap(e) ==
  LET a == Pop(e)
  IN  IF ~a.ok THEN a
      ELSE IF "pack" \in DOMAIN a.top /\ a.heap[a.top.pack].count > 0 THEN PushSlots(a, a.top.pack, 1)
      ELSE Push(a, a.top)

Disconnect(e) ==
  LET a == Pop(e) k == a.top.pack
  IN  IF ~a.ok THEN a
      ELSE Push(IF "pack" \in DOMAIN a.top
                THEN [a EXCEPT !.heap[k].slots = [j \in 1..a.heap[k].count |-> Null]]
                ELSE a, a.top)

\* the innermost scope that has the name, and 0 if none has
ScopeOf(e, name) ==
  LET S == {i \in DOMAIN e.scopes : name \in DOMAIN e.scopes[i]}
  IN  IF S = {} THEN 0 ELSE CHOOSE i \in S : \A j \in S : j <= i

AssignLocal(e, name, x) ==
  LET i == ScopeOf(e, name)
  IN  IF ~e.ok \/ i = 0 THEN Failed(e) ELSE [e EXCEPT !.scopes[i][name] = x]

Assign(e) == LET a == Pop(e) b == Pop(a) IN IF b.ok THEN AssignLocal(b, Uri(a.top), b.top) ELSE b

Deref(e) ==
  LET a == Pop(e)
      i == ScopeOf(a, Uri(a.top))
  IN  IF ~a.ok \/ i = 0 THEN Failed(a) ELSE Push(a, a.scopes[i][Uri(a.top)])

\* the word's input is given to the parent, which keeps it
Dot(e) == LET a == Pop(e) IN IF a.ok THEN [a EXCEPT !.tos = a.top] ELSE a
Recover(e) == Push(e, e.tos)

DataOps == [op \in {"+", "-", "=", "<", "drop", "eval", "pick", "roll", "shift", "depth?",
                    ">r", "r>", "r@", "rdrop", "rdepth?", "rpick", "rroll",
                    "pack", "pack&", "pack+", "pack-", "pack@", "pack!", "slots?", "decap",
                    "transplant", "!", "@", ".", "recover"} |-> TRUE]

DataOp(op, e) ==
  CASE op = "+" -> Plus(e)           [] op = "-" -> Minus(e)
    [] op = "=" -> Equal(e)          [] op = "<" -> Less(e)
    [] op = "drop" -> Drop(e)        [] op = "eval" -> Evaluate(e)
    [] op = "pick" -> Pick(e)        [] op = "roll" -> Roll(e)
    [] op = "shift" -> Shift(e)      [] op = "depth?" -> Depth(e)
    [] op = ">r" -> ToReturn(e)      [] op = "r>" -> FromReturn(e)
    [] op = "r@" -> CopyReturn(e)    [] op = "rdrop" -> DropReturn(e)
    [] op = "rdepth?" -> DepthOfReturn(e)
    [] op = "rpick" -> PickReturn(e) [] op = "rroll" -> RollReturn(e)
    [] op = "pack" -> MakePack(e)    [] op = "pack&" -> AppendToPack(e)
    [] op = "pack+" -> InsertInPack(e) [] op = "pack-" -> RemoveFromPack(e)
    [] op = "pack@" -> QueryPack(e)  [] op = "pack!" -> AssignInPack(e)
    [] op = "slots?" -> CountSlots(e) [] op = "decap" -> Decap(e)
    [] op = "transplant" -> Disconnect(e)
    [] op = "!" -> Assign(e)         [] op = "@" -> Deref(e)
    [] op = "." -> Dot(e)            [] op = "recover" -> Recover(e)

-----------------------------------------------------------------------------
(* The control.  An entry of exec is a sequence of execution_stack_ ("line",*)
(* "word", "inline", the loops and "query", the dummy of a client's word)   *)
(* or a caller that waits: "command" (a token the client gives), "execute", *)
(* "tokens" (the items of a pack) and "file".                               *)

Frame(kind, words) ==
  [kind |-> kind, words |-> words, pos |-> 1, parse |-> kind = "line", n |-> 0, item |-> Null]

\* a loop that looks at its condition before the first round
Counted(kind, words, x) == [Frame(kind, words) EXCEPT !.pos = Len(words) + 1, !.item = x]

Callers == {"command", "execute", "tokens", "file"}
Sequences == {i \in DOMAIN m.exec : m.exec[i].kind \notin Callers}
Current == CHOOSE i \in Sequences : \A j \in Sequences : j <= i

Top == Last(m.exec)
Running == m.exec # <<>> /\ ~broken
HasToken == Running /\ Top.pos <= Len(Top.words)
AtEnd(kind) == Running /\ Top.kind = kind /\ Top.pos > Len(Top.words)
Token == Top.words[Top.pos]

Took == [m EXCEPT !.exec[Len(m.exec)].pos = @ + 1]
Calls(n, f) == [n EXCEPT !.exec = Append(@, f)]
Returns(n) == [n EXCEPT !.exec = Front(@)]

\* mutant: a skipped branch stays skipped
ResetKeepingConds(n) ==
  [n EXCEPT !.state = 0, !.word = <<>>, !.count = 0, !.loops = <<>>, !.loopCount = 0,
            !.loopCond = <<>>, !.pending = <<>>, !.nextExec = "none", !.exec = <<>>]

\* ignore_ and paths_ are not reset, the return stack and the inputs are kept
Reset(n) ==
  [n EXCEPT !.state = 0, !.word = <<>>, !.count = 0, !.loops = <<>>, !.loopCount = 0,
            !.conds = <<TRUE>>, !.loopCond = <<>>, !.pending = <<>>, !.nextExec = "none",
            !.exec = <<>>]

\* the catch of the command that runs; the commands of a client's word have
\* one of their own, which resets what the caller goes on to use
Outcome(e, n) ==
  /\ d' = [e EXCEPT !.ok = TRUE, !.top = Null, !.val = 0,
                    !.scopes = IF e.ok THEN @ ELSE <<@[1]>>]
  /\ m' = IF e.ok THEN n ELSE Reset(m)
  /\ result' = IF ~e.ok THEN "error" ELSE IF n.exec = <<>> THEN "OK" ELSE result
  /\ broken' = (~e.ok /\ \E i \in Sequences : m.exec[i].kind = "query")
  /\ clean' = (clean \/ ~e.ok)
  /\ UNCHANGED <<before, given>>

Breaks ==
  /\ broken' = TRUE
  /\ UNCHANGED <<d, m, result, clean, before, given>>

\* execute_operation: the item on top is evaluated, unless something is open
Ready == IF m.state = 0 THEN Evaluate(d) ELSE d

Branches == {"if", "else", "then"}
LoopWords == {"begin", "until", "repeat", "iter_start", "iter_slots", "iter_range"}
LoopEnds == LoopWords \ {"begin", "iter_start"}
TakingOps == {"$", "variable", "variable!", "forget", "throw"}
ControlOps == Branches \cup LoopWords \cup TakingOps
                \cup {":", ";", "while", "execute", "parse", "parseable"}

\* push( token ): what is done with a token
Meaning(t) ==
  IF t = "reset!" THEN "reset"
  ELSE IF m.state = 1 /\ (t \notin {":", ";"} \/ m.ignore) THEN "define"
  ELSE IF m.pending = <<>> /\ t \in DOMAIN m.inline THEN "inline"
  ELSE IF m.state = 2 /\ t \notin LoopWords THEN "collect"
  ELSE IF ~Last(m.conds) /\ t \notin Branches THEN "skip"
  ELSE IF m.pending # <<>> THEN "pending"
  ELSE IF t \in DOMAIN Last(d.scopes) THEN "local"
  ELSE IF t \in DOMAIN Host THEN "host"
  ELSE IF t \in DOMAIN m.words THEN "word"
  ELSE IF t \in DOMAIN DataOps \cup ControlOps THEN t
  ELSE IF t \in DOMAIN Numerals THEN "number"
  ELSE IF t \in DOMAIN Slots THEN "assign"
  ELSE IF t \in DOMAIN Files THEN "file"
  ELSE IF t = "filter:playlist" THEN "filter"
  ELSE "input"

Given(what) == HasToken /\ Meaning(Token) = what

Cancel == Given("reset") /\ Outcome(Failed(d), m)

Define ==
  /\ Given("define")
  /\ Outcome(d, [Took EXCEPT !.word = Append(@, Token), !.ignore = ~@ /\ Token = "$"])

Inline == Given("inline") /\ Outcome(d, Calls(Took, Frame("inline", m.inline[Token])))

Collect == Given("collect") /\ Outcome(d, [Took EXCEPT !.loops = Append(@, Token)])

Skip == Given("skip") /\ Outcome(d, Took)

Local == Given("local") /\ Outcome([d EXCEPT !.in = Append(@, Str(Token))], Took)

\* handled(): the commands of the client run inside
HostWord == Given("host") /\ Outcome(d, Calls(Took, Frame("query", Host[Token])))

\* mutant: the scope stays that of the caller
WordInScope ==
  /\ Given("word")
  /\ Outcome(d, Calls(Took, Frame("word", m.words[Token])))

Word ==
  /\ Given("word")
  /\ Outcome([d EXCEPT !.scopes = Append(@, <<>>)], Calls(Took, Frame("word", m.words[Token])))

Operate == \E op \in DOMAIN DataOps : Given(op) /\ Outcome(DataOp(op, Ready), Took)

Number == Given("number") /\ Outcome(PushNumber(d, Numerals[Token]), Took)

AssignSlots ==
  /\ Given("assign")
  /\ LET x == IF d.in = <<>> THEN Null ELSE Last(d.in)
     IN  Outcome(IF "pack" \in DOMAIN x THEN Resize(d, x.pack, Slots[Token]) ELSE Failed(d), Took)

CreateFilter ==
  /\ Given("filter")
  /\ LET e == Evaluate(d) IN Outcome(IF e.ok THEN NewPack(e, 2) ELSE e, Took)

CreateInput == Given("input") /\ Outcome(Push(Evaluate(d), Input(Token)), Took)

\* parse_file: each line is a sequence of its own
ParseFile ==
  /\ Given("file")
  /\ Outcome(d, Calls([Took EXCEPT !.paths = @ + 1],
                      [Frame("file", <<>>) EXCEPT !.item = Str(Token)]))

Colon ==
  /\ Given(":")
  /\ Outcome(Ready, IF m.state = 0 THEN [Took EXCEPT !.state = 1, !.count = 1]
                    ELSE [Took EXCEPT !.count = @ + 1, !.word = Append(@, ":")])

\* commit_word
Committed(n) ==
  LET name == n.word[1]
      body == Tail(n.word)
      done == [n EXCEPT !.state = 0, !.count = 0, !.word = <<>>]
  IN  IF body[1] = "inline" THEN [done EXCEPT !.inline = (name :> Tail(body)) @@ @]
                            ELSE [done EXCEPT !.words = (name :> body) @@ @]

\* word_[ 0 ] of a word without a body
SemiColon ==
  /\ Given(";")
  /\ IF m.state = 1 /\ m.count = 1 /\ Len(m.word) = 1 THEN Breaks
     ELSE IF m.state = 1 /\ m.count = 1 /\ m.word # <<>> THEN Outcome(Ready, Committed(Took))
     ELSE IF m.count > 1 THEN Outcome(Ready, [Took EXCEPT !.count = @ - 1, !.word = Append(@, ";")])
     ELSE Outcome(Failed(Ready), Took)

If ==
  /\ Given("if")
  /\ LET e == IF Last(m.conds) THEN PopValue(Ready) ELSE Ready
     IN  Outcome(e, [Took EXCEPT !.conds = Append(@, Last(m.conds) /\ e.val # 0)])

Else ==
  /\ Given("else")
  /\ IF Len(m.conds) < 2 THEN Breaks
     ELSE Outcome(Ready, [Took EXCEPT !.conds[Len(m.conds)] = m.conds[Len(m.conds) - 1] /\ ~@])

\* without an if conds_ is empty for the next token
Then ==
  /\ Given("then")
  /\ IF Len(m.conds) < 2 THEN Breaks ELSE Outcome(Ready, [Took EXCEPT !.conds = Front(@)])

LoopStart ==
  /\ Given("begin") \/ Given("iter_start")
  /\ Outcome(Ready, [Took EXCEPT !.state = IF m.loopCount = 0 THEN 2 ELSE @,
                                 !.loops = IF m.loopCount = 0 THEN @ ELSE Append(@, Token),
                                 !.loopCount = @ + 1])

\* A loop inside another one is collected with it; the outermost one runs.
LoopEnd ==
  /\ \E op \in LoopEnds : Given(op)
  /\ LET counted == Token \in {"iter_slots", "iter_range"}
         e == IF counted THEN Pop(Ready) ELSE Ready
         n == [Took EXCEPT !.state = 0, !.loops = <<>>, !.loopCount = 0]
     IN  IF m.loopCount # 1
         THEN Outcome(Ready, [Took EXCEPT !.loopCount = @ - 1, !.loops = Append(@, Token)])
         ELSE Outcome(e, Calls(n, IF counted THEN Counted(Token, m.loops, e.top)
                                             ELSE Frame(Token, m.loops)))

\* a condition that does not hold ends the sequence that runs
While ==
  /\ Given("while")
  /\ IF Sequences = {} THEN Breaks
     ELSE LET e == PopValue(Ready)
              n == [Took EXCEPT !.loopCond = Append(@, e.val # 0)]
          IN  Outcome(e, IF e.val # 0 THEN n
                         ELSE [n EXCEPT !.exec[Current].pos = Len(m.exec[Current].words) + 1])

\* the words that take the token after them, and what they do with it
TakingWord == \E op \in TakingOps : Given(op) /\ Outcome(Ready, [Took EXCEPT !.pending = <<op>>])

NewLocal(e, name, x) ==
  LET here == Last(e.scopes)
  IN  IF ~e.ok \/ name \in DOMAIN here THEN Failed(e)
      ELSE [e EXCEPT !.scopes[Len(e.scopes)] = (name :> x) @@ here]

Forgets(n, name) ==
  LET Without(f) == [w \in DOMAIN f \ {name} |-> f[w]]
  IN  IF name \in DOMAIN n.words THEN [n EXCEPT !.words = Without(@)]
                                 ELSE [n EXCEPT !.inline = Without(@)]

Takes(op, e, n) ==
  LET a == Pop(e)
      b == Pop(a)
      name == Uri(a.top)
      known == DOMAIN n.words \cup DOMAIN n.inline
  IN  CASE op = "$" -> Outcome(Push(a, a.top), n)
        [] op = "variable" -> Outcome(NewLocal(a, name, Null), n)
        [] op = "variable!" -> Outcome(NewLocal(b, name, b.top), n)
        [] op = "forget" -> IF name \in known THEN Outcome(a, Forgets(n, name)) ELSE Outcome(Failed(a), n)
        [] op = "throw" -> Outcome(Failed(a), n)

Pending ==
  /\ Given("pending")
  /\ LET e == Ready
     IN  Takes(Last(m.pending), IF e.ok THEN [e EXCEPT !.in = Append(@, Str(Token))] ELSE e,
               [Took EXCEPT !.pending = Front(@)])

\* The sequences under the one that runs, and the first that is asked: one
\* that may be parsed, unless its next token is another parse.
Parsed(i) == i \in Sequences \ {Current} /\ (m.exec[i].parse \/ m.exec[Current].kind = "query")
Again(i) == m.exec[i].pos <= Len(m.exec[i].words) /\ m.exec[i].words[m.exec[i].pos] = "parse"

Parse ==
  /\ Given("parse")
  /\ LET S == {i \in DOMAIN m.exec : Parsed(i) /\ ~Again(i)}
         from == IF S = {} THEN 0 ELSE CHOOSE i \in S : \A j \in S : j <= i
         f == m.exec[from]
         more == from # 0 /\ f.pos <= Len(f.words)
         e == Evaluate(Ready)
         n == [Took EXCEPT !.exec = [i \in DOMAIN @ |->
                 IF (i = from /\ more) \/ (i > from /\ Parsed(i)) THEN [@[i] EXCEPT !.pos = @ + 1]
                 ELSE @[i]]]
     IN  Outcome(IF e.ok THEN [e EXCEPT !.in = Append(@, Str(IF more THEN f.words[f.pos] ELSE ""))]
                 ELSE e, n)

Parseable ==
  /\ Given("parseable")
  /\ Outcome(Ready, IF Sequences = {} THEN Took ELSE [Took EXCEPT !.exec[Current].parse = TRUE])

Execute ==
  /\ Given("execute")
  /\ LET e == Pop(Ready)
         k == e.top.pack
         tokens == [i \in 1..e.heap[k].count |-> Uri(FetchSlot(e, k, i))]
     IN  IF ~e.ok THEN Outcome(e, m)
         ELSE IF "pack" \in DOMAIN e.top /\ e.heap[k].count > 0 THEN Outcome(e, Calls(Took, Frame("tokens", tokens)))
         ELSE IF m.nextExec = "none" THEN Outcome(e, Calls(Took, Frame("execute", <<Uri(e.top)>>)))
         ELSE Takes(m.nextExec, [e EXCEPT !.in = Append(@, e.top)], [Took EXCEPT !.nextExec = "none"])

-----------------------------------------------------------------------------
(* Where a sequence ends.                                                  *)

EndRun ==
  /\ \E kind \in {"line", "inline", "command", "tokens", "query"} : AtEnd(kind)
  /\ Outcome(d, Returns(m))

EndWord == AtEnd("word") /\ Outcome([d EXCEPT !.scopes = Front(@)], Returns(m))

\* The word that was executed may have been one that takes a token: the next
\* execute gives it one.
EndExecute ==
  /\ AtEnd("execute")
  /\ Outcome(d, IF m.pending = <<>> THEN [Returns(m) EXCEPT !.nextExec = "none"]
                ELSE [Returns(m) EXCEPT !.nextExec = Last(m.pending), !.pending = Front(@)])

EndFile ==
  /\ AtEnd("file")
  /\ LET lines == Files[Top.item.str]
         next == [m EXCEPT !.exec[Len(m.exec)].n = @ + 1]
     IN  Outcome(d, IF Top.n = Len(lines) THEN [Returns(m) EXCEPT !.paths = @ - 1]
                    ELSE Calls(next, Frame("line", lines[Top.n + 1])))

Restarted == [m EXCEPT !.exec[Len(m.exec)].pos = 1]

EndUntil ==
  /\ AtEnd("until")
  /\ LET e == PopValue(d) IN Outcome(e, IF e.val # 0 THEN Returns(m) ELSE Restarted)

EndRepeat ==
  /\ AtEnd("repeat")
  /\ IF m.loopCond = <<>> THEN Breaks
     ELSE Outcome(d, [IF Last(m.loopCond) THEN Restarted ELSE Returns(m) EXCEPT !.loopCond = Front(@)])

\* iter_slots and iter_range: the next item, or the end
NextRound ==
  /\ \/ AtEnd("iter_slots")
     \/ AtEnd("iter_range")
  /\ LET x == Top.item
         slots == Top.kind = "iter_slots"
         last == IF ~slots THEN Value(x)
                 ELSE IF "pack" \in DOMAIN x THEN d.heap[x.pack].count ELSE 0
         next == [Restarted EXCEPT !.exec[Len(m.exec)].n = @ + 1]
     IN  IF Top.n < last
         THEN Outcome(IF slots THEN Push(d, FetchSlot(d, x.pack, Top.n + 1)) ELSE PushNumber(d, Top.n), next)
         ELSE Outcome(IF slots THEN Push(d, x) ELSE d, Returns(m))

-----------------------------------------------------------------------------
(* The client, and the whole.                                              *)

Calm == m.exec = <<>> /\ ~broken

\* the commands property, or the command property when kind is "command"
Give ==
  /\ Calm /\ given < MaxLines
  /\ \E l \in Lines, kind \in {"line", "command"} :
       /\ kind = "command" => Len(l) = 1
       /\ m' = [m EXCEPT !.exec = <<Frame(kind, l)>>]
       /\ before' = [line |-> l, d |-> d, words |-> m.words, inline |-> m.inline, clean |-> clean]
       /\ clean' = (clean /\ l \in WellFormed)
  /\ given' = given + 1
  /\ UNCHANGED <<d, result, broken>>

Init ==
  /\ d = [in |-> <<>>, r |-> <<>>, heap |-> <<>>, scopes |-> <<<<>>>>, tos |-> Null,
          top |-> Null, val |-> 0, ok |-> TRUE]
  /\ m = [words |-> <<>>, inline |-> <<>>, state |-> 0, word |-> <<>>, count |-> 0,
          ignore |-> FALSE, loops |-> <<>>, loopCount |-> 0, conds |-> <<TRUE>>,
          loopCond |-> <<>>, pending |-> <<>>, nextExec |-> "none", exec |-> <<>>, paths |-> 1]
  /\ result = "OK" /\ broken = FALSE /\ clean = TRUE /\ given = 0
  /\ before = [line |-> <<>>, d |-> d, words |-> <<>>, inline |-> <<>>, clean |-> TRUE]

Dispatch == \/ Cancel \/ Define \/ Inline \/ Collect \/ Skip \/ Pending \/ Local \/ HostWord \/ Word
            \/ Operate \/ Number \/ AssignSlots \/ CreateFilter \/ CreateInput \/ ParseFile
            \/ Colon \/ SemiColon \/ If \/ Else \/ Then \/ LoopStart \/ LoopEnd \/ While
            \/ TakingWord \/ Parse \/ Parseable \/ Execute

Next == Give \/ Dispatch \/ EndRun \/ EndWord \/ EndExecute \/ EndFile \/ EndUntil \/ EndRepeat \/ NextRound

Spec == Init /\ [][Next]_vars

-----------------------------------------------------------------------------
IsItem(x) == \/ x \in [num : Int] \/ x \in [str : STRING] \/ x \in [input : STRING]
             \/ x \in [pack : DOMAIN d.heap]
AllItems(s) == \A i \in DOMAIN s : IsItem(s[i])

(* The data and the control keep their types: what refers to the heap      *)
(* exists, there is always a scope and a condition to look at, and a word  *)
(* or a loop is open exactly while its tokens are collected.               *)
TypeOK ==
  /\ AllItems(d.in) /\ AllItems(d.r) /\ (d.tos = Null \/ IsItem(d.tos))
  /\ \A k \in DOMAIN d.heap : /\ d.heap[k].count \in Nat
                             /\ AllItems(SelectSeq(d.heap[k].slots, LAMBDA x : x # Null))
  /\ d.scopes # <<>> /\ m.conds # <<>> /\ d.ok
  /\ m.state \in 0..2 /\ m.paths \in Nat \ {0} /\ result \in {"OK", "error"}
  /\ (m.state = 1) = (m.count > 0)
  /\ m.state = 2 => m.loopCount > 0
  /\ Len(m.pending) <= 1

(* A scope of local variables is opened for each word that runs and for    *)
(* nothing else, whatever ran in between and however it ended: a variable  *)
(* never outlives its word, nor is a caller's scope taken away.            *)
ScopesMatchWords ==
  TypeOK /\ (~broken => Len(d.scopes) = 1 + Cardinality({i \in DOMAIN m.exec : m.exec[i].kind = "word"}))
=============================================================================
