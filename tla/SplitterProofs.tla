--------------------------- MODULE SplitterProofs ---------------------------
(***************************************************************************)
(* The splitter cuts every script where its author did, however long,      *)
(* whatever characters stand in its elements, and knows SQL from comments  *)
(* unless a block comment before the SQL holds the sign of a line comment. *)
(***************************************************************************)
EXTENDS StatementSplitter, PrefixInduction, SequenceTheorems, FiniteSetTheorems

-----------------------------------------------------------------------------
(* ELEMENTS                                                                *)

(* The elements that may be written at all, of which Elements are some.    *)
AnyElement == {e \in [kind : Kinds, body : Seq(Character)] : MayHold(e.kind, e.body)}

LEMMA ElementsAreAny == Elements \subseteq AnyElement
<1>1. ASSUME NEW k \in Kinds, NEW b \in Bodies[k]
      PROVE  [kind |-> k, body |-> b] \in AnyElement
  BY ScriptAssumption DEF AnyElement
<1>. QED
  BY <1>1 DEF Elements

LEMMA BracketsAre ==
    /\ Opens["line"] = <<"dash", "dash">> /\ Closes["line"] = <<"newline">>
    /\ Opens["block"] = <<"slash", "star">> /\ Closes["block"] = <<"star", "slash">>
    /\ Opens["string"] = <<"quote">> /\ Closes["string"] = <<"quote">>
    /\ Opens["identifier"] = <<"double_quote">> /\ Closes["identifier"] = <<"double_quote">>
    /\ Opens["dollar"] = <<"dollar", "dollar">> /\ Closes["dollar"] = <<"dollar", "dollar">>
BY DEF Opens, Closes

LEMMA BracketType ==
    ASSUME NEW k \in Inside
    PROVE  /\ Opens[k] \in Seq(Character) /\ Closes[k] \in Seq(Character)
           /\ Len(Opens[k]) \in 1 .. 2 /\ Len(Closes[k]) \in 1 .. 2
<1>1. \A c, d \in Character : /\ <<c>> \in Seq(Character) /\ Len(<<c>>) = 1
                              /\ <<c, d>> \in Seq(Character) /\ Len(<<c, d>>) = 2
  OBVIOUS
<1>2. Sign \subseteq Character
  BY ScriptAssumption
<1>3. /\ "dash" \in Character /\ "slash" \in Character /\ "star" \in Character
      /\ "quote" \in Character /\ "double_quote" \in Character /\ "dollar" \in Character
      /\ "newline" \in Character
  BY <1>2 DEF Sign
<1>4. k = "line" \/ k = "block" \/ k = "string" \/ k = "identifier" \/ k = "dollar"
  BY DEF Inside
<1>5. /\ <<"dash", "dash">> \in Seq(Character) /\ Len(<<"dash", "dash">>) = 2
      /\ <<"slash", "star">> \in Seq(Character) /\ Len(<<"slash", "star">>) = 2
      /\ <<"star", "slash">> \in Seq(Character) /\ Len(<<"star", "slash">>) = 2
      /\ <<"dollar", "dollar">> \in Seq(Character) /\ Len(<<"dollar", "dollar">>) = 2
      /\ <<"newline">> \in Seq(Character) /\ Len(<<"newline">>) = 1
      /\ <<"quote">> \in Seq(Character) /\ Len(<<"quote">>) = 1
      /\ <<"double_quote">> \in Seq(Character) /\ Len(<<"double_quote">>) = 1
  BY <1>1, <1>3
<1>6. \A s : Len(s) \in {1, 2} => Len(s) \in 1 .. 2
  OBVIOUS
<1>7. CASE k = "line"
  BY <1>5, <1>6, <1>7, BracketsAre
<1>8. CASE k = "block"
  BY <1>5, <1>6, <1>8, BracketsAre
<1>9. CASE k = "string"
  BY <1>5, <1>6, <1>9, BracketsAre
<1>10. CASE k = "identifier"
  BY <1>5, <1>6, <1>10, BracketsAre
<1>11. CASE k = "dollar"
  BY <1>5, <1>6, <1>11, BracketsAre
<1>. QED
  BY <1>4, <1>7, <1>8, <1>9, <1>10, <1>11

(* Where in an element's text its opening, its body and its closing stand. *)
LEMMA TextShape ==
    ASSUME NEW e \in AnyElement, e.kind \in Inside
    PROVE  LET t == TextOf(e)
               a == Len(Opens[e.kind])
               m == Len(e.body)
               c == Len(Closes[e.kind]) IN
           /\ t \in Seq(Character) /\ Len(t) = a + m + c /\ m \in Nat
           /\ \A o \in 1 .. a : t[o] = Opens[e.kind][o]
           /\ \A o \in 1 .. m : t[a + o] = e.body[o]
           /\ \A o \in 1 .. c : t[a + m + o] = Closes[e.kind][o]
<1>. DEFINE x == Opens[e.kind]
            y == e.body
            z == Closes[e.kind]
<1>1. x \in Seq(Character) /\ z \in Seq(Character) /\ y \in Seq(Character)
  BY BracketType DEF AnyElement
<1>2. TextOf(e) = (x \o y) \o z
  BY <1>1, ConcatAssociative DEF TextOf
<1>. HIDE DEF x, y, z
<1>3. /\ x \o y \in Seq(Character) /\ Len(x \o y) = Len(x) + Len(y)
      /\ \A o \in 1 .. Len(x) + Len(y) : (x \o y)[o] = IF o <= Len(x) THEN x[o] ELSE y[o - Len(x)]
  BY <1>1, ConcatProperties
<1>4. /\ (x \o y) \o z \in Seq(Character) /\ Len((x \o y) \o z) = Len(x) + Len(y) + Len(z)
      /\ \A o \in 1 .. Len(x) + Len(y) + Len(z) :
            ((x \o y) \o z)[o] = IF o <= Len(x) + Len(y) THEN (x \o y)[o] ELSE z[o - (Len(x) + Len(y))]
  BY <1>1, <1>3, ConcatProperties
<1>5. Len(x) \in Nat /\ Len(y) \in Nat /\ Len(z) \in Nat
  BY <1>1
<1>6. ASSUME NEW o \in 1 .. Len(x)
      PROVE  ((x \o y) \o z)[o] = x[o]
  BY <1>3, <1>4, <1>5
<1>7. ASSUME NEW o \in 1 .. Len(y)
      PROVE  ((x \o y) \o z)[Len(x) + o] = y[o]
  <2>1. Len(x) + o \in 1 .. Len(x) + Len(y) /\ Len(x) + o \in 1 .. Len(x) + Len(y) + Len(z)
        /\ ~(Len(x) + o <= Len(x)) /\ Len(x) + o - Len(x) = o
    BY <1>5
  <2>. QED
    BY <1>3, <1>4, <2>1
<1>8. ASSUME NEW o \in 1 .. Len(z)
      PROVE  ((x \o y) \o z)[Len(x) + Len(y) + o] = z[o]
  <2>1. Len(x) + Len(y) + o \in 1 .. Len(x) + Len(y) + Len(z)
        /\ ~(Len(x) + Len(y) + o <= Len(x) + Len(y)) /\ Len(x) + Len(y) + o - (Len(x) + Len(y)) = o
    BY <1>5
  <2>. QED
    BY <1>4, <2>1
<1>. QED
  BY <1>2, <1>4, <1>5, <1>6, <1>7, <1>8 DEF x, y, z

(* Words and semicolons are one character long.                            *)
LEMMA SingleText ==
    ASSUME NEW e \in AnyElement, e.kind \notin Inside
    PROVE  /\ TextOf(e) = e.body /\ e.body = <<e.body[1]>> /\ e.body[1] \in Character
           /\ e.kind = "semicolon" => e.body[1] = "semicolon"
           /\ e.kind = "word" => e.body[1] \in (Character \ Sign) \cup {"newline", "star"}
           /\ e.kind \in {"word", "semicolon"}
<1>1. e.kind \in {"word", "semicolon"} /\ e.body \in Seq(Character) /\ MayHold(e.kind, e.body)
  BY DEF AnyElement, Kinds
<1>2. CASE e.kind = "semicolon"
  <2>1. e.body = <<"semicolon">>
    BY <1>1, <1>2 DEF MayHold
  <2>. QED
    BY <1>2, <2>1, ScriptAssumption DEF TextOf, Sign
<1>3. CASE e.kind = "word"
  <2>1. PICK c \in (Character \ Sign) \cup {"newline", "star"} : e.body = <<c>>
    BY <1>1, <1>3 DEF MayHold
  <2>. QED
    BY <1>3, <2>1, ScriptAssumption DEF TextOf, Sign
<1>. QED
  BY <1>1, <1>2, <1>3

LEMMA TextType ==
    ASSUME NEW e \in AnyElement
    PROVE  TextOf(e) \in Seq(Character) /\ Len(TextOf(e)) \in Nat \ {0}
<1>1. CASE e.kind \in Inside
  <2>. DEFINE a == Len(Opens[e.kind])
              m == Len(e.body)
              c == Len(Closes[e.kind])
  <2>1. TextOf(e) \in Seq(Character) /\ Len(TextOf(e)) = a + m + c /\ m \in Nat
    BY <1>1, TextShape
  <2>2. a \in 1 .. 2 /\ c \in 1 .. 2
    BY <1>1, BracketType
  <2>. HIDE DEF a, m, c
  <2>. QED
    BY <2>1, <2>2
<1>2. CASE e.kind \notin Inside
  <2>1. TextOf(e) = <<e.body[1]>> /\ e.body[1] \in Character
    BY <1>2, SingleText
  <2>. QED
    BY <2>1
<1>. QED
  BY <1>1, <1>2

-----------------------------------------------------------------------------
(* THE SCANNER'S ROUNDS                                                    *)

LEMMA AtOne ==
    ASSUME NEW T \in Seq(Character), NEW i \in 1 .. Len(T), NEW c
    PROVE  At(T, i, <<c>>) <=> T[i] = c
<1>1. DOMAIN <<c>> = {1} /\ <<c>>[1] = c /\ i + 1 - 1 = i /\ i \in DOMAIN T
  OBVIOUS
<1>. QED
  BY <1>1 DEF At

LEMMA AtTwo ==
    ASSUME NEW T \in Seq(Character), NEW i \in 1 .. Len(T), NEW c, NEW d
    PROVE  At(T, i, <<c, d>>) <=> T[i] = c /\ i + 1 <= Len(T) /\ T[i + 1] = d
<1>1. /\ DOMAIN <<c, d>> = {1, 2} /\ <<c, d>>[1] = c /\ <<c, d>>[2] = d
      /\ i + 1 - 1 = i /\ i + 2 - 1 = i + 1 /\ i \in DOMAIN T
      /\ i + 1 \in DOMAIN T <=> i + 1 <= Len(T)
  OBVIOUS
<1>. QED
  BY <1>1 DEF At

(* What each opening and each closing is, in characters.                   *)
LEMMA BracketsAt ==
    ASSUME NEW T \in Seq(Character), NEW i \in 1 .. Len(T)
    PROVE  /\ At(T, i, Opens["line"]) <=> T[i] = "dash" /\ i + 1 <= Len(T) /\ T[i + 1] = "dash"
           /\ At(T, i, Opens["block"]) <=> T[i] = "slash" /\ i + 1 <= Len(T) /\ T[i + 1] = "star"
           /\ At(T, i, Opens["string"]) <=> T[i] = "quote"
           /\ At(T, i, Opens["identifier"]) <=> T[i] = "double_quote"
           /\ At(T, i, Opens["dollar"]) <=> T[i] = "dollar" /\ i + 1 <= Len(T) /\ T[i + 1] = "dollar"
           /\ At(T, i, Closes["line"]) <=> T[i] = "newline"
           /\ At(T, i, Closes["block"]) <=> T[i] = "star" /\ i + 1 <= Len(T) /\ T[i + 1] = "slash"
           /\ At(T, i, Closes["string"]) <=> T[i] = "quote"
           /\ At(T, i, Closes["identifier"]) <=> T[i] = "double_quote"
           /\ At(T, i, Closes["dollar"]) <=> T[i] = "dollar" /\ i + 1 <= Len(T) /\ T[i + 1] = "dollar"
           /\ At(T, i, <<"quote", "quote">>) <=> T[i] = "quote" /\ i + 1 <= Len(T) /\ T[i + 1] = "quote"
BY AtOne, AtTwo, BracketsAre

LEMMA BracketLengths ==
    /\ Len(Opens["line"]) = 2 /\ Len(Opens["block"]) = 2 /\ Len(Opens["string"]) = 1
    /\ Len(Opens["identifier"]) = 1 /\ Len(Opens["dollar"]) = 2
    /\ Len(Closes["line"]) = 1 /\ Len(Closes["block"]) = 2 /\ Len(Closes["string"]) = 1
    /\ Len(Closes["identifier"]) = 1 /\ Len(Closes["dollar"]) = 2
<1>1. \A c, d : Len(<<c>>) = 1 /\ Len(<<c, d>>) = 2
  OBVIOUS
<1>. QED
  BY <1>1, BracketsAre

(* The openings begin with different characters, none of them a semicolon. *)
LEMMA OpeningIsOne ==
    ASSUME NEW T \in Seq(Character), NEW i \in 1 .. Len(T), NEW k \in Inside, At(T, i, Opens[k])
    PROVE  /\ T[i] # "semicolon" /\ T[i] # "newline"
           /\ \A h \in Inside : At(T, i, Opens[h]) => h = k
BY BracketsAt DEF Inside

LEMMA ReadOpening ==
    ASSUME NEW T \in Seq(Character), NEW i \in 1 .. Len(T), NEW k \in Inside, At(T, i, Opens[k])
    PROVE  Read(T, i, "code") = [takes |-> Len(Opens[k]), in |-> k]
<1>1. "code" \notin Inside
  BY DEF Inside
<1>2. (CHOOSE h \in Inside : At(T, i, Opens[h])) = k
  BY OpeningIsOne
<1>. QED
  BY <1>1, <1>2 DEF Read

LEMMA ReadWord ==
    ASSUME NEW T \in Seq(Character), NEW i \in 1 .. Len(T),
           T[i] \notin {"dash", "slash", "quote", "double_quote", "dollar"}
    PROVE  Read(T, i, "code") = [takes |-> 1, in |-> "code"]
<1>1. "code" \notin Inside
  BY DEF Inside
<1>2. \A k \in Inside : ~At(T, i, Opens[k])
  BY BracketsAt DEF Inside
<1>. QED
  BY <1>1, <1>2 DEF Read

LEMMA ReadInside ==
    ASSUME NEW T, NEW i, NEW k \in Inside
    PROVE  Read(T, i, k) = IF k = "string" /\ At(T, i, <<"quote", "quote">>) THEN [takes |-> 2, in |-> k]
                           ELSE IF At(T, i, Closes[k]) THEN [takes |-> Len(Closes[k]), in |-> "code"]
                           ELSE [takes |-> 1, in |-> k]
BY DEF Read

(* The scanner's accumulator.                                              *)
Found == [sql : Seq(Character), line : Nat]

Scanned == [statements : Seq(Found), buffer : Seq(Character), in : Inside \cup {"code"},
            skip : Nat, line : Nat, start : Nat]

LEMMA ReadType ==
    ASSUME NEW T, NEW i, NEW in \in Inside \cup {"code"}
    PROVE  Read(T, i, in).in \in Inside \cup {"code"} /\ Read(T, i, in).takes \in 1 .. 2
<1>1. CASE in \in Inside
  <2>. DEFINE c == Len(Closes[in])
  <2>1. c \in 1 .. 2
    BY <1>1, BracketType
  <2>2. Read(T, i, in) \in {[takes |-> 2, in |-> in], [takes |-> c, in |-> "code"], [takes |-> 1, in |-> in]}
    BY <1>1, ReadInside
  <2>. HIDE DEF c
  <2>. QED
    BY <2>1, <2>2
<1>2. CASE in \notin Inside
  <2>1. CASE \E k \in Inside : At(T, i, Opens[k])
    <3>. DEFINE k == CHOOSE k \in Inside : At(T, i, Opens[k])
    <3>1. k \in Inside
      BY <2>1
    <3>. HIDE DEF k
    <3>2. Len(Opens[k]) \in 1 .. 2
      BY <3>1, BracketType
    <3>. QED
      BY <1>2, <2>1, <3>1, <3>2 DEF Read, k
  <2>2. CASE ~\E k \in Inside : At(T, i, Opens[k])
    BY <1>2, <2>2 DEF Read
  <2>. QED
    BY <2>1, <2>2
<1>. QED
  BY <1>1, <1>2

EndsStatement(T, acc, i) == acc.skip = 0 /\ acc.in = "code" /\ T[i] = "semicolon"

LineAfter(line, c) == line + IF c = "newline" THEN 1 ELSE 0

(* A round that ends no statement only moves on.                           *)
LEMMA ScanGoesOn ==
    ASSUME NEW T \in Seq(Character), NEW i \in 1 .. Len(T), NEW acc \in Scanned,
           ~EndsStatement(T, acc, i)
    PROVE  LET next == Scan(T, acc, i) IN
           /\ next \in Scanned
           /\ next.statements = acc.statements /\ next.start = acc.start
           /\ next.buffer = Append(acc.buffer, T[i]) /\ next.line = LineAfter(acc.line, T[i])
           /\ acc.skip > 0 => next.in = acc.in /\ next.skip = acc.skip - 1
           /\ acc.skip = 0 => /\ next.in = Read(T, i, acc.in).in
                              /\ next.skip = Read(T, i, acc.in).takes - 1
<1>. DEFINE read == Read(T, i, acc.in)
            round == IF acc.skip > 0 THEN [takes |-> acc.skip, in |-> acc.in] ELSE read
<1>1. read.in \in Inside \cup {"code"} /\ read.takes \in 1 .. 2
  BY ReadType DEF Scanned
<1>2. /\ acc.skip \in Nat /\ acc.in \in Inside \cup {"code"} /\ acc.line \in Nat /\ acc.start \in Nat
      /\ acc.buffer \in Seq(Character) /\ T[i] \in Character /\ acc.statements \in Seq(Found)
  BY DEF Scanned
<1>. HIDE DEF read
<1>3. round.in \in Inside \cup {"code"} /\ round.takes - 1 \in Nat
  BY <1>1, <1>2
<1>4. LineAfter(acc.line, T[i]) \in Nat /\ Append(acc.buffer, T[i]) \in Seq(Character)
  BY <1>2 DEF LineAfter
<1>5. Scan(T, acc, i) = [acc EXCEPT !.in = round.in, !.skip = round.takes - 1,
                                    !.line = LineAfter(acc.line, T[i]), !.buffer = Append(@, T[i])]
  BY DEF Scan, EndsStatement, LineAfter, read
<1>. DEFINE line == LineAfter(acc.line, T[i])
            buffer == Append(acc.buffer, T[i])
<1>6. /\ Scan(T, acc, i) \in Scanned
      /\ Scan(T, acc, i).statements = acc.statements /\ Scan(T, acc, i).start = acc.start
      /\ Scan(T, acc, i).buffer = buffer /\ Scan(T, acc, i).line = line
      /\ Scan(T, acc, i).in = round.in /\ Scan(T, acc, i).skip = round.takes - 1
  <2>. HIDE DEF round, line
  <2>. QED
    BY <1>3, <1>4, <1>5 DEF Scanned, line
<1>. QED
  BY <1>1, <1>2, <1>6 DEF read

LEMMA EmitType ==
    ASSUME NEW acc \in Scanned
    PROVE  Emit(acc) \in Seq(Found)
<1>1. [sql |-> acc.buffer, line |-> acc.start] \in Found /\ acc.statements \in Seq(Found)
  BY DEF Scanned, Found
<1>. QED
  BY <1>1 DEF Emit

LEMMA ScanEnds ==
    ASSUME NEW T \in Seq(Character), NEW i \in 1 .. Len(T), NEW acc \in Scanned,
           EndsStatement(T, acc, i)
    PROVE  LET next == Scan(T, acc, i) IN
           /\ next \in Scanned
           /\ next.statements = Emit(acc) /\ next.buffer = <<>>
           /\ next.line = acc.line /\ next.start = acc.line
           /\ next.in = "code" /\ next.skip = 0
<1>1. acc.line + 0 = acc.line /\ acc.line \in Nat /\ acc.in = "code" /\ acc.skip = 0
  BY DEF Scanned, EndsStatement
<1>2. Scan(T, acc, i) = [acc EXCEPT !.statements = Emit(acc), !.buffer = <<>>, !.start = acc.line]
  BY <1>1 DEF Scan, EndsStatement
<1>3. Emit(acc) \in Seq(Found) /\ <<>> \in Seq(Character)
  BY EmitType
<1>. QED
  BY <1>1, <1>2, <1>3 DEF Scanned

(* What the scanner has after each character of T.                         *)
ScanStart == [statements |-> <<>>, buffer |-> <<>>, in |-> "code", skip |-> 0, line |-> 1, start |-> 1]

ScanRun(T, g) ==
    /\ g[0] = ScanStart
    /\ \A i \in 0 .. Len(T) : g[i] \in Scanned
    /\ \A i \in 1 .. Len(T) : g[i] = Scan(T, g[i - 1], i)

LEMMA ScanRuns ==
    ASSUME NEW T \in Seq(Character)
    PROVE  \E g : ScanRun(T, g) /\ SplitStatements(T) = Emit(g[Len(T)])
<1>. DEFINE N == Len(T)
            body == [i \in 1 .. N |-> [acc \in Scanned |-> Scan(T, acc, i)]]
<1>1. ScanStart \in Scanned
  <2>1. <<>> \in Seq(Found) /\ <<>> \in Seq(Character)
    OBVIOUS
  <2>. QED
    BY <2>1 DEF ScanStart, Scanned
<1>2. \A i \in 1 .. N : \A acc \in Scanned : Scan(T, acc, i) \in Scanned
  BY ScanGoesOn, ScanEnds
<1>3. body \in [1 .. N -> [Scanned -> Scanned]]
  BY <1>2
<1>4. PICK g : LoopRun(g, N, Scanned, ScanStart, body)
  <2>. HIDE DEF body
  <2>. QED
    BY <1>1, <1>3, LoopExists
<1>5. /\ g \in [0 .. N -> Scanned] /\ g[0] = ScanStart
      /\ \A i \in 1 .. N : i - 1 \in 0 .. N /\ g[i] = Scan(T, g[i - 1], i)
  <2>1. g \in [0 .. N -> Scanned] /\ g[0] = ScanStart
    BY <1>4 DEF LoopRun
  <2>2. ASSUME NEW i \in 1 .. N
        PROVE  i - 1 \in 0 .. N /\ g[i] = Scan(T, g[i - 1], i)
    <3>1. i - 1 \in 0 .. N
      OBVIOUS
    <3>2. g[i] = body[i][g[i - 1]]
      BY <1>4 DEF LoopRun
    <3>3. g[i - 1] \in Scanned
      BY <2>1, <3>1
    <3>. QED
      BY <3>1, <3>2, <3>3
  <2>. QED
    BY <2>1, <2>2
<1>. DEFINE Rounds(f) == f = [i \in 0 .. N |-> IF i = 0 THEN ScanStart ELSE Scan(T, f[i - 1], i)]
            after == CHOOSE f : Rounds(f)
<1>6. Rounds(after)
  <2>1. Rounds(g)
    BY <1>5
  <2>. HIDE DEF Rounds
  <2>. QED
    BY <2>1
<1>7. SplitStatements(T) = Emit(after[N])
  BY DEF SplitStatements, ScanStart
<1>. HIDE DEF after
<1>8. after[0] = ScanStart /\ \A i \in 1 .. N : after[i] = Scan(T, after[i - 1], i)
  BY <1>6
<1>9. \A i \in 0 .. N : after[i] \in Scanned
  <2>. DEFINE S == {i \in 0 .. N : after[i] \in Scanned}
  <2>1. 0 \in S
    BY <1>1, <1>8
  <2>2. ASSUME NEW i \in 0 .. N, i \in S, i < N
        PROVE  i + 1 \in S
    <3>1. i + 1 \in 1 .. N /\ i + 1 \in 0 .. N /\ (i + 1) - 1 = i
      BY <2>2
    <3>2. after[i + 1] = Scan(T, after[i], i + 1)
      BY <1>8, <3>1
    <3>. QED
      BY <1>2, <2>2, <3>1, <3>2
  <2>3. 0 .. N \subseteq S
    <3>. HIDE DEF S
    <3>. QED
      BY <2>1, <2>2, PrefixInduction
  <2>. QED
    BY <2>3
<1>. QED
  BY <1>7, <1>8, <1>9 DEF ScanRun

-----------------------------------------------------------------------------
(* AN ELEMENT WITH AN OPENING AND A CLOSING                                *)

(* t stands in T after the first p characters.                             *)
Placed(T, p, t) ==
    /\ p \in Nat /\ p + Len(t) <= Len(T)
    /\ \A o \in 1 .. Len(t) : T[p + o] = t[o]

LEMMA BracketPlaced ==
    ASSUME NEW T \in Seq(Character), NEW e \in AnyElement, e.kind \in Inside,
           NEW p, Placed(T, p, TextOf(e))
    PROVE  LET a == Len(Opens[e.kind])
               m == Len(e.body)
               c == Len(Closes[e.kind]) IN
           /\ p \in Nat /\ m \in Nat /\ a \in 1 .. 2 /\ c \in 1 .. 2 /\ Len(TextOf(e)) = a + m + c
           /\ p + a + m + c <= Len(T)
           /\ \A o \in 1 .. a : T[p + o] = Opens[e.kind][o]
           /\ \A o \in 1 .. m : T[p + a + o] = e.body[o]
           /\ \A o \in 1 .. c : T[p + a + m + o] = Closes[e.kind][o]
<1>. DEFINE t == TextOf(e)
            a == Len(Opens[e.kind])
            m == Len(e.body)
            c == Len(Closes[e.kind])
<1>1. /\ Len(t) = a + m + c /\ m \in Nat
      /\ \A o \in 1 .. a : t[o] = Opens[e.kind][o]
      /\ \A o \in 1 .. m : t[a + o] = e.body[o]
      /\ \A o \in 1 .. c : t[a + m + o] = Closes[e.kind][o]
  BY TextShape
<1>2. a \in 1 .. 2 /\ c \in 1 .. 2
  BY BracketType
<1>3. p \in Nat /\ p + Len(t) <= Len(T) /\ \A o \in 1 .. Len(t) : T[p + o] = t[o]
  BY DEF Placed
<1>. HIDE DEF t, a, m, c
<1>4. ASSUME NEW o \in 1 .. a
      PROVE  T[p + o] = t[o]
  BY <1>1, <1>2, <1>3
<1>5. ASSUME NEW o \in 1 .. m
      PROVE  T[p + a + o] = t[a + o]
  <2>1. a + o \in 1 .. Len(t) /\ p + (a + o) = p + a + o
    BY <1>1, <1>2, <1>3
  <2>. QED
    BY <1>3, <2>1
<1>6. ASSUME NEW o \in 1 .. c
      PROVE  T[p + a + m + o] = t[a + m + o]
  <2>1. a + m + o \in 1 .. Len(t) /\ p + (a + m + o) = p + a + m + o
    BY <1>1, <1>2, <1>3
  <2>. QED
    BY <1>3, <2>1
<1>7. p + a + m + c <= Len(T)
  BY <1>1, <1>2, <1>3
<1>. QED
  BY <1>1, <1>2, <1>3, <1>4, <1>5, <1>6, <1>7 DEF t, a, m, c

LEMMA OpeningStands ==
    ASSUME NEW T \in Seq(Character), NEW e \in AnyElement, e.kind \in Inside,
           NEW p, Placed(T, p, TextOf(e))
    PROVE  p + 1 \in 1 .. Len(T) /\ At(T, p + 1, Opens[e.kind])
<1>. DEFINE a == Len(Opens[e.kind])
            m == Len(e.body)
            c == Len(Closes[e.kind])
<1>1. /\ p \in Nat /\ m \in Nat /\ a \in 1 .. 2 /\ c \in 1 .. 2
      /\ p + a + m + c <= Len(T)
      /\ \A o \in 1 .. a : T[p + o] = Opens[e.kind][o]
  BY BracketPlaced
<1>2. Len(T) \in Nat /\ DOMAIN T = 1 .. Len(T) /\ DOMAIN Opens[e.kind] = 1 .. a
  BY BracketType
<1>. HIDE DEF a, m, c
<1>3. ASSUME NEW j \in 1 .. a
      PROVE  (p + 1) + j - 1 \in DOMAIN T /\ T[(p + 1) + j - 1] = Opens[e.kind][j]
  <2>1. (p + 1) + j - 1 = p + j /\ p + j \in DOMAIN T
    BY <1>1, <1>2
  <2>. QED
    BY <1>1, <2>1
<1>. QED
  BY <1>1, <1>2, <1>3 DEF At

LEMMA ClosingStands ==
    ASSUME NEW T \in Seq(Character), NEW e \in AnyElement, e.kind \in Inside,
           NEW p, Placed(T, p, TextOf(e))
    PROVE  LET i == p + Len(Opens[e.kind]) + Len(e.body) + 1 IN
           i \in 1 .. Len(T) /\ At(T, i, Closes[e.kind])
<1>. DEFINE a == Len(Opens[e.kind])
            m == Len(e.body)
            c == Len(Closes[e.kind])
<1>1. /\ p \in Nat /\ m \in Nat /\ a \in 1 .. 2 /\ c \in 1 .. 2
      /\ p + a + m + c <= Len(T)
      /\ \A o \in 1 .. c : T[p + a + m + o] = Closes[e.kind][o]
  BY BracketPlaced
<1>2. Len(T) \in Nat /\ DOMAIN T = 1 .. Len(T) /\ DOMAIN Closes[e.kind] = 1 .. c
  BY BracketType
<1>. HIDE DEF a, m, c
<1>3. ASSUME NEW j \in 1 .. c
      PROVE  /\ (p + a + m + 1) + j - 1 \in DOMAIN T
             /\ T[(p + a + m + 1) + j - 1] = Closes[e.kind][j]
  <2>1. (p + a + m + 1) + j - 1 = p + a + m + j /\ p + a + m + j \in DOMAIN T
    BY <1>1, <1>2
  <2>. QED
    BY <1>1, <2>1
<1>4. p + a + m + 1 \in 1 .. Len(T)
  BY <1>1, <1>2
<1>. QED
  BY <1>2, <1>3, <1>4 DEF At, a, m

(* A character of the body, and the one after it.                          *)
LEMMA BodyStands ==
    ASSUME NEW T \in Seq(Character), NEW e \in AnyElement, e.kind \in Inside,
           NEW p, Placed(T, p, TextOf(e)), NEW j \in 1 .. Len(e.body)
    PROVE  LET i == p + Len(Opens[e.kind]) + j IN
           /\ i \in 1 .. Len(T) /\ i + 1 \in 1 .. Len(T)
           /\ T[i] = e.body[j]
           /\ j < Len(e.body) => T[i + 1] = e.body[j + 1]
           /\ j = Len(e.body) => T[i + 1] = Closes[e.kind][1]
<1>. DEFINE a == Len(Opens[e.kind])
            m == Len(e.body)
            c == Len(Closes[e.kind])
            i == p + a + j
<1>1. /\ p \in Nat /\ m \in Nat /\ a \in 1 .. 2 /\ c \in 1 .. 2
      /\ p + a + m + c <= Len(T)
      /\ \A o \in 1 .. m : T[p + a + o] = e.body[o]
      /\ \A o \in 1 .. c : T[p + a + m + o] = Closes[e.kind][o]
  <2>1. \A o \in 1 .. m : T[p + a + o] = e.body[o]
    BY BracketPlaced
  <2>2. \A o \in 1 .. c : T[p + a + m + o] = Closes[e.kind][o]
    BY BracketPlaced
  <2>. QED
    BY <2>1, <2>2, BracketPlaced
<1>2. Len(T) \in Nat /\ j \in 1 .. m
  OBVIOUS
<1>. HIDE DEF a, m, c
<1>3. i \in 1 .. Len(T) /\ i + 1 \in 1 .. Len(T) /\ T[i] = e.body[j]
  BY <1>1, <1>2
<1>4. ASSUME j < m PROVE T[i + 1] = e.body[j + 1]
  <2>. DEFINE k == j + 1
  <2>1. k \in 1 .. m /\ p + a + k = i + 1
    BY <1>1, <1>2, <1>4
  <2>. HIDE DEF i, k
  <2>2. T[p + a + k] = e.body[k]
    BY <1>1, <2>1
  <2>. QED
    BY <2>1, <2>2 DEF k
<1>5. ASSUME j = m PROVE T[i + 1] = Closes[e.kind][1]
  <2>1. 1 \in 1 .. c /\ p + a + m + 1 = i + 1
    BY <1>1, <1>2, <1>5
  <2>. QED
    BY <1>1, <2>1
<1>. QED
  BY <1>3, <1>4, <1>5 DEF a, m

(* Nothing in a body closes it, but for the quotes of strings.             *)
LEMMA BodyStaysOpen ==
    ASSUME NEW T \in Seq(Character), NEW e \in AnyElement, e.kind \in Inside, e.kind # "string",
           NEW p, Placed(T, p, TextOf(e)), NEW j \in 1 .. Len(e.body)
    PROVE  ~At(T, p + Len(Opens[e.kind]) + j, Closes[e.kind])
<1>. DEFINE i == p + Len(Opens[e.kind]) + j
            m == Len(e.body)
            b == e.body
<1>1. /\ i \in 1 .. Len(T) /\ i + 1 \in 1 .. Len(T) /\ T[i] = b[j]
      /\ j < m => T[i + 1] = b[j + 1]
      /\ j = m => T[i + 1] = Closes[e.kind][1]
  BY BodyStands
<1>2. b \in Seq(Character) /\ MayHold(e.kind, b) /\ m \in Nat /\ j \in 1 .. m /\ DOMAIN b = 1 .. m
  BY DEF AnyElement
<1>3. \A c : <<c>>[1] = c
  OBVIOUS
<1>. HIDE DEF i, m, b
<1>4. CASE e.kind = "line"
  <2>1. b[j] # "newline"
    BY <1>2, <1>4 DEF MayHold
  <2>. QED
    BY <1>1, <1>4, <2>1, BracketsAt DEF i
<1>5. CASE e.kind = "identifier"
  <2>1. b[j] # "double_quote"
    BY <1>2, <1>5 DEF MayHold
  <2>. QED
    BY <1>1, <1>5, <2>1, BracketsAt DEF i
<1>6. CASE e.kind = "block"
  <2>1. ~Pair(b, "star", "slash")
    BY <1>2, <1>6 DEF MayHold
  <2>2. ASSUME T[i] = "star", T[i + 1] = "slash"
        PROVE  FALSE
    <3>1. CASE j < m
      <4>1. j \in DOMAIN b /\ j + 1 \in DOMAIN b /\ b[j] = "star" /\ b[j + 1] = "slash"
        BY <1>1, <1>2, <2>2, <3>1
      <4>. QED
        BY <2>1, <4>1 DEF Pair
    <3>2. CASE j = m
      <4>1. Closes["block"][1] = "star"
        BY BracketsAre
      <4>. QED
        BY <1>1, <1>6, <2>2, <3>2, <4>1
    <3>. QED
      BY <1>2, <3>1, <3>2
  <2>. QED
    BY <1>1, <1>6, <2>2, BracketsAt DEF i
<1>7. CASE e.kind = "dollar"
  <2>. DEFINE d == Append(b, "dollar")
  <2>1. ~Pair(d, "dollar", "dollar")
    BY <1>2, <1>7 DEF MayHold
  <2>2. DOMAIN d = 1 .. m + 1 /\ d[m + 1] = "dollar" /\ \A o \in 1 .. m : d[o] = b[o]
    BY <1>2 DEF m
  <2>3. ASSUME T[i] = "dollar", T[i + 1] = "dollar"
        PROVE  FALSE
    <3>1. j \in DOMAIN d /\ j + 1 \in DOMAIN d /\ d[j] = "dollar"
      <4>1. j \in 1 .. m /\ m \in Nat /\ b[j] = "dollar"
        BY <1>1, <1>2, <2>3
      <4>. HIDE DEF d
      <4>. QED
        BY <4>1, <2>2
    <3>2. d[j + 1] = "dollar"
      <4>1. CASE j < m
        BY <1>1, <1>2, <2>2, <2>3, <4>1
      <4>2. CASE j = m
        BY <2>2, <4>2
      <4>. QED
        BY <1>2, <4>1, <4>2
    <3>. HIDE DEF d
    <3>. QED
      BY <2>1, <3>1, <3>2 DEF Pair
  <2>. QED
    BY <1>1, <1>7, <2>3, BracketsAt DEF i
<1>. QED
  BY <1>4, <1>5, <1>6, <1>7 DEF Inside, i

(* The quotes that open a pair in a body, and no other characters.         *)
OpenPairs(e, first) ==
    /\ first \in SUBSET DOMAIN e.body
    /\ e.kind # "string" => first = {}
    /\ e.kind = "string" =>
         \A i \in DOMAIN e.body : /\ e.body[i] = "quote" <=> i \in first \/ i - 1 \in first
                                  /\ i \in first => i + 1 \in DOMAIN e.body /\ i - 1 \notin first

LEMMA PairsExist ==
    ASSUME NEW e \in AnyElement
    PROVE  \E first : OpenPairs(e, first)
<1>1. CASE e.kind = "string"
  <2>1. QuotesDoubled(e.body)
    BY <1>1 DEF AnyElement, MayHold
  <2>. QED
    BY <1>1, <2>1 DEF QuotesDoubled, OpenPairs
<1>2. CASE e.kind # "string"
  <2>1. OpenPairs(e, {})
    BY <1>2 DEF OpenPairs
  <2>. QED
    BY <2>1
<1>. QED
  BY <1>1, <1>2

(* The scanner's round on the character j of a body.                       *)
LEMMA BodyRound ==
    ASSUME NEW T \in Seq(Character), NEW e \in AnyElement, e.kind \in Inside,
           NEW p, Placed(T, p, TextOf(e)), NEW j \in 1 .. Len(e.body),
           NEW first, OpenPairs(e, first),
           NEW acc \in Scanned, acc.in = e.kind, acc.skip = IF j - 1 \in first THEN 1 ELSE 0
    PROVE  LET i == p + Len(Opens[e.kind]) + j IN
           /\ ~EndsStatement(T, acc, i)
           /\ Scan(T, acc, i).in = e.kind
           /\ Scan(T, acc, i).skip = IF j \in first THEN 1 ELSE 0
<1>. DEFINE i == p + Len(Opens[e.kind]) + j
            m == Len(e.body)
            b == e.body
<1>1. /\ i \in 1 .. Len(T) /\ i + 1 \in 1 .. Len(T) /\ T[i] = b[j]
      /\ j < m => T[i + 1] = b[j + 1]
  <2>1. j < m => T[i + 1] = b[j + 1]
    BY BodyStands
  <2>. QED
    BY <2>1, BodyStands
<1>2. b \in Seq(Character) /\ m \in Nat /\ j \in 1 .. m /\ DOMAIN b = 1 .. m
  BY DEF AnyElement
<1>3. ~EndsStatement(T, acc, i)
  <2>1. "code" \notin Inside
    BY DEF Inside
  <2>. QED
    BY <2>1 DEF EndsStatement
<1>4. e.kind # "string" => ~At(T, i, Closes[e.kind])
  BY BodyStaysOpen
<1>. HIDE DEF i
<1>5. /\ acc.skip > 0 => Scan(T, acc, i).in = acc.in /\ Scan(T, acc, i).skip = acc.skip - 1
      /\ acc.skip = 0 => /\ Scan(T, acc, i).in = Read(T, i, acc.in).in
                         /\ Scan(T, acc, i).skip = Read(T, i, acc.in).takes - 1
  BY <1>1, <1>3, ScanGoesOn
<1>6. CASE e.kind # "string"
  <2>1. first = {} /\ acc.skip = 0
    BY <1>6 DEF OpenPairs
  <2>2. Read(T, i, e.kind) = [takes |-> 1, in |-> e.kind]
    BY <1>4, <1>6, ReadInside
  <2>. QED
    BY <1>3, <1>5, <2>1, <2>2 DEF i
<1>7. CASE e.kind = "string"
  <2>1. /\ b[j] = "quote" <=> j \in first \/ j - 1 \in first
        /\ j \in first => j + 1 \in DOMAIN b /\ j - 1 \notin first
    BY <1>2, <1>7 DEF OpenPairs
  <2>2. CASE j - 1 \in first
    BY <1>3, <1>5, <2>1, <2>2 DEF i
  <2>3. CASE j - 1 \notin first /\ j \in first
    <3>1. j < m /\ b[j] = "quote"
      BY <1>2, <2>1, <2>3
    <3>2. b[j + 1] = "quote"
      <4>1. j + 1 \in DOMAIN b /\ (j + 1) - 1 = j
        BY <1>2, <3>1
      <4>. QED
        BY <1>7, <2>3, <4>1 DEF OpenPairs
    <3>3. At(T, i, <<"quote", "quote">>)
      BY <1>1, <3>1, <3>2, BracketsAt
    <3>4. Read(T, i, e.kind) = [takes |-> 2, in |-> e.kind]
      BY <1>7, <3>3, ReadInside
    <3>. QED
      BY <1>3, <1>5, <2>3, <3>4 DEF i
  <2>4. CASE j - 1 \notin first /\ j \notin first
    <3>1. T[i] # "quote"
      BY <1>1, <2>1, <2>4
    <3>2. ~At(T, i, <<"quote", "quote">>) /\ ~At(T, i, Closes["string"])
      BY <1>1, <3>1, BracketsAt
    <3>3. Read(T, i, e.kind) = [takes |-> 1, in |-> e.kind]
      BY <1>7, <3>2, ReadInside
    <3>. QED
      BY <1>3, <1>5, <2>4, <3>3 DEF i
  <2>. QED
    BY <2>2, <2>3, <2>4
<1>. QED
  BY <1>6, <1>7

(* Where the scanner is after o characters of an element.  The closing     *)
(* quote of a string is taken with the quote that opens the next one.      *)
Merges(T, e, q) == e.kind = "string" /\ q + 1 <= Len(T) /\ T[q + 1] = "quote"

Reached(T, e, first, p, o, acc) ==
    LET a == Len(Opens[e.kind])
        m == Len(e.body)
        c == Len(Closes[e.kind]) IN
    /\ o \in 1 .. a => acc.in = e.kind /\ acc.skip = a - o
    /\ o \in a + 1 .. a + m => acc.in = e.kind /\ acc.skip = IF o - a \in first THEN 1 ELSE 0
    /\ o \in a + m + 1 .. a + m + c =>
         \/ acc.in = "code" /\ acc.skip = a + m + c - o
         \/ Merges(T, e, p + o) /\ o = a + m + c /\ acc.in = "string" /\ acc.skip = 1

(* An element is entered outside of everything, or as the second of two    *)
(* strings that touch.                                                     *)
Enters(e, acc) == \/ acc.in = "code" /\ acc.skip = 0
                  \/ e.kind = "string" /\ acc.in = "string" /\ acc.skip = 1

LEMMA BracketRound ==
    ASSUME NEW T \in Seq(Character), NEW e \in AnyElement, e.kind \in Inside,
           NEW p, Placed(T, p, TextOf(e)), NEW first, OpenPairs(e, first),
           NEW o \in 0 .. Len(TextOf(e)) - 1, NEW acc \in Scanned,
           o = 0 => Enters(e, acc),
           o > 0 => Reached(T, e, first, p, o, acc)
    PROVE  /\ p + o + 1 \in 1 .. Len(T)
           /\ ~EndsStatement(T, acc, p + o + 1)
           /\ Reached(T, e, first, p, o + 1, Scan(T, acc, p + o + 1))
<1>. DEFINE a == Len(Opens[e.kind])
            m == Len(e.body)
            c == Len(Closes[e.kind])
            i == p + o + 1
            next == Scan(T, acc, i)
<1>1. /\ p \in Nat /\ m \in Nat /\ a \in 1 .. 2 /\ c \in 1 .. 2 /\ Len(TextOf(e)) = a + m + c
      /\ p + a + m + c <= Len(T)
  BY BracketPlaced
<1>2. acc.skip \in Nat
  BY DEF Scanned
<1>3. o \in Nat /\ o < a + m + c /\ i \in 1 .. Len(T) /\ Len(T) \in Nat
  <2>. HIDE DEF a, m, c
  <2>. QED
    BY <1>1
<1>4. "code" \notin Inside /\ e.kind # "code"
  BY DEF Inside
<1>5. ~EndsStatement(T, acc, i) =>
        /\ acc.skip > 0 => next.in = acc.in /\ next.skip = acc.skip - 1
        /\ acc.skip = 0 => next.in = Read(T, i, acc.in).in /\ next.skip = Read(T, i, acc.in).takes - 1
  <2>. HIDE DEF i
  <2>. QED
    BY <1>3, ScanGoesOn
<1>6. e.kind = "string" => a = 1 /\ c = 1
  BY BracketLengths
<1>7. \A q \in first : q \in 1 .. m
  BY DEF OpenPairs, AnyElement
<1>8. CASE o = 0
  <2>1. At(T, i, Opens[e.kind])
    BY <1>1, <1>8, OpeningStands
  <2>2. CASE acc.in = "code" /\ acc.skip = 0
    <3>1. ~EndsStatement(T, acc, i)
      BY <1>3, <2>1, OpeningIsOne DEF EndsStatement
    <3>2. Read(T, i, "code") = [takes |-> a, in |-> e.kind]
      BY <1>3, <2>1, ReadOpening
    <3>. HIDE DEF a, m, c, i
    <3>3. next.in = e.kind /\ next.skip = a - 1
      BY <1>5, <2>2, <3>1, <3>2
    <3>4. 1 \in 1 .. a /\ 1 \notin a + 1 .. a + m /\ 1 \notin a + m + 1 .. a + m + c
      BY <1>1
    <3>5. Reached(T, e, first, p, 1, next)
      BY <3>3, <3>4 DEF Reached, a, m, c
    <3>. QED
      BY <1>3, <1>8, <3>1, <3>5 DEF i
  <2>3. CASE e.kind = "string" /\ acc.in = "string" /\ acc.skip = 1
    <3>1. ~EndsStatement(T, acc, i)
      BY <2>3 DEF EndsStatement
    <3>. HIDE DEF a, m, c, i
    <3>2. next.in = e.kind /\ next.skip = a - 1
      BY <1>5, <1>6, <2>3, <3>1
    <3>4. 1 \in 1 .. a /\ 1 \notin a + 1 .. a + m /\ 1 \notin a + m + 1 .. a + m + c
      BY <1>1
    <3>5. Reached(T, e, first, p, 1, next)
      BY <3>2, <3>4 DEF Reached, a, m, c
    <3>. QED
      BY <1>3, <1>8, <3>1, <3>5 DEF i
  <2>. QED
    BY <1>8, <2>2, <2>3 DEF Enters
<1>9. CASE o \in 1 .. a - 1
  <2>1. acc.in = e.kind /\ acc.skip = a - o /\ acc.skip > 0
    <3>1. o > 0 /\ o \in 1 .. a
      BY <1>1, <1>9
    <3>2. acc.in = e.kind /\ acc.skip = a - o
      BY <3>1 DEF Reached
    <3>. HIDE DEF a, m, c
    <3>. QED
      BY <1>1, <1>9, <3>2
  <2>2. ~EndsStatement(T, acc, i)
    BY <2>1 DEF EndsStatement
  <2>3. next.in = e.kind /\ next.skip = a - (o + 1)
    <3>. HIDE DEF a, m, c, i
    <3>. QED
      BY <1>1, <1>5, <1>9, <2>1, <2>2
  <2>4. o + 1 \in 1 .. a /\ o + 1 \notin a + 1 .. a + m /\ o + 1 \notin a + m + 1 .. a + m + c
    <3>. HIDE DEF a, m, c
    <3>. QED
      BY <1>1, <1>9
  <2>5. Reached(T, e, first, p, o + 1, next)
    <3>. HIDE DEF next
    <3>. QED
      BY <2>3, <2>4 DEF Reached
  <2>. QED
    BY <1>3, <2>2, <2>5
<1>10. CASE o \in a .. a + m - 1
  <2>. DEFINE j == o + 1 - a
  <2>1. j \in 1 .. m /\ o > 0 /\ i = p + a + j
    <3>. HIDE DEF a, m, c
    <3>. QED
      BY <1>1, <1>10
  <2>2. acc.in = e.kind /\ acc.skip = IF j - 1 \in first THEN 1 ELSE 0
    <3>1. CASE o = a
      <4>1. o \in 1 .. a /\ j - 1 = 0 /\ a - o = 0
        <5>. HIDE DEF a
        <5>. QED
          BY <1>1, <3>1
      <4>2. acc.in = e.kind /\ acc.skip = a - o
        BY <2>1, <4>1 DEF Reached
      <4>. HIDE DEF j, a, m, c
      <4>. QED
        BY <1>7, <4>1, <4>2
    <3>2. CASE o # a
      <4>1. o \in a + 1 .. a + m /\ j - 1 = o - a
        <5>. HIDE DEF a, m, c
        <5>. QED
          BY <1>1, <1>10, <3>2
      <4>. HIDE DEF j
      <4>. QED
        BY <2>1, <4>1 DEF Reached
    <3>. QED
      BY <3>1, <3>2
  <2>. HIDE DEF j, i, next
  <2>3. /\ ~EndsStatement(T, acc, i)
        /\ Scan(T, acc, i).in = e.kind
        /\ Scan(T, acc, i).skip = IF j \in first THEN 1 ELSE 0
    BY <2>1, <2>2, BodyRound
  <2>4. o + 1 \notin 1 .. a /\ o + 1 \in a + 1 .. a + m /\ o + 1 \notin a + m + 1 .. a + m + c
        /\ (o + 1) - a = j
    <3>. HIDE DEF a, m, c
    <3>. QED
      BY <1>1, <1>10 DEF j
  <2>5. Reached(T, e, first, p, o + 1, Scan(T, acc, i))
    BY <2>3, <2>4 DEF Reached
  <2>. QED
    BY <1>3, <2>3, <2>5 DEF i
<1>11. CASE o = a + m
  <2>1. o > 0 /\ i = p + a + m + 1
    <3>. HIDE DEF a, m, c
    <3>. QED
      BY <1>1, <1>11
  <2>2. acc.in = e.kind /\ acc.skip = 0
    <3>1. CASE m = 0
      <4>1. o \in 1 .. a /\ a - o = 0
        <5>. HIDE DEF a, m, c
        <5>. QED
          BY <1>1, <1>11, <3>1
      <4>. QED
        BY <2>1, <4>1 DEF Reached
    <3>2. CASE m # 0
      <4>1. o \in a + 1 .. a + m /\ o - a = m
        <5>. HIDE DEF a, m, c
        <5>. QED
          BY <1>1, <1>11, <3>2
      <4>2. m \notin first
        <5>1. DOMAIN e.body = 1 .. m
          BY DEF AnyElement
        <5>2. m + 1 \notin 1 .. m
          <6>. HIDE DEF m
          <6>. QED
            BY <1>1
        <5>. QED
          BY <5>1, <5>2 DEF OpenPairs
      <4>. HIDE DEF m
      <4>. QED
        BY <2>1, <4>1, <4>2 DEF Reached, m
    <3>. QED
      BY <3>1, <3>2
  <2>3. ~EndsStatement(T, acc, i)
    BY <1>4, <2>2 DEF EndsStatement
  <2>4. At(T, i, Closes[e.kind])
    BY <2>1, ClosingStands
  <2>5. next.in = Read(T, i, e.kind).in /\ next.skip = Read(T, i, e.kind).takes - 1
    <3>. HIDE DEF i, next
    <3>. QED
      BY <1>5, <2>2, <2>3
  <2>6. /\ o + 1 \notin 1 .. a /\ o + 1 \notin a + 1 .. a + m
        /\ a + m + c - (o + 1) = c - 1 /\ i = p + (o + 1)
    <3>. HIDE DEF a, m, c
    <3>. QED
      BY <1>1, <1>11
  <2>7. CASE e.kind = "string" /\ At(T, i, <<"quote", "quote">>)
    <3>1. next.in = "string" /\ next.skip = 1
      BY <2>5, <2>7, ReadInside
    <3>2. Merges(T, e, p + (o + 1))
      BY <1>3, <2>6, <2>7, BracketsAt DEF Merges
    <3>3. o + 1 = a + m + c
      <4>. HIDE DEF a, m, c
      <4>. QED
        BY <1>1, <1>6, <1>11, <2>7
    <3>4. Reached(T, e, first, p, o + 1, next)
      <4>. HIDE DEF next
      <4>. QED
        BY <2>6, <3>1, <3>2, <3>3 DEF Reached
    <3>. QED
      BY <1>3, <2>3, <3>4
  <2>8. CASE ~(e.kind = "string" /\ At(T, i, <<"quote", "quote">>))
    <3>1. next.in = "code" /\ next.skip = c - 1
      BY <2>4, <2>5, <2>8, ReadInside
    <3>2. Reached(T, e, first, p, o + 1, next)
      <4>. HIDE DEF next
      <4>. QED
        BY <2>6, <3>1 DEF Reached
    <3>. QED
      BY <1>3, <2>3, <3>2
  <2>. QED
    BY <2>7, <2>8
<1>12. CASE o \in a + m + 1 .. a + m + c - 1
  <2>1. /\ o > 0 /\ o \in a + m + 1 .. a + m + c /\ o # a + m + c /\ a + m + c - o > 0
        /\ o + 1 \notin 1 .. a /\ o + 1 \notin a + 1 .. a + m
        /\ a + m + c - o - 1 = a + m + c - (o + 1)
    <3>. HIDE DEF a, m, c
    <3>. QED
      BY <1>1, <1>12
  <2>2. acc.in = "code" /\ acc.skip = a + m + c - o
    BY <2>1 DEF Reached
  <2>3. acc.skip > 0
    <3>. HIDE DEF a, m, c
    <3>. QED
      BY <2>1, <2>2
  <2>4. ~EndsStatement(T, acc, i)
    BY <2>3 DEF EndsStatement
  <2>5. next.in = "code" /\ next.skip = a + m + c - (o + 1)
    <3>. HIDE DEF a, m, c, i, next
    <3>1. next.in = acc.in /\ next.skip = acc.skip - 1
      BY <1>5, <2>3, <2>4
    <3>. QED
      BY <1>1, <1>2, <1>3, <2>2, <3>1
  <2>6. Reached(T, e, first, p, o + 1, next)
    <3>. HIDE DEF next
    <3>. QED
      BY <2>1, <2>5 DEF Reached
  <2>. QED
    BY <1>3, <2>4, <2>6
<1>. HIDE DEF a, m, c
<1>13. o = 0 \/ o \in 1 .. a - 1 \/ o \in a .. a + m - 1 \/ o = a + m \/ o \in a + m + 1 .. a + m + c - 1
  BY <1>1, <1>3
<1>. QED
  BY <1>8, <1>9, <1>10, <1>11, <1>12, <1>13

-----------------------------------------------------------------------------
(* THE SCANNER ON AN ELEMENT                                               *)

NewlinesTo(t, o) == Cardinality({i \in 1 .. o : t[i] = "newline"})

LEMMA NewlineCount ==
    ASSUME NEW t, NEW o \in Nat
    PROVE  /\ NewlinesTo(t, o) \in Nat /\ NewlinesTo(t, 0) = 0
           /\ NewlinesTo(t, o + 1) = LineAfter(NewlinesTo(t, o), t[o + 1])
<1>. DEFINE S(n) == {i \in 1 .. n : t[i] = "newline"}
<1>1. IsFiniteSet(S(o))
  <2>1. IsFiniteSet(1 .. o) /\ S(o) \subseteq 1 .. o
    BY FS_Interval
  <2>. QED
    BY <2>1, FS_Subset
<1>2. S(0) = {}
  OBVIOUS
<1>3. CASE t[o + 1] = "newline"
  <2>1. S(o + 1) = S(o) \cup {o + 1} /\ o + 1 \notin S(o)
    BY <1>3
  <2>. HIDE DEF S
  <2>2. Cardinality(S(o + 1)) = Cardinality(S(o)) + 1
    BY <1>1, <2>1, FS_AddElement
  <2>. QED
    BY <1>1, <1>2, <1>3, <2>2, FS_CardinalityType, FS_EmptySet DEF NewlinesTo, LineAfter, S
<1>4. CASE t[o + 1] # "newline"
  <2>1. S(o + 1) = S(o)
    BY <1>4
  <2>2. Cardinality(S(o)) \in Nat
    BY <1>1, FS_CardinalityType
  <2>. QED
    BY <1>2, <1>4, <2>1, <2>2, FS_EmptySet DEF NewlinesTo, LineAfter
<1>. QED
  BY <1>3, <1>4

(* What o characters of t, read after acc, leave.                          *)
Passed(acc, t, o, after) ==
    /\ after.statements = acc.statements /\ after.start = acc.start
    /\ after.buffer = acc.buffer \o SubSeq(t, 1, o)
    /\ after.line = acc.line + NewlinesTo(t, o)

LEMMA PassedNone ==
    ASSUME NEW acc \in Scanned, NEW t \in Seq(Character)
    PROVE  Passed(acc, t, 0, acc)
<1>1. SubSeq(t, 1, 0) = <<>> /\ acc.buffer \o <<>> = acc.buffer
  BY SubSeqEmpty, ConcatEmptySeq DEF Scanned
<1>2. NewlinesTo(t, 0) = 0 /\ acc.line + 0 = acc.line
  BY NewlineCount DEF Scanned
<1>. QED
  BY <1>1, <1>2 DEF Passed

LEMMA AppendConcat ==
    ASSUME NEW x \in Seq(Character), NEW y \in Seq(Character), NEW c \in Character
    PROVE  Append(x \o y, c) = x \o Append(y, c)
<1>1. x \o y \in Seq(Character) /\ <<c>> \in Seq(Character)
  BY ConcatProperties
<1>2. Append(x \o y, c) = (x \o y) \o <<c>> /\ Append(y, c) = y \o <<c>>
  BY <1>1, AppendIsConcat
<1>. QED
  BY <1>1, <1>2, ConcatAssociative

(* One more character of t after s.                                        *)
LEMMA TakeOne ==
    ASSUME NEW s \in Seq(Character), NEW t \in Seq(Character), NEW o \in 0 .. Len(t) - 1
    PROVE  Append(s \o SubSeq(t, 1, o), t[o + 1]) = s \o SubSeq(t, 1, o + 1)
<1>1. /\ Len(t) \in Nat /\ o \in Nat /\ o + 1 \in 1 .. Len(t) /\ t[o + 1] \in Character
      /\ 1 \in 1 .. Len(t) + 1 /\ o + 1 - 1 = o
  OBVIOUS
<1>2. SubSeq(t, 1, o + 1) = Append(SubSeq(t, 1, o), t[o + 1])
  BY <1>1
<1>3. SubSeq(t, 1, o) \in Seq(Character)
  <2>1. \A k \in 1 .. o : t[k] \in Character
    BY <1>1
  <2>. QED
    BY <1>1, <2>1, SubSeqProperties
<1>. DEFINE x == SubSeq(t, 1, o)
            c == t[o + 1]
<1>4. x \in Seq(Character) /\ c \in Character
  BY <1>1, <1>3
<1>. HIDE DEF x, c
<1>5. Append(s \o x, c) = s \o Append(x, c)
  BY <1>4, AppendConcat
<1>. QED
  BY <1>2, <1>5 DEF x, c

LEMMA PassedOne ==
    ASSUME NEW T \in Seq(Character), NEW p, NEW t \in Seq(Character), Placed(T, p, t),
           NEW acc \in Scanned, NEW now \in Scanned, NEW o \in 0 .. Len(t) - 1,
           Passed(acc, t, o, now), ~EndsStatement(T, now, p + o + 1)
    PROVE  Passed(acc, t, o + 1, Scan(T, now, p + o + 1))
<1>1. /\ p \in Nat /\ Len(t) \in Nat /\ o \in Nat /\ o + 1 \in 1 .. Len(t)
      /\ p + o + 1 \in 1 .. Len(T) /\ p + o + 1 = p + (o + 1)
  BY DEF Placed
<1>2. T[p + o + 1] = t[o + 1] /\ t[o + 1] \in Character
  BY <1>1 DEF Placed
<1>3. LET next == Scan(T, now, p + o + 1) IN
      /\ next.statements = now.statements /\ next.start = now.start
      /\ next.buffer = Append(now.buffer, t[o + 1]) /\ next.line = LineAfter(now.line, t[o + 1])
  BY <1>1, <1>2, ScanGoesOn
<1>4. Append(acc.buffer \o SubSeq(t, 1, o), t[o + 1]) = acc.buffer \o SubSeq(t, 1, o + 1)
  <2>. DEFINE x == acc.buffer
  <2>1. x \in Seq(Character)
    BY DEF Scanned
  <2>. HIDE DEF x
  <2>2. Append(x \o SubSeq(t, 1, o), t[o + 1]) = x \o SubSeq(t, 1, o + 1)
    BY <2>1, TakeOne
  <2>. QED
    BY <2>2 DEF x
<1>5. LineAfter(acc.line + NewlinesTo(t, o), t[o + 1]) = acc.line + NewlinesTo(t, o + 1)
  <2>1. /\ NewlinesTo(t, o) \in Nat /\ acc.line \in Nat
        /\ NewlinesTo(t, o + 1) = LineAfter(NewlinesTo(t, o), t[o + 1])
    BY <1>1, NewlineCount DEF Scanned
  <2>. QED
    BY <2>1 DEF LineAfter
<1>. QED
  BY <1>3, <1>4, <1>5 DEF Passed

(* The scanner leaves an element as it has found it, but for two strings   *)
(* that touch.                                                             *)
Leaves(T, e, q, acc) == \/ acc.in = "code" /\ acc.skip = 0
                        \/ Merges(T, e, q) /\ acc.in = "string" /\ acc.skip = 1

LEMMA BracketScanned ==
    ASSUME NEW T \in Seq(Character), NEW g, ScanRun(T, g), NEW e \in AnyElement, e.kind \in Inside,
           NEW p, Placed(T, p, TextOf(e)), Enters(e, g[p])
    PROVE  LET t == TextOf(e)
               q == p + Len(t) IN
           Passed(g[p], t, Len(t), g[q]) /\ Leaves(T, e, q, g[q])
<1>. DEFINE t == TextOf(e)
            L == Len(t)
            q == p + L
<1>1. t \in Seq(Character) /\ L \in Nat \ {0}
  BY TextType
<1>2. p \in Nat /\ p + L <= Len(T) /\ Len(T) \in Nat
  BY DEF Placed
<1>3. \A i \in 0 .. Len(T) : g[i] \in Scanned
  BY DEF ScanRun
<1>4. \A i \in 1 .. Len(T) : g[i] = Scan(T, g[i - 1], i)
  BY DEF ScanRun
<1>5. PICK first : OpenPairs(e, first)
  BY PairsExist
<1>. DEFINE Good(o) == /\ Passed(g[p], t, o, g[p + o])
                       /\ o > 0 => Reached(T, e, first, p, o, g[p + o])
            S == {o \in 0 .. L : Good(o)}
<1>. HIDE DEF t, L
<1>6. 0 \in S
  <2>1. p + 0 = p /\ g[p] \in Scanned
    BY <1>1, <1>2, <1>3
  <2>2. Passed(g[p], t, 0, g[p])
    BY <1>1, <2>1, PassedNone
  <2>. QED
    BY <1>1, <2>1, <2>2
<1>7. ASSUME NEW o \in 0 .. L, o \in S, o < L
      PROVE  o + 1 \in S
  <2>1. /\ o \in 0 .. L - 1 /\ o + 1 \in 0 .. L /\ p + o + 1 = p + (o + 1) /\ o + 1 > 0
        /\ p + o \in 0 .. Len(T) /\ p + o + 1 \in 1 .. Len(T) /\ (p + o + 1) - 1 = p + o
    BY <1>1, <1>2, <1>7
  <2>2. Good(o) /\ g[p + o] \in Scanned /\ g[p] \in Scanned
    BY <1>2, <1>3, <1>7, <2>1
  <2>3. g[p + (o + 1)] = Scan(T, g[p + o], p + o + 1)
    BY <1>4, <2>1
  <2>4. o = 0 => Enters(e, g[p + o])
    BY <1>2
  <2>. DEFINE acc == g[p + o]
  <2>5. o > 0 => Reached(T, e, first, p, o, acc)
    BY <2>2
  <2>6. /\ ~EndsStatement(T, acc, p + o + 1)
        /\ Reached(T, e, first, p, o + 1, Scan(T, acc, p + o + 1))
    <3>1. o \in 0 .. Len(TextOf(e)) - 1 /\ acc \in Scanned
      BY <2>1, <2>2 DEF L, t
    <3>. HIDE DEF acc
    <3>2. o = 0 => Enters(e, acc)
      BY <2>4 DEF acc
    <3>. QED
      BY <1>5, <2>5, <3>1, <3>2, BracketRound
  <2>7. Passed(g[p], t, o + 1, Scan(T, acc, p + o + 1))
    <3>1. o \in 0 .. Len(t) - 1 /\ Placed(T, p, t) /\ Passed(g[p], t, o, acc)
      BY <2>1, <2>2 DEF L, t
    <3>. DEFINE from == g[p]
    <3>2. acc \in Scanned /\ from \in Scanned
      BY <2>2
    <3>. HIDE DEF acc, from
    <3>3. Passed(from, t, o, acc)
      BY <3>1 DEF from
    <3>4. Passed(from, t, o + 1, Scan(T, acc, p + o + 1))
      BY <1>1, <2>6, <3>1, <3>2, <3>3, PassedOne
    <3>. QED
      BY <3>4 DEF from
  <2>. HIDE DEF acc
  <2>8. Good(o + 1)
    BY <2>3, <2>6, <2>7 DEF acc
  <2>. QED
    BY <2>1, <2>8
<1>8. 0 .. L \subseteq S
  <2>1. L \in Nat
    BY <1>1
  <2>. HIDE DEF S
  <2>. QED
    BY <1>6, <1>7, <2>1, PrefixInduction
<1>9. Good(L)
  BY <1>1, <1>8
<1>10. Leaves(T, e, q, g[q])
  <2>. DEFINE a == Len(Opens[e.kind])
              m == Len(e.body)
              c == Len(Closes[e.kind])
  <2>1. Reached(T, e, first, p, L, g[p + L])
    BY <1>1, <1>9
  <2>2. m \in Nat /\ a \in 1 .. 2 /\ c \in 1 .. 2 /\ L = a + m + c
    BY BracketPlaced DEF L, t
  <2>3. L \in a + m + 1 .. a + m + c /\ a + m + c - L = 0
    <3>. HIDE DEF a, m, c
    <3>. QED
      BY <2>2
  <2>. QED
    BY <2>1, <2>3 DEF Reached, Leaves
<1>. QED
  BY <1>9, <1>10 DEF t, L

(* A word, or a newline.                                                   *)
LEMMA WordScanned ==
    ASSUME NEW T \in Seq(Character), NEW g, ScanRun(T, g), NEW e \in AnyElement, e.kind = "word",
           NEW p, Placed(T, p, TextOf(e)), Enters(e, g[p])
    PROVE  LET t == TextOf(e)
               q == p + Len(t) IN
           Passed(g[p], t, Len(t), g[q]) /\ Leaves(T, e, q, g[q])
<1>. DEFINE t == TextOf(e)
<1>1. /\ t \in Seq(Character) /\ Len(t) = 1 /\ t[1] \in (Character \ Sign) \cup {"newline", "star"}
  <2>1. e.kind \notin Inside
    BY DEF Inside
  <2>2. t = <<e.body[1]>> /\ e.body[1] \in (Character \ Sign) \cup {"newline", "star"}
    BY <2>1, SingleText
  <2>. QED
    BY <2>2, TextType
<1>2. p \in Nat /\ p + 1 \in 1 .. Len(T) /\ T[p + 1] = t[1] /\ p \in 0 .. Len(T)
  <2>1. p \in Nat /\ p + Len(t) <= Len(T) /\ \A o \in 1 .. Len(t) : T[p + o] = t[o]
    BY DEF Placed
  <2>. HIDE DEF t
  <2>. QED
    BY <1>1, <2>1
<1>3. g[p] \in Scanned /\ g[p + 1] = Scan(T, g[p], p + 1)
  <2>1. p + 1 - 1 = p
    BY <1>2
  <2>. QED
    BY <1>2, <2>1 DEF ScanRun
<1>4. g[p].in = "code" /\ g[p].skip = 0
  BY DEF Enters
<1>. DEFINE acc == g[p]
<1>5. T[p + 1] \notin {"dash", "slash", "quote", "double_quote", "dollar", "semicolon"}
  BY <1>1, <1>2 DEF Sign
<1>6. ~EndsStatement(T, acc, p + 1)
  BY <1>5 DEF EndsStatement
<1>7. Scan(T, acc, p + 1).in = "code" /\ Scan(T, acc, p + 1).skip = 0
  <2>1. Read(T, p + 1, "code") = [takes |-> 1, in |-> "code"]
    BY <1>2, <1>5, ReadWord
  <2>. HIDE DEF acc
  <2>2. acc \in Scanned /\ acc.in = "code" /\ acc.skip = 0
    BY <1>3, <1>4 DEF acc
  <2>. QED
    BY <1>2, <1>6, <2>1, <2>2, ScanGoesOn
<1>8. Passed(acc, t, 1, Scan(T, acc, p + 1))
  <2>1. p + 0 + 1 = p + 1 /\ 0 + 1 = 1 /\ 0 \in 0 .. Len(t) - 1
    BY <1>1, <1>2
  <2>2. acc \in Scanned /\ Placed(T, p, t)
    BY <1>3
  <2>. HIDE DEF acc, t
  <2>3. Passed(acc, t, 0, acc)
    BY <1>1, <2>2, PassedNone
  <2>4. Passed(acc, t, 0 + 1, Scan(T, acc, p + 0 + 1))
    BY <1>1, <1>6, <2>1, <2>2, <2>3, PassedOne
  <2>. QED
    BY <2>1, <2>4
<1>. QED
  BY <1>1, <1>3, <1>7, <1>8 DEF Leaves

-----------------------------------------------------------------------------
(* THE TEXT OF A SCRIPT                                                    *)

(* f holds the text of the first elements, one more at a time.             *)
TextParts(es, f) ==
    /\ f[0] = <<>>
    /\ \A n \in 0 .. Len(es) : f[n] \in Seq(Character)
    /\ \A n \in 1 .. Len(es) : f[n] = f[n - 1] \o TextOf(es[n])

LEMMA TextRuns ==
    ASSUME NEW es \in Seq(AnyElement)
    PROVE  \E f : TextParts(es, f) /\ Text(es) = f[Len(es)]
<1>. DEFINE N == Len(es)
            A == Seq(Character)
            seqs == [n \in DOMAIN es |-> TextOf(es[n])]
            body == [n \in 1 .. N |-> [x \in A |-> x \o seqs[n]]]
<1>1. N \in Nat /\ DOMAIN es = 1 .. N /\ \A n \in 1 .. N : es[n] \in AnyElement
  OBVIOUS
<1>2. \A n \in 1 .. N : seqs[n] = TextOf(es[n]) /\ seqs[n] \in A
  BY <1>1, TextType
<1>3. seqs \in Seq(A) /\ Len(seqs) = N
  BY <1>1, <1>2
<1>. HIDE DEF seqs
<1>4. <<>> \in A /\ body \in [1 .. N -> [A -> A]]
  <2>1. \A n \in 1 .. N : \A x \in A : x \o seqs[n] \in A
    BY <1>2, ConcatProperties
  <2>. QED
    BY <2>1
<1>5. PICK g : LoopRun(g, N, A, <<>>, body)
  <2>. HIDE DEF body, N, A
  <2>. QED
    BY <1>1, <1>4, LoopExists
<1>6. /\ g \in [0 .. N -> A] /\ g[0] = <<>>
      /\ \A n \in 1 .. N : n - 1 \in 0 .. N /\ g[n] = g[n - 1] \o seqs[n]
  <2>1. g \in [0 .. N -> A] /\ g[0] = <<>> /\ \A n \in 1 .. N : g[n] = body[n][g[n - 1]]
    BY <1>5 DEF LoopRun
  <2>2. ASSUME NEW n \in 1 .. N
        PROVE  n - 1 \in 0 .. N /\ g[n] = g[n - 1] \o seqs[n]
    <3>1. n - 1 \in 0 .. N
      OBVIOUS
    <3>2. g[n - 1] \in A
      BY <2>1, <3>1
    <3>. QED
      BY <2>1, <3>1, <3>2
  <2>. QED
    BY <2>1, <2>2
<1>7. TextParts(es, g)
  BY <1>2, <1>6 DEF TextParts
<1>8. CASE N = 0
  <2>1. seqs = <<>>
    BY <1>3, <1>8, EmptySeq
  <2>2. Text(es) = <<>>
    BY <1>3, <1>8, <2>1 DEF Text, FlattenSeq, seqs
  <2>. QED
    BY <1>6, <1>7, <1>8, <2>2
<1>9. CASE N # 0
  <2>. DEFINE Rounds(h) == h = [i \in 1 .. N |-> IF i = 1 THEN seqs[i] ELSE h[i - 1] \o seqs[i]]
              flatten == CHOOSE h : Rounds(h)
              h0 == [i \in 1 .. N |-> g[i]]
  <2>1. Rounds(h0)
    <3>1. ASSUME NEW i \in 1 .. N
          PROVE  h0[i] = IF i = 1 THEN seqs[i] ELSE h0[i - 1] \o seqs[i]
      <4>1. CASE i = 1
        <5>1. g[i] = <<>> \o seqs[i] /\ seqs[i] \in A
          <6>1. i - 1 = 0
            BY <4>1
          <6>2. g[i] = g[i - 1] \o seqs[i] /\ seqs[i] \in A
            BY <1>2, <1>6
          <6>. QED
            BY <1>6, <6>1, <6>2
        <5>2. <<>> \o seqs[i] = seqs[i]
          BY <5>1, ConcatEmptySeq
        <5>. QED
          BY <4>1, <5>1, <5>2
      <4>2. CASE i # 1
        <5>1. i - 1 \in 1 .. N
          BY <4>2
        <5>. QED
          BY <1>6, <4>2, <5>1
      <4>. QED
        BY <4>1, <4>2
    <3>. QED
      BY <3>1
  <2>2. Rounds(flatten)
    <3>. HIDE DEF Rounds, h0
    <3>. QED
      BY <2>1
  <2>3. Text(es) = flatten[N]
    BY <1>3, <1>9 DEF Text, FlattenSeq, seqs
  <2>. HIDE DEF flatten
  <2>4. \A i \in 1 .. N : flatten[i] = IF i = 1 THEN seqs[i] ELSE flatten[i - 1] \o seqs[i]
    BY <2>2
  <2>5. \A i \in 1 .. N : flatten[i] = g[i]
    <3>. DEFINE S == {i \in 0 .. N : i # 0 => flatten[i] = g[i]}
    <3>1. 0 \in S
      BY <1>1
    <3>2. ASSUME NEW i \in 0 .. N, i \in S, i < N
          PROVE  i + 1 \in S
      <4>1. i + 1 \in 1 .. N /\ i + 1 \in 0 .. N /\ (i + 1) - 1 = i
        BY <3>2
      <4>2. g[i + 1] = g[i] \o seqs[i + 1]
        BY <1>6, <4>1
      <4>3. CASE i = 0
        <5>1. i + 1 = 1 /\ seqs[i + 1] \in A
          BY <1>2, <4>1, <4>3
        <5>2. <<>> \o seqs[i + 1] = seqs[i + 1]
          BY <5>1, ConcatEmptySeq
        <5>. QED
          BY <1>6, <2>4, <4>1, <4>2, <4>3, <5>1, <5>2
      <4>4. CASE i # 0
        <5>1. flatten[i] = g[i] /\ i + 1 # 1
          BY <3>2, <4>4
        <5>. QED
          BY <2>4, <4>1, <4>2, <5>1
      <4>. QED
        BY <4>3, <4>4
    <3>3. 0 .. N \subseteq S
      <4>. HIDE DEF S
      <4>. QED
        BY <1>1, <3>1, <3>2, PrefixInduction
    <3>. QED
      BY <3>3
  <2>. QED
    BY <1>1, <1>7, <1>9, <2>3, <2>5
<1>. QED
  BY <1>8, <1>9

LEMMA TextEmpty == Text(<<>>) = <<>>
<1>1. <<>> \in Seq(AnyElement) /\ Len(<<>>) = 0
  OBVIOUS
<1>. QED
  BY <1>1, TextRuns DEF TextParts

(* One element more.                                                       *)
LEMMA TextAppend ==
    ASSUME NEW es \in Seq(AnyElement), NEW e \in AnyElement
    PROVE  /\ Text(es) \in Seq(Character)
           /\ Text(Append(es, e)) = Text(es) \o TextOf(e)
<1>. DEFINE N == Len(es)
            fs == Append(es, e)
<1>1. fs \in Seq(AnyElement) /\ Len(fs) = N + 1 /\ N \in Nat /\ fs[N + 1] = e
      /\ \A n \in 1 .. N : fs[n] = es[n]
  OBVIOUS
<1>. HIDE DEF fs
<1>2. PICK f : TextParts(es, f) /\ Text(es) = f[N]
  BY TextRuns
<1>3. PICK h : TextParts(fs, h) /\ Text(fs) = h[N + 1]
  BY <1>1, TextRuns
<1>4. h[N] = f[N]
  <2>. DEFINE S == {n \in 0 .. N : h[n] = f[n]}
  <2>1. 0 \in S
    BY <1>1, <1>2, <1>3 DEF TextParts
  <2>2. ASSUME NEW n \in 0 .. N, n \in S, n < N
        PROVE  n + 1 \in S
    <3>1. n + 1 \in 1 .. N /\ n + 1 \in 1 .. N + 1 /\ n + 1 \in 0 .. N /\ (n + 1) - 1 = n
      BY <1>1, <2>2
    <3>2. h[n + 1] = h[n] \o TextOf(fs[n + 1]) /\ f[n + 1] = f[n] \o TextOf(es[n + 1])
      BY <1>1, <1>2, <1>3, <3>1 DEF TextParts
    <3>. QED
      BY <1>1, <2>2, <3>1, <3>2
  <2>3. 0 .. N \subseteq S
    <3>. HIDE DEF S
    <3>. QED
      BY <1>1, <2>1, <2>2, PrefixInduction
  <2>. QED
    BY <1>1, <2>3
<1>5. h[N + 1] = h[N] \o TextOf(e)
  <2>1. N + 1 \in 1 .. N + 1 /\ (N + 1) - 1 = N
    BY <1>1
  <2>. QED
    BY <1>1, <1>3, <2>1 DEF TextParts
<1>6. f[N] \in Seq(Character)
  BY <1>1, <1>2 DEF TextParts
<1>. QED
  BY <1>2, <1>3, <1>4, <1>5, <1>6 DEF fs

(* Every element stands in the text where the text before it ends.         *)
LEMMA PartsPlaced ==
    ASSUME NEW es \in Seq(AnyElement), NEW f, TextParts(es, f), NEW n \in 1 .. Len(es)
    PROVE  /\ Placed(f[Len(es)], Len(f[n - 1]), TextOf(es[n]))
           /\ Len(f[n]) = Len(f[n - 1]) + Len(TextOf(es[n]))
<1>. DEFINE N == Len(es)
            t == TextOf(es[n])
            Prefix(m) == /\ Len(f[n]) <= Len(f[m])
                         /\ \A i \in 1 .. Len(f[n]) : f[m][i] = f[n][i]
            S == {m \in 0 .. N : n <= m => Prefix(m)}
<1>1. N \in Nat /\ \A m \in 0 .. N : f[m] \in Seq(Character) /\ Len(f[m]) \in Nat
  BY DEF TextParts
<1>2. \A m \in 1 .. N : TextOf(es[m]) \in Seq(Character)
  BY TextType
<1>3. ASSUME NEW m \in 1 .. N
      PROVE  /\ Len(f[m]) = Len(f[m - 1]) + Len(TextOf(es[m]))
             /\ \A i \in 1 .. Len(f[m - 1]) : f[m][i] = f[m - 1][i]
             /\ \A i \in 1 .. Len(TextOf(es[m])) : f[m][Len(f[m - 1]) + i] = TextOf(es[m])[i]
  <2>. DEFINE x == f[m - 1]
              y == TextOf(es[m])
  <2>1. m - 1 \in 0 .. N /\ x \in Seq(Character) /\ y \in Seq(Character) /\ f[m] = x \o y
    <3>1. m - 1 \in 0 .. N
      BY <1>1
    <3>2. f[m] = x \o y
      BY DEF TextParts
    <3>. QED
      BY <1>1, <1>2, <3>1, <3>2
  <2>. HIDE DEF x, y
  <2>2. /\ Len(x \o y) = Len(x) + Len(y) /\ Len(x) \in Nat /\ Len(y) \in Nat
        /\ \A i \in 1 .. Len(x) + Len(y) : (x \o y)[i] = IF i <= Len(x) THEN x[i] ELSE y[i - Len(x)]
    BY <2>1, ConcatProperties
  <2>3. \A i \in 1 .. Len(x) : (x \o y)[i] = x[i]
    BY <2>2
  <2>4. ASSUME NEW i \in 1 .. Len(y)
        PROVE  (x \o y)[Len(x) + i] = y[i]
    <3>1. Len(x) + i \in 1 .. Len(x) + Len(y) /\ ~(Len(x) + i <= Len(x)) /\ Len(x) + i - Len(x) = i
      BY <2>2
    <3>. QED
      BY <2>2, <3>1
  <2>. QED
    BY <2>1, <2>2, <2>3, <2>4 DEF x, y
<1>4. 0 \in S
  BY <1>1
<1>5. ASSUME NEW m \in 0 .. N, m \in S, m < N
      PROVE  m + 1 \in S
  <2>1. m + 1 \in 1 .. N /\ m + 1 \in 0 .. N /\ (m + 1) - 1 = m
    BY <1>5
  <2>2. CASE n = m + 1
    BY <1>1, <2>1, <2>2
  <2>3. CASE n <= m
    <3>1. Prefix(m)
      BY <1>5, <2>3
    <3>2. /\ Len(f[m + 1]) = Len(f[m]) + Len(TextOf(es[m + 1])) /\ Len(TextOf(es[m + 1])) \in Nat
          /\ \A i \in 1 .. Len(f[m]) : f[m + 1][i] = f[m][i]
      <4>. DEFINE k == m + 1
      <4>1. k \in 1 .. N /\ k - 1 = m
        BY <2>1
      <4>. HIDE DEF k
      <4>2. /\ Len(f[k]) = Len(f[k - 1]) + Len(TextOf(es[k])) /\ TextOf(es[k]) \in Seq(Character)
            /\ \A i \in 1 .. Len(f[k - 1]) : f[k][i] = f[k - 1][i]
        BY <1>2, <1>3, <4>1
      <4>. QED
        BY <4>1, <4>2 DEF k
    <3>3. Len(f[n]) \in Nat /\ Len(f[m]) \in Nat
      BY <1>1
    <3>4. Prefix(m + 1)
      <4>. DEFINE x == f[n]
                  y == f[m]
                  z == f[m + 1]
                  l == Len(TextOf(es[m + 1]))
      <4>1. /\ Len(x) <= Len(y) /\ \A i \in 1 .. Len(x) : y[i] = x[i]
            /\ Len(z) = Len(y) + l /\ l \in Nat /\ \A i \in 1 .. Len(y) : z[i] = y[i]
            /\ Len(x) \in Nat /\ Len(y) \in Nat
        BY <3>1, <3>2, <3>3
      <4>. HIDE DEF x, y, z, l
      <4>2. Len(x) <= Len(z) /\ \A i \in 1 .. Len(x) : z[i] = x[i]
        BY <4>1
      <4>. QED
        BY <4>2 DEF x, z
    <3>. QED
      BY <2>1, <3>4
  <2>. QED
    BY <2>1, <2>2, <2>3
<1>6. Prefix(N)
  <2>1. 0 .. N \subseteq S
    <3>. HIDE DEF S
    <3>. QED
      BY <1>1, <1>4, <1>5, PrefixInduction
  <2>. QED
    BY <1>1, <2>1
<1>7. n - 1 \in 0 .. N /\ n \in 0 .. N /\ Len(f[n - 1]) \in Nat /\ Len(f[N]) \in Nat /\ Len(t) \in Nat
  BY <1>1, <1>2
<1>8. ASSUME NEW o \in 1 .. Len(t)
      PROVE  f[N][Len(f[n - 1]) + o] = t[o]
  <2>1. Len(f[n]) = Len(f[n - 1]) + Len(t) /\ f[n][Len(f[n - 1]) + o] = t[o]
    BY <1>3
  <2>. HIDE DEF t
  <2>2. Len(f[n - 1]) + o \in 1 .. Len(f[n])
    BY <1>7, <2>1
  <2>. QED
    BY <1>6, <2>1, <2>2
<1>. QED
  BY <1>3, <1>6, <1>7, <1>8 DEF Placed

-----------------------------------------------------------------------------
(* WHAT THE AUTHOR WROTE                                                   *)

Plain == {e \in AnyElement : e.kind # "semicolon"}

Written == [statements : Seq(Found), now : Seq(Plain), line : Nat, start : Nat]

WrittenStart == [statements |-> <<>>, now |-> <<>>, line |-> 1, start |-> 1]

LEMMA PlainSeq ==
    ASSUME NEW s \in Seq(Plain)
    PROVE  /\ s \in Seq(AnyElement)
           /\ \A n \in DOMAIN s : s[n] \in AnyElement /\ s[n].kind # "semicolon"
BY DEF Plain

LEMMA DelimitType ==
    ASSUME NEW acc \in Written
    PROVE  Delimit(acc) \in Seq(Found)
<1>1. Text(acc.now) \in Seq(Character)
  <2>1. acc.now \in Seq(AnyElement)
    BY PlainSeq DEF Written
  <2>2. PICK f : TextParts(acc.now, f) /\ Text(acc.now) = f[Len(acc.now)]
    BY <2>1, TextRuns
  <2>. QED
    BY <2>1, <2>2 DEF TextParts
<1>2. [sql |-> Text(acc.now), line |-> acc.start] \in Found /\ acc.statements \in Seq(Found)
  BY <1>1 DEF Written, Found
<1>. QED
  BY <1>2 DEF Delimit

LEMMA ReadElementType ==
    ASSUME NEW acc \in Written, NEW e \in AnyElement
    PROVE  /\ ReadElement(acc, e) \in Written
           /\ e.kind = "semicolon" =>
                ReadElement(acc, e) = [acc EXCEPT !.statements = Delimit(acc), !.now = <<>>,
                                                  !.start = acc.line]
           /\ e.kind # "semicolon" =>
                ReadElement(acc, e) = [acc EXCEPT !.now = Append(@, e),
                                                  !.line = @ + NewlinesTo(TextOf(e), Len(TextOf(e)))]
<1>1. CASE e.kind = "semicolon"
  <2>1. Delimit(acc) \in Seq(Found) /\ <<>> \in Seq(Plain) /\ acc.line \in Nat
    BY DelimitType DEF Written
  <2>2. ReadElement(acc, e) = [acc EXCEPT !.statements = Delimit(acc), !.now = <<>>, !.start = acc.line]
    BY <1>1 DEF ReadElement
  <2>. QED
    BY <1>1, <2>1, <2>2 DEF Written
<1>2. CASE e.kind # "semicolon"
  <2>. DEFINE lines == NewlinesTo(TextOf(e), Len(TextOf(e)))
  <2>1. DOMAIN TextOf(e) = 1 .. Len(TextOf(e)) /\ lines \in Nat
    BY TextType, NewlineCount
  <2>2. ReadElement(acc, e) = [acc EXCEPT !.now = Append(@, e), !.line = @ + lines]
    BY <1>2, <2>1 DEF ReadElement, NewlinesTo
  <2>3. e \in Plain /\ acc.now \in Seq(Plain) /\ acc.line \in Nat
    BY <1>2 DEF Plain, Written
  <2>. HIDE DEF lines
  <2>4. Append(acc.now, e) \in Seq(Plain) /\ acc.line + lines \in Nat
    BY <2>1, <2>3
  <2>5. ReadElement(acc, e) \in Written
    BY <2>2, <2>4 DEF Written
  <2>. QED
    BY <1>2, <2>2, <2>5 DEF lines
<1>. QED
  BY <1>1, <1>2

WrittenRun(es, w) ==
    /\ w[0] = WrittenStart
    /\ \A n \in 0 .. Len(es) : w[n] \in Written
    /\ \A n \in 1 .. Len(es) : w[n] = ReadElement(w[n - 1], es[n])

LEMMA WrittenRuns ==
    ASSUME NEW es \in Seq(AnyElement)
    PROVE  \E w : WrittenRun(es, w) /\ WrittenStatements(es) = Delimit(w[Len(es)])
<1>. DEFINE N == Len(es)
            body == [n \in 1 .. N |-> [acc \in Written |-> ReadElement(acc, es[n])]]
<1>1. WrittenStart \in Written
  <2>1. <<>> \in Seq(Found) /\ <<>> \in Seq(Plain)
    OBVIOUS
  <2>. QED
    BY <2>1 DEF WrittenStart, Written
<1>2. ASSUME NEW n \in 1 .. N, NEW acc \in Written
      PROVE  ReadElement(acc, es[n]) \in Written
  <2>1. es[n] \in AnyElement
    OBVIOUS
  <2>. QED
    BY <2>1, ReadElementType
<1>3. body \in [1 .. N -> [Written -> Written]]
  BY <1>2
<1>4. PICK g : LoopRun(g, N, Written, WrittenStart, body)
  <2>. HIDE DEF body
  <2>. QED
    BY <1>1, <1>3, LoopExists
<1>5. /\ g \in [0 .. N -> Written] /\ g[0] = WrittenStart
      /\ \A n \in 1 .. N : n - 1 \in 0 .. N /\ g[n] = ReadElement(g[n - 1], es[n])
  <2>1. g \in [0 .. N -> Written] /\ g[0] = WrittenStart
    BY <1>4 DEF LoopRun
  <2>2. ASSUME NEW n \in 1 .. N
        PROVE  n - 1 \in 0 .. N /\ g[n] = ReadElement(g[n - 1], es[n])
    <3>1. n - 1 \in 0 .. N
      OBVIOUS
    <3>2. g[n] = body[n][g[n - 1]]
      BY <1>4 DEF LoopRun
    <3>3. g[n - 1] \in Written
      BY <2>1, <3>1
    <3>. QED
      BY <3>1, <3>2, <3>3
  <2>. QED
    BY <2>1, <2>2
<1>. DEFINE Rounds(f) == f = [n \in 0 .. N |-> IF n = 0 THEN WrittenStart ELSE ReadElement(f[n - 1], es[n])]
            after == CHOOSE f : Rounds(f)
<1>6. Rounds(after)
  <2>1. Rounds(g)
    BY <1>5
  <2>. HIDE DEF Rounds
  <2>. QED
    BY <2>1
<1>7. WrittenStatements(es) = Delimit(after[N])
  BY DEF WrittenStatements, WrittenStart
<1>. HIDE DEF after
<1>8. after[0] = WrittenStart /\ \A n \in 1 .. N : after[n] = ReadElement(after[n - 1], es[n])
  BY <1>6
<1>9. \A n \in 0 .. N : after[n] \in Written
  <2>. DEFINE S == {n \in 0 .. N : after[n] \in Written}
  <2>1. 0 \in S
    BY <1>1, <1>8
  <2>2. ASSUME NEW n \in 0 .. N, n \in S, n < N
        PROVE  n + 1 \in S
    <3>1. n + 1 \in 1 .. N /\ n + 1 \in 0 .. N /\ (n + 1) - 1 = n
      BY <2>2
    <3>2. after[n + 1] = ReadElement(after[n], es[n + 1])
      BY <1>8, <3>1
    <3>. QED
      BY <1>2, <2>2, <3>1, <3>2
  <2>3. 0 .. N \subseteq S
    <3>. HIDE DEF S
    <3>. QED
      BY <2>1, <2>2, PrefixInduction
  <2>. QED
    BY <2>3
<1>. QED
  BY <1>7, <1>8, <1>9 DEF WrittenRun

-----------------------------------------------------------------------------
(* WITHOUT LINE COMMENTS                                                   *)

BeginsWith(t, s) ==
    /\ Len(s) <= Len(t)
    /\ \A o \in 1 .. Len(s) : t[o] = s[o]

(* What only ever has characters appended begins with all it has been.     *)
LEMMA KeptGrows ==
    ASSUME NEW N \in Nat, NEW kept \in [0 .. N -> Seq(Character)],
           \A i \in 1 .. N : \/ kept[i] = kept[i - 1]
                             \/ \E c \in Character : kept[i] = Append(kept[i - 1], c),
           NEW i \in 0 .. N
    PROVE  BeginsWith(kept[N], kept[i])
<1>. DEFINE S == {m \in 0 .. N : i <= m => BeginsWith(kept[m], kept[i])}
<1>1. BeginsWith(kept[i], kept[i])
  BY DEF BeginsWith
<1>2. 0 \in S
  BY <1>1
<1>3. ASSUME NEW m \in 0 .. N, m \in S, m < N
      PROVE  m + 1 \in S
  <2>1. m + 1 \in 1 .. N /\ m + 1 \in 0 .. N /\ (m + 1) - 1 = m
    BY <1>3
  <2>2. CASE i = m + 1
    BY <1>1, <2>1, <2>2
  <2>3. CASE i > m + 1
    BY <2>1, <2>3
  <2>4. CASE i <= m
    <3>. DEFINE x == kept[i]
                y == kept[m]
                z == kept[m + 1]
    <3>1. BeginsWith(y, x)
      BY <1>3, <2>4
    <3>2. x \in Seq(Character) /\ y \in Seq(Character)
      OBVIOUS
    <3>3. z = y \/ \E c \in Character : z = Append(y, c)
      BY <2>1
    <3>. HIDE DEF x, y, z
    <3>4. ASSUME NEW c \in Character, z = Append(y, c)
          PROVE  BeginsWith(z, x)
      <4>1. /\ Len(z) = Len(y) + 1 /\ Len(y) \in Nat /\ Len(x) \in Nat
            /\ \A o \in 1 .. Len(y) : z[o] = y[o]
        BY <3>2, <3>4
      <4>. QED
        BY <3>1, <4>1 DEF BeginsWith
    <3>5. BeginsWith(z, x)
      BY <3>1, <3>3, <3>4
    <3>. QED
      BY <2>1, <3>5 DEF x, z
  <2>. QED
    BY <2>1, <2>2, <2>3, <2>4
<1>4. 0 .. N \subseteq S
  <2>. HIDE DEF S
  <2>. QED
    BY <1>2, <1>3, PrefixInduction
<1>. QED
  BY <1>4

Lines == [gone : BOOLEAN, kept : Seq(Character)]

LinesStart == [gone |-> FALSE, kept |-> <<>>]

LEMMA LineDropped ==
    ASSUME NEW T \in Seq(Character), NEW i \in 1 .. Len(T), NEW acc \in Lines
    PROVE  LET next == DropLine(T, acc, i) IN
           /\ next \in Lines
           /\ T[i] = "newline" => ~next.gone
           /\ T[i] # "newline" /\ (acc.gone \/ At(T, i, Opens["line"])) => next.gone
           /\ ~acc.gone /\ ~At(T, i, Opens["line"]) => ~next.gone
           /\ next.gone => next.kept = acc.kept
           /\ ~next.gone => next.kept = Append(acc.kept, T[i])
<1>. DEFINE gone == (acc.gone \/ At(T, i, Opens["line"])) /\ T[i] # "newline"
            kept == IF gone THEN acc.kept ELSE Append(acc.kept, T[i])
            next == DropLine(T, acc, i)
<1>1. next = [gone |-> gone, kept |-> kept]
  BY DEF DropLine
<1>2. acc.gone \in BOOLEAN /\ acc.kept \in Seq(Character) /\ T[i] \in Character
  BY DEF Lines
<1>3. gone \in BOOLEAN /\ kept \in Seq(Character)
  <2>1. Append(acc.kept, T[i]) \in Seq(Character)
    BY <1>2
  <2>2. At(T, i, Opens["line"]) \in BOOLEAN
    BY DEF At
  <2>. QED
    BY <1>2, <2>1, <2>2
<1>4. next \in Lines /\ next.gone = gone /\ next.kept = kept
  <2>. HIDE DEF gone, kept, next
  <2>. QED
    BY <1>1, <1>3 DEF Lines
<1>. HIDE DEF next
<1>. QED
  BY <1>4 DEF next

LinesRun(T, g) ==
    /\ g[0] = LinesStart
    /\ \A i \in 0 .. Len(T) : g[i] \in Lines
    /\ \A i \in 1 .. Len(T) : g[i] = DropLine(T, g[i - 1], i)

LEMMA LinesRuns ==
    ASSUME NEW T \in Seq(Character)
    PROVE  \E g : LinesRun(T, g) /\ WithoutLines(T) = g[Len(T)].kept
<1>. DEFINE N == Len(T)
            body == [i \in 1 .. N |-> [acc \in Lines |-> DropLine(T, acc, i)]]
<1>1. LinesStart \in Lines
  <2>1. <<>> \in Seq(Character)
    OBVIOUS
  <2>. QED
    BY <2>1 DEF LinesStart, Lines
<1>2. \A i \in 1 .. N : \A acc \in Lines : DropLine(T, acc, i) \in Lines
  BY LineDropped
<1>3. body \in [1 .. N -> [Lines -> Lines]]
  BY <1>2
<1>4. PICK g : LoopRun(g, N, Lines, LinesStart, body)
  <2>. HIDE DEF body
  <2>. QED
    BY <1>1, <1>3, LoopExists
<1>5. /\ g \in [0 .. N -> Lines] /\ g[0] = LinesStart
      /\ \A i \in 1 .. N : i - 1 \in 0 .. N /\ g[i] = DropLine(T, g[i - 1], i)
  <2>1. g \in [0 .. N -> Lines] /\ g[0] = LinesStart
    BY <1>4 DEF LoopRun
  <2>2. ASSUME NEW i \in 1 .. N
        PROVE  i - 1 \in 0 .. N /\ g[i] = DropLine(T, g[i - 1], i)
    <3>1. i - 1 \in 0 .. N
      OBVIOUS
    <3>2. g[i] = body[i][g[i - 1]]
      BY <1>4 DEF LoopRun
    <3>3. g[i - 1] \in Lines
      BY <2>1, <3>1
    <3>. QED
      BY <3>1, <3>2, <3>3
  <2>. QED
    BY <2>1, <2>2
<1>. DEFINE Rounds(f) == f = [i \in 0 .. N |-> IF i = 0 THEN LinesStart ELSE DropLine(T, f[i - 1], i)]
            after == CHOOSE f : Rounds(f)
<1>6. Rounds(after)
  <2>1. Rounds(g)
    BY <1>5
  <2>. HIDE DEF Rounds
  <2>. QED
    BY <2>1
<1>7. WithoutLines(T) = after[N].kept
  BY DEF WithoutLines, LinesStart
<1>. HIDE DEF after
<1>8. after[0] = LinesStart /\ \A i \in 1 .. N : after[i] = DropLine(T, after[i - 1], i)
  BY <1>6
<1>9. \A i \in 0 .. N : after[i] \in Lines
  <2>. DEFINE S == {i \in 0 .. N : after[i] \in Lines}
  <2>1. 0 \in S
    BY <1>1, <1>8
  <2>2. ASSUME NEW i \in 0 .. N, i \in S, i < N
        PROVE  i + 1 \in S
    <3>1. i + 1 \in 1 .. N /\ i + 1 \in 0 .. N /\ (i + 1) - 1 = i
      BY <2>2
    <3>2. after[i + 1] = DropLine(T, after[i], i + 1)
      BY <1>8, <3>1
    <3>. QED
      BY <1>2, <2>2, <3>1, <3>2
  <2>3. 0 .. N \subseteq S
    <3>. HIDE DEF S
    <3>. QED
      BY <2>1, <2>2, PrefixInduction
  <2>. QED
    BY <2>3
<1>. QED
  BY <1>7, <1>8, <1>9 DEF LinesRun

(* One round.                                                              *)
LEMMA LinesStep ==
    ASSUME NEW T \in Seq(Character), NEW g, LinesRun(T, g), NEW i \in 1 .. Len(T)
    PROVE  /\ i - 1 \in 0 .. Len(T) /\ g[i - 1] \in Lines /\ g[i] \in Lines
           /\ T[i] = "newline" => ~g[i].gone
           /\ T[i] # "newline" /\ (g[i - 1].gone \/ At(T, i, Opens["line"])) => g[i].gone
           /\ ~g[i - 1].gone /\ ~At(T, i, Opens["line"]) => ~g[i].gone
           /\ g[i].gone => g[i].kept = g[i - 1].kept
           /\ ~g[i].gone => g[i].kept = Append(g[i - 1].kept, T[i])
<1>1. i - 1 \in 0 .. Len(T) /\ i \in 0 .. Len(T)
  OBVIOUS
<1>2. g[i] = DropLine(T, g[i - 1], i) /\ g[i - 1] \in Lines /\ g[i] \in Lines
  BY <1>1 DEF LinesRun
<1>. DEFINE acc == g[i - 1]
            next == g[i]
<1>. HIDE DEF acc, next
<1>3. acc \in Lines /\ next = DropLine(T, acc, i)
  BY <1>2 DEF acc, next
<1>4. /\ T[i] = "newline" => ~next.gone
      /\ T[i] # "newline" /\ (acc.gone \/ At(T, i, Opens["line"])) => next.gone
      /\ ~acc.gone /\ ~At(T, i, Opens["line"]) => ~next.gone
      /\ next.gone => next.kept = acc.kept
      /\ ~next.gone => next.kept = Append(acc.kept, T[i])
  BY <1>3, LineDropped
<1>. QED
  BY <1>1, <1>2, <1>4 DEF acc, next

LEMMA LinesGrow ==
    ASSUME NEW T \in Seq(Character), NEW g, LinesRun(T, g), NEW i \in 0 .. Len(T)
    PROVE  BeginsWith(g[Len(T)].kept, g[i].kept)
<1>. DEFINE N == Len(T)
            kept == [j \in 0 .. N |-> g[j].kept]
<1>1. kept \in [0 .. N -> Seq(Character)]
  BY DEF LinesRun, Lines
<1>2. ASSUME NEW j \in 1 .. N
      PROVE  kept[j] = kept[j - 1] \/ \E c \in Character : kept[j] = Append(kept[j - 1], c)
  <2>1. T[j] \in Character /\ j - 1 \in 0 .. N /\ j \in 0 .. N
    OBVIOUS
  <2>2. g[j].kept = g[j - 1].kept \/ g[j].kept = Append(g[j - 1].kept, T[j])
    BY LinesStep
  <2>. QED
    BY <2>1, <2>2
<1>3. BeginsWith(kept[N], kept[i])
  <2>1. N \in Nat
    OBVIOUS
  <2>. HIDE DEF kept, N
  <2>2. i \in 0 .. N
    BY DEF N
  <2>. QED
    BY <1>1, <1>2, <2>1, <2>2, KeptGrows
<1>. QED
  BY <1>3

(* A text without line comments is kept as it is.                          *)
LEMMA NoLinePassed ==
    ASSUME NEW T \in Seq(Character), NEW g, LinesRun(T, g),
           NEW p, NEW t \in Seq(Character), Placed(T, p, t), ~g[p].gone,
           \A o \in 1 .. Len(t) : ~At(T, p + o, Opens["line"])
    PROVE  ~g[p + Len(t)].gone /\ g[p + Len(t)].kept = g[p].kept \o t
<1>. DEFINE L == Len(t)
            Good(o) == ~g[p + o].gone /\ g[p + o].kept = g[p].kept \o SubSeq(t, 1, o)
            S == {o \in 0 .. L : Good(o)}
<1>1. L \in Nat /\ p \in Nat /\ p + L <= Len(T) /\ p \in 0 .. Len(T) /\ p + 0 = p
  BY DEF Placed
<1>2. g[p].kept \in Seq(Character)
  BY <1>1 DEF LinesRun, Lines
<1>3. 0 \in S
  <2>1. SubSeq(t, 1, 0) = <<>> /\ g[p].kept \o <<>> = g[p].kept
    BY <1>2, SubSeqEmpty, ConcatEmptySeq
  <2>2. Good(0)
    BY <1>1, <2>1
  <2>. QED
    BY <1>1, <2>2
<1>4. ASSUME NEW o \in 0 .. L, o \in S, o < L
      PROVE  o + 1 \in S
  <2>. DEFINE i == p + (o + 1)
  <2>1. o + 1 \in 1 .. L /\ o + 1 \in 0 .. L /\ i \in 1 .. Len(T) /\ i - 1 = p + o /\ o \in 0 .. Len(t) - 1
    BY <1>1, <1>4
  <2>2. T[i] = t[o + 1] /\ ~At(T, i, Opens["line"])
    BY <2>1 DEF Placed
  <2>. HIDE DEF i
  <2>3. ~g[i].gone /\ g[i].kept = Append(g[p + o].kept, t[o + 1])
    <3>1. ~g[i - 1].gone
      BY <1>4, <2>1
    <3>. QED
      BY <2>1, <2>2, <3>1, LinesStep
  <2>4. Append(g[p].kept \o SubSeq(t, 1, o), t[o + 1]) = g[p].kept \o SubSeq(t, 1, o + 1)
    <3>. DEFINE s == g[p].kept
    <3>. HIDE DEF s
    <3>1. s \in Seq(Character)
      BY <1>2 DEF s
    <3>2. Append(s \o SubSeq(t, 1, o), t[o + 1]) = s \o SubSeq(t, 1, o + 1)
      BY <2>1, <3>1, TakeOne
    <3>. QED
      BY <3>2 DEF s
  <2>5. Good(o + 1)
    BY <1>4, <2>3, <2>4 DEF i
  <2>. QED
    BY <2>1, <2>5
<1>5. 0 .. L \subseteq S
  <2>. HIDE DEF S
  <2>. QED
    BY <1>1, <1>3, <1>4, PrefixInduction
<1>6. SubSeq(t, 1, L) = t
  BY <1>1, SubSeqFull
<1>7. Good(L)
  <2>1. L \in S
    <3>. HIDE DEF S
    <3>. QED
      BY <1>1, <1>5
  <2>. HIDE DEF Good
  <2>. QED
    BY <2>1
<1>. QED
  BY <1>6, <1>7

(* What may stand before the SQL of a statement: comments and new lines.   *)
Newline == [kind |-> "word", body |-> <<"newline">>]

LEMMA NewlineText ==
    /\ Newline \in AnyElement /\ Newline.kind = "word" /\ Newline.kind \notin Inside
    /\ TextOf(Newline) = <<"newline">> /\ Len(TextOf(Newline)) = 1 /\ TextOf(Newline)[1] = "newline"
<1>1. "newline" \in Character
  BY ScriptAssumption DEF Sign
<1>2. <<"newline">> \in Seq(Character) /\ Len(<<"newline">>) = 1 /\ <<"newline">>[1] = "newline"
  BY <1>1
<1>3. MayHold("word", <<"newline">>)
  BY <1>1 DEF MayHold
<1>4. Newline.kind = "word" /\ Newline.body = <<"newline">>
  BY DEF Newline
<1>5. Newline \in [kind : Kinds, body : Seq(Character)]
  BY <1>2 DEF Newline, Kinds
<1>. QED
  BY <1>2, <1>3, <1>4, <1>5 DEF AnyElement, TextOf, Inside

(* A line comment leaves its new line.                                     *)
Unlined(e) == IF e.kind = "line" THEN Newline ELSE e

LEMMA LeadKinds ==
    ASSUME NEW e \in AnyElement, e.kind # "semicolon"
    PROVE  /\ ~Sql(e) <=> e.kind = "line" \/ e.kind = "block" \/ e = Newline
           /\ Unlined(e) \in AnyElement
           /\ ~Sql(e) => Unlined(e) = Newline \/ Unlined(e).kind = "block"
BY NewlineText DEF Sql, Newline, Unlined

LEMMA BlockHasNoLine ==
    ASSUME NEW T \in Seq(Character), NEW e \in AnyElement, e.kind = "block",
           ~Pair(e.body, "dash", "dash"),
           NEW p, Placed(T, p, TextOf(e)), NEW o \in 1 .. Len(TextOf(e))
    PROVE  ~At(T, p + o, Opens["line"])
<1>. DEFINE m == Len(e.body)
            b == e.body
<1>1. e.kind \in Inside /\ m \in Nat /\ DOMAIN b = 1 .. m 
  BY DEF Inside, AnyElement
<1>2. /\ p \in Nat /\ Len(TextOf(e)) = 2 + m + 2 /\ p + 2 + m + 2 <= Len(T) /\ Len(T) \in Nat
      /\ Len(Opens["block"]) = 2 /\ Len(Closes["block"]) = 2
  <2>1. /\ p \in Nat /\ Len(TextOf(e)) = Len(Opens[e.kind]) + m + Len(Closes[e.kind])
        /\ p + Len(Opens[e.kind]) + m + Len(Closes[e.kind]) <= Len(T)
    BY <1>1, BracketPlaced
  <2>2. Len(Opens["block"]) = 2 /\ Len(Closes["block"]) = 2
    BY BracketLengths
  <2>3. Len(T) \in Nat /\ Opens[e.kind] = Opens["block"] /\ Closes[e.kind] = Closes["block"]
    OBVIOUS
  <2>4. /\ Len(TextOf(e)) = Len(Opens["block"]) + m + Len(Closes["block"])
        /\ p + Len(Opens["block"]) + m + Len(Closes["block"]) <= Len(T)
    BY <2>1, <2>3
  <2>. QED
    BY <2>1, <2>2, <2>3, <2>4
<1>3. T[p + 1] = "slash" /\ T[p + 2] = "star"
  <2>1. \A i \in 1 .. Len(Opens[e.kind]) : T[p + i] = Opens[e.kind][i]
    BY <1>1, BracketPlaced
  <2>. QED
    BY <1>2, <2>1, BracketsAre
<1>4. T[p + 2 + m + 1] = "star" /\ T[p + 2 + m + 2] = "slash"
  <2>1. \A i \in 1 .. Len(Closes[e.kind]) : T[p + Len(Opens[e.kind]) + m + i] = Closes[e.kind][i]
    BY <1>1, BracketPlaced
  <2>. QED
    BY <1>2, <2>1, BracketsAre
<1>5. \A j \in 1 .. m : T[p + 2 + j] = b[j]
  <2>1. \A j \in 1 .. m : T[p + Len(Opens[e.kind]) + j] = b[j]
    BY <1>1, BracketPlaced
  <2>. QED
    BY <1>2, <2>1
<1>6. ~Pair(b, "dash", "dash")
  OBVIOUS
<1>. HIDE DEF m, b
<1>7. ASSUME T[p + o] = "dash", T[p + o + 1] = "dash"
      PROVE  FALSE
  <2>1. o \in 3 .. m + 1
    <3>1. o \in 1 .. m + 4 /\ o # 1 /\ o # 2 /\ o # m + 3 /\ o # m + 4 /\ o # m + 2
      <4>1. o # 1 /\ o # 2
        BY <1>3, <1>7
      <4>2. o # m + 3
        BY <1>1, <1>2, <1>4, <1>7
      <4>3. o # m + 4
        BY <1>1, <1>2, <1>4, <1>7
      <4>4. o # m + 2
        BY <1>1, <1>2, <1>4, <1>7
      <4>. QED
        BY <1>1, <1>2, <4>1, <4>2, <4>3, <4>4
    <3>. QED
      BY <1>1, <3>1
  <2>. DEFINE j == o - 2
  <2>2. j \in 1 .. m /\ j + 1 \in 1 .. m /\ p + o = p + 2 + j /\ p + o + 1 = p + 2 + (j + 1)
    BY <1>1, <1>2, <2>1
  <2>. HIDE DEF j
  <2>3. b[j] = "dash" /\ b[j + 1] = "dash"
    BY <1>5, <1>7, <2>2
  <2>. QED
    BY <1>1, <1>6, <2>2, <2>3 DEF Pair
<1>8. p + o \in 1 .. Len(T)
  BY <1>1, <1>2
<1>. QED
  BY <1>7, <1>8, BracketsAt

(* A line comment goes, its new line stays.                                *)
LEMMA LinePassed ==
    ASSUME NEW T \in Seq(Character), NEW g, LinesRun(T, g), NEW e \in AnyElement, e.kind = "line",
           NEW p, Placed(T, p, TextOf(e)), ~g[p].gone
    PROVE  LET q == p + Len(TextOf(e)) IN
           ~g[q].gone /\ g[q].kept = Append(g[p].kept, "newline")
<1>. DEFINE m == Len(e.body)
            b == e.body
            L == m + 2
            q == p + Len(TextOf(e))
            S == {o \in 0 .. L : g[p + o].kept = g[p].kept /\ (o # 0 => g[p + o].gone)}
<1>1. e.kind \in Inside /\ m \in Nat /\ DOMAIN b = 1 .. m /\ MayHold("line", b)
  BY DEF Inside, AnyElement
<1>2. /\ p \in Nat /\ Len(TextOf(e)) = 2 + m + 1 /\ p + 2 + m + 1 <= Len(T) /\ Len(T) \in Nat
      /\ Len(Opens["line"]) = 2 /\ Len(Closes["line"]) = 1
  <2>1. /\ p \in Nat /\ Len(TextOf(e)) = Len(Opens[e.kind]) + m + Len(Closes[e.kind])
        /\ p + Len(Opens[e.kind]) + m + Len(Closes[e.kind]) <= Len(T)
    BY <1>1, BracketPlaced
  <2>2. Len(Opens["line"]) = 2 /\ Len(Closes["line"]) = 1
    BY BracketLengths
  <2>3. Len(T) \in Nat /\ Opens[e.kind] = Opens["line"] /\ Closes[e.kind] = Closes["line"]
    OBVIOUS
  <2>4. /\ Len(TextOf(e)) = Len(Opens["line"]) + m + Len(Closes["line"])
        /\ p + Len(Opens["line"]) + m + Len(Closes["line"]) <= Len(T)
    BY <2>1, <2>3
  <2>. QED
    BY <2>1, <2>2, <2>3, <2>4
<1>3. T[p + 1] = "dash" /\ T[p + 2] = "dash"
  <2>1. \A i \in 1 .. Len(Opens[e.kind]) : T[p + i] = Opens[e.kind][i]
    BY <1>1, BracketPlaced
  <2>. QED
    BY <1>2, <2>1, BracketsAre
<1>4. T[p + 2 + m + 1] = "newline"
  <2>1. \A i \in 1 .. Len(Closes[e.kind]) : T[p + Len(Opens[e.kind]) + m + i] = Closes[e.kind][i]
    BY <1>1, BracketPlaced
  <2>. QED
    <3>1. 1 \in 1 .. Len(Closes[e.kind]) /\ Closes[e.kind][1] = "newline"
      BY <1>2, BracketsAre
    <3>2. T[p + Len(Opens[e.kind]) + m + 1] = "newline"
      BY <2>1, <3>1
    <3>3. Len(Opens[e.kind]) = 2
      BY <1>2
    <3>. QED
      BY <3>2, <3>3
<1>5. \A j \in 1 .. m : T[p + 2 + j] = b[j] /\ b[j] # "newline"
  <2>1. \A j \in 1 .. m : T[p + 2 + j] = b[j]
    <3>1. \A j \in 1 .. m : T[p + Len(Opens[e.kind]) + j] = b[j]
      BY <1>1, BracketPlaced
    <3>. QED
      BY <1>2, <3>1
  <2>. QED
    BY <1>1, <2>1 DEF MayHold
<1>6. At(T, p + 1, Opens["line"])
  BY <1>1, OpeningStands
<1>7. q = p + (L + 1) /\ L \in Nat
  BY <1>1, <1>2
<1>. HIDE DEF m, b, q
<1>8. 0 \in S
  <2>1. p + 0 = p /\ 0 \in 0 .. L
    BY <1>1, <1>2
  <2>. QED
    BY <2>1
<1>9. ASSUME NEW o \in 0 .. L, o \in S, o < L
      PROVE  o + 1 \in S
  <2>. DEFINE i == p + (o + 1)
  <2>1. o + 1 \in 0 .. L /\ o + 1 # 0 /\ i \in 1 .. Len(T) /\ i - 1 = p + o
    BY <1>1, <1>2, <1>7, <1>9
  <2>2. T[i] # "newline"
    <3>1. CASE o = 0 \/ o = 1
      BY <1>2, <1>3, <3>1
    <3>2. CASE ~(o = 0 \/ o = 1)
      <4>1. o - 1 \in 1 .. m /\ i = p + 2 + (o - 1)
        BY <1>1, <1>2, <1>7, <1>9, <3>2
      <4>. HIDE DEF i
      <4>. QED
        BY <1>5, <4>1
    <3>. QED
      BY <3>1, <3>2
  <2>3. g[i - 1].gone \/ At(T, i, Opens["line"])
    <3>1. CASE o = 0
      BY <1>2, <1>6, <3>1
    <3>2. CASE o # 0
      BY <1>9, <2>1, <3>2
    <3>. QED
      BY <3>1, <3>2
  <2>. HIDE DEF i
  <2>4. g[i].gone /\ g[i].kept = g[i - 1].kept
    BY <2>1, <2>2, <2>3, LinesStep
  <2>. QED
    BY <1>9, <2>1, <2>4 DEF i
<1>10. L \in S
  <2>. HIDE DEF S
  <2>1. 0 .. L \subseteq S
    BY <1>7, <1>8, <1>9, PrefixInduction
  <2>. QED
    BY <1>7, <2>1
<1>11. q \in 1 .. Len(T) /\ q - 1 = p + L /\ T[q] = "newline"
  BY <1>1, <1>2, <1>4, <1>7
<1>12. ~g[q].gone /\ g[q].kept = Append(g[q - 1].kept, T[q])
  BY <1>11, LinesStep
<1>. QED
  BY <1>10, <1>11, <1>12 DEF q

(* What stands before the SQL, after the line comments are gone.           *)
LEMMA LeadPassed ==
    ASSUME NEW T \in Seq(Character), NEW g, LinesRun(T, g), NEW e \in AnyElement,
           e.kind # "semicolon", ~Sql(e), e.kind = "block" => ~Pair(e.body, "dash", "dash"),
           NEW p, Placed(T, p, TextOf(e)), ~g[p].gone
    PROVE  LET q == p + Len(TextOf(e)) IN
           ~g[q].gone /\ g[q].kept = g[p].kept \o TextOf(Unlined(e))
<1>. DEFINE t == TextOf(e)
<1>1. t \in Seq(Character)
  BY TextType
<1>2. e.kind = "line" \/ e.kind = "block" \/ e = Newline
  BY LeadKinds
<1>3. CASE e.kind = "line"
  <2>1. p \in 0 .. Len(T)
    BY <1>1 DEF Placed
  <2>2. g[p].kept \in Seq(Character)
    BY <2>1 DEF LinesRun, Lines
  <2>3. Append(g[p].kept, "newline") = g[p].kept \o <<"newline">>
    BY <2>2, AppendIsConcat, ScriptAssumption DEF Sign
  <2>4. TextOf(Unlined(e)) = <<"newline">>
    BY <1>3, NewlineText DEF Unlined
  <2>. QED
    BY <1>3, <2>3, <2>4, LinePassed
<1>4. CASE e.kind = "block"
  <2>1. \A o \in 1 .. Len(t) : ~At(T, p + o, Opens["line"])
    BY <1>4, BlockHasNoLine
  <2>2. Unlined(e) = e
    BY <1>4 DEF Unlined
  <2>. HIDE DEF t
  <2>3. ~g[p + Len(t)].gone /\ g[p + Len(t)].kept = g[p].kept \o t
    BY <1>1, <2>1, NoLinePassed DEF t
  <2>. QED
    BY <2>2, <2>3 DEF t
<1>5. CASE e = Newline
  <2>1. Len(t) = 1 /\ t[1] = "newline"
    BY <1>5, NewlineText
  <2>2. Unlined(e) = e
    BY <1>5, NewlineText DEF Unlined
  <2>. HIDE DEF t
  <2>3. ASSUME NEW o \in 1 .. Len(t)
        PROVE  ~At(T, p + o, Opens["line"])
    <3>1. o = 1 /\ p + o \in 1 .. Len(T) /\ T[p + o] = "newline"
      BY <2>1 DEF Placed, t
    <3>. QED
      BY <3>1, BracketsAt
  <2>4. ~g[p + Len(t)].gone /\ g[p + Len(t)].kept = g[p].kept \o t
    BY <1>1, <2>3, NoLinePassed DEF t
  <2>. QED
    BY <2>2, <2>4 DEF t
<1>. QED
  BY <1>2, <1>3, <1>4, <1>5

-----------------------------------------------------------------------------
(* WITHOUT BLOCK COMMENTS                                                  *)

Blocks == [until : Nat, kept : Seq(Character)]

BlocksStart == [until |-> 0, kept |-> <<>>]

LEMMA LeastIsMin ==
    ASSUME NEW S \in SUBSET Nat, S # {}
    PROVE  Min(S) \in S /\ \A y \in S : Min(S) <= y
<1>1. PICK m \in S : \A k \in S : m <= k
  BY LeastNumber
<1>. QED
  BY <1>1 DEF Min

LEMMA BlockDropped ==
    ASSUME NEW K \in Seq(Character), NEW i \in 1 .. Len(K), NEW acc \in Blocks
    PROVE  LET next == DropBlock(K, acc, i) IN
           /\ next \in Blocks
           /\ i <= acc.until => next = acc
           /\ i > acc.until /\ K[i] # "slash" =>
                next.until = acc.until /\ next.kept = Append(acc.kept, K[i])
           /\ next.kept = acc.kept \/ next.kept = Append(acc.kept, K[i])
<1>. DEFINE closings == {j \in i + 2 .. Len(K) : At(K, j, Closes.block)}
            next == DropBlock(K, acc, i)
<1>1. acc.until \in Nat /\ acc.kept \in Seq(Character) /\ K[i] \in Character /\ i \in Nat
  BY DEF Blocks
<1>2. Append(acc.kept, K[i]) \in Seq(Character)
  BY <1>1
<1>3. ASSUME closings # {}
      PROVE  Min(closings) + 1 \in Nat
  <2>1. closings \in SUBSET Nat
    BY <1>1
  <2>. HIDE DEF closings
  <2>2. Min(closings) \in closings
    BY <1>3, <2>1, LeastIsMin
  <2>. DEFINE x == Min(closings)
  <2>3. x \in Nat
    BY <2>1, <2>2
  <2>. HIDE DEF x
  <2>4. x + 1 \in Nat
    BY <2>3
  <2>. QED
    BY <2>4 DEF x
<1>4. K[i] # "slash" => ~At(K, i, Opens.block)
  BY BracketsAt
<1>5. next = IF i <= acc.until THEN acc
             ELSE IF At(K, i, Opens.block) /\ closings # {}
               THEN [acc EXCEPT !.until = Min(closings) + 1]
             ELSE [acc EXCEPT !.kept = Append(@, K[i])]
  BY DEF DropBlock
<1>. HIDE DEF closings, next
<1>6. CASE i <= acc.until
  BY <1>1, <1>5, <1>6 DEF next
<1>7. CASE ~(i <= acc.until) /\ At(K, i, Opens.block) /\ closings # {}
  <2>1. next = [acc EXCEPT !.until = Min(closings) + 1]
    BY <1>5, <1>7
  <2>2. next \in Blocks /\ next.kept = acc.kept
    BY <1>1, <1>3, <1>7, <2>1 DEF Blocks
  <2>. QED
    BY <1>1, <1>4, <1>7, <2>2 DEF next
<1>8. CASE ~(i <= acc.until) /\ ~(At(K, i, Opens.block) /\ closings # {})
  <2>1. next = [acc EXCEPT !.kept = Append(@, K[i])]
    BY <1>5, <1>8
  <2>2. next \in Blocks /\ next.kept = Append(acc.kept, K[i]) /\ next.until = acc.until
    BY <1>1, <1>2, <2>1 DEF Blocks
  <2>. QED
    BY <1>1, <1>8, <2>2 DEF next
<1>. QED
  BY <1>6, <1>7, <1>8

BlocksRun(K, b) ==
    /\ b[0] = BlocksStart
    /\ \A i \in 0 .. Len(K) : b[i] \in Blocks
    /\ \A i \in 1 .. Len(K) : b[i] = DropBlock(K, b[i - 1], i)

LEMMA BlocksRuns ==
    ASSUME NEW K \in Seq(Character)
    PROVE  \E b : BlocksRun(K, b) /\ WithoutBlocks(K) = b[Len(K)].kept
<1>. DEFINE N == Len(K)
            body == [i \in 1 .. N |-> [acc \in Blocks |-> DropBlock(K, acc, i)]]
<1>1. BlocksStart \in Blocks
  <2>1. <<>> \in Seq(Character)
    OBVIOUS
  <2>. QED
    BY <2>1 DEF BlocksStart, Blocks
<1>2. \A i \in 1 .. N : \A acc \in Blocks : DropBlock(K, acc, i) \in Blocks
  BY BlockDropped
<1>3. body \in [1 .. N -> [Blocks -> Blocks]]
  BY <1>2
<1>4. PICK b : LoopRun(b, N, Blocks, BlocksStart, body)
  <2>. HIDE DEF body
  <2>. QED
    BY <1>1, <1>3, LoopExists
<1>5. /\ b \in [0 .. N -> Blocks] /\ b[0] = BlocksStart
      /\ \A i \in 1 .. N : i - 1 \in 0 .. N /\ b[i] = DropBlock(K, b[i - 1], i)
  <2>1. b \in [0 .. N -> Blocks] /\ b[0] = BlocksStart
    BY <1>4 DEF LoopRun
  <2>2. ASSUME NEW i \in 1 .. N
        PROVE  i - 1 \in 0 .. N /\ b[i] = DropBlock(K, b[i - 1], i)
    <3>1. i - 1 \in 0 .. N
      OBVIOUS
    <3>2. b[i] = body[i][b[i - 1]]
      BY <1>4 DEF LoopRun
    <3>3. b[i - 1] \in Blocks
      BY <2>1, <3>1
    <3>. QED
      BY <3>1, <3>2, <3>3
  <2>. QED
    BY <2>1, <2>2
<1>. DEFINE Rounds(f) == f = [i \in 0 .. N |-> IF i = 0 THEN BlocksStart ELSE DropBlock(K, f[i - 1], i)]
            after == CHOOSE f : Rounds(f)
<1>6. Rounds(after)
  <2>1. Rounds(b)
    BY <1>5
  <2>. HIDE DEF Rounds
  <2>. QED
    BY <2>1
<1>7. WithoutBlocks(K) = after[N].kept
  BY DEF WithoutBlocks, BlocksStart
<1>. HIDE DEF after
<1>8. after[0] = BlocksStart /\ \A i \in 1 .. N : after[i] = DropBlock(K, after[i - 1], i)
  BY <1>6
<1>9. \A i \in 0 .. N : after[i] \in Blocks
  <2>. DEFINE S == {i \in 0 .. N : after[i] \in Blocks}
  <2>1. 0 \in S
    BY <1>1, <1>8
  <2>2. ASSUME NEW i \in 0 .. N, i \in S, i < N
        PROVE  i + 1 \in S
    <3>1. i + 1 \in 1 .. N /\ i + 1 \in 0 .. N /\ (i + 1) - 1 = i
      BY <2>2
    <3>2. after[i + 1] = DropBlock(K, after[i], i + 1)
      BY <1>8, <3>1
    <3>. QED
      BY <1>2, <2>2, <3>1, <3>2
  <2>3. 0 .. N \subseteq S
    <3>. HIDE DEF S
    <3>. QED
      BY <2>1, <2>2, PrefixInduction
  <2>. QED
    BY <2>3
<1>. QED
  BY <1>7, <1>8, <1>9 DEF BlocksRun

(* One round.                                                              *)
LEMMA BlocksStep ==
    ASSUME NEW K \in Seq(Character), NEW b, BlocksRun(K, b), NEW i \in 1 .. Len(K)
    PROVE  /\ i - 1 \in 0 .. Len(K) /\ b[i - 1] \in Blocks /\ b[i] \in Blocks
           /\ i <= b[i - 1].until => b[i] = b[i - 1]
           /\ i > b[i - 1].until /\ K[i] # "slash" =>
                b[i].until = b[i - 1].until /\ b[i].kept = Append(b[i - 1].kept, K[i])
           /\ b[i].kept = b[i - 1].kept \/ b[i].kept = Append(b[i - 1].kept, K[i])
<1>1. i - 1 \in 0 .. Len(K) /\ i \in 0 .. Len(K)
  OBVIOUS
<1>2. b[i] = DropBlock(K, b[i - 1], i) /\ b[i - 1] \in Blocks /\ b[i] \in Blocks
  BY <1>1 DEF BlocksRun
<1>. DEFINE acc == b[i - 1]
            next == b[i]
<1>. HIDE DEF acc, next
<1>3. acc \in Blocks /\ next = DropBlock(K, acc, i)
  BY <1>2 DEF acc, next
<1>4. /\ i <= acc.until => next = acc
      /\ i > acc.until /\ K[i] # "slash" =>
           next.until = acc.until /\ next.kept = Append(acc.kept, K[i])
      /\ next.kept = acc.kept \/ next.kept = Append(acc.kept, K[i])
  BY <1>3, BlockDropped
<1>. QED
  BY <1>1, <1>2, <1>4 DEF acc, next

LEMMA BlocksGrow ==
    ASSUME NEW K \in Seq(Character), NEW b, BlocksRun(K, b), NEW i \in 0 .. Len(K)
    PROVE  BeginsWith(b[Len(K)].kept, b[i].kept)
<1>. DEFINE N == Len(K)
            kept == [j \in 0 .. N |-> b[j].kept]
<1>1. kept \in [0 .. N -> Seq(Character)]
  BY DEF BlocksRun, Blocks
<1>2. ASSUME NEW j \in 1 .. N
      PROVE  kept[j] = kept[j - 1] \/ \E c \in Character : kept[j] = Append(kept[j - 1], c)
  <2>1. K[j] \in Character /\ j - 1 \in 0 .. N /\ j \in 0 .. N
    OBVIOUS
  <2>2. b[j].kept = b[j - 1].kept \/ b[j].kept = Append(b[j - 1].kept, K[j])
    BY BlocksStep
  <2>. QED
    BY <2>1, <2>2
<1>3. BeginsWith(kept[N], kept[i])
  <2>1. N \in Nat
    OBVIOUS
  <2>. HIDE DEF kept, N
  <2>2. i \in 0 .. N
    BY DEF N
  <2>. QED
    BY <1>1, <1>2, <2>1, <2>2, KeptGrows
<1>. QED
  BY <1>3

(* A block comment goes, to its own closing.                               *)
LEMMA BlockOpens ==
    ASSUME NEW K \in Seq(Character), NEW e \in AnyElement, e.kind = "block",
           NEW p, Placed(K, p, TextOf(e)), NEW acc \in Blocks, acc.until <= p
    PROVE  DropBlock(K, acc, p + 1) = [acc EXCEPT !.until = p + Len(TextOf(e))]
<1>. DEFINE m == Len(e.body)
            d == p + 2 + m + 1
            closings == {j \in (p + 1) + 2 .. Len(K) : At(K, j, Closes.block)}
<1>1. e.kind \in Inside /\ m \in Nat /\ Len(K) \in Nat
  BY DEF Inside, AnyElement
<1>2. /\ p \in Nat /\ Len(TextOf(e)) = 2 + m + 2 /\ p + 2 + m + 2 <= Len(K)
      /\ Len(Opens["block"]) = 2 /\ Len(Closes["block"]) = 2
  <2>1. /\ p \in Nat /\ Len(TextOf(e)) = Len(Opens[e.kind]) + m + Len(Closes[e.kind])
        /\ p + Len(Opens[e.kind]) + m + Len(Closes[e.kind]) <= Len(K)
    BY <1>1, BracketPlaced
  <2>2. Len(Opens["block"]) = 2 /\ Len(Closes["block"]) = 2
    BY BracketLengths
  <2>3. Opens[e.kind] = Opens["block"] /\ Closes[e.kind] = Closes["block"]
    OBVIOUS
  <2>4. /\ Len(TextOf(e)) = Len(Opens["block"]) + m + Len(Closes["block"])
        /\ p + Len(Opens["block"]) + m + Len(Closes["block"]) <= Len(K)
    BY <2>1, <2>3
  <2>. QED
    BY <2>1, <2>2, <2>4
<1>3. At(K, p + 1, Opens["block"])
  BY <1>1, OpeningStands
<1>4. At(K, d, Closes["block"])
  <2>1. At(K, p + Len(Opens[e.kind]) + Len(e.body) + 1, Closes[e.kind])
    BY <1>1, ClosingStands
  <2>2. Len(Opens[e.kind]) = 2
    BY <1>2
  <2>. QED
    BY <2>1, <2>2
<1>5. ASSUME NEW j \in 1 .. m
      PROVE  ~At(K, p + 2 + j, Closes["block"])
  <2>1. ~At(K, p + Len(Opens[e.kind]) + j, Closes[e.kind])
    BY <1>1, BodyStaysOpen
  <2>2. Len(Opens[e.kind]) = 2
    BY <1>2
  <2>. QED
    BY <2>1, <2>2
<1>. HIDE DEF m
<1>6. d \in closings
  BY <1>1, <1>2, <1>4
<1>7. ASSUME NEW j \in closings
      PROVE  d <= j
  <2>1. j \in p + 3 .. Len(K) /\ At(K, j, Closes["block"])
    BY <1>2
  <2>2. CASE j < d
    <3>. DEFINE o == j - (p + 2)
    <3>1. o \in 1 .. m /\ p + 2 + o = j
      BY <1>1, <1>2, <2>1, <2>2
    <3>. HIDE DEF o
    <3>. QED
      BY <1>5, <2>1, <3>1
  <2>. QED
    BY <1>1, <1>2, <2>1, <2>2
<1>8. closings \in SUBSET Nat
  BY <1>2
<1>9. p + 1 > acc.until /\ acc.until \in Nat
  BY <1>2 DEF Blocks
<1>10. DropBlock(K, acc, p + 1) = IF p + 1 <= acc.until THEN acc
                                  ELSE IF At(K, p + 1, Opens.block) /\ closings # {}
                                    THEN [acc EXCEPT !.until = Min(closings) + 1]
                                  ELSE [acc EXCEPT !.kept = Append(@, K[p + 1])]
  BY DEF DropBlock
<1>11. d \in Nat /\ d + 1 = p + Len(TextOf(e))
  BY <1>1, <1>2
<1>. HIDE DEF closings, d
<1>12. Min(closings) = d
  <2>1. Min(closings) \in closings /\ Min(closings) <= d
    BY <1>6, <1>8, LeastIsMin
  <2>2. d <= Min(closings) /\ Min(closings) \in Nat
    BY <1>7, <1>8, <2>1
  <2>. QED
    BY <1>11, <2>1, <2>2
<1>13. ~(p + 1 <= acc.until)
  BY <1>2, <1>9
<1>. QED
  BY <1>3, <1>6, <1>10, <1>11, <1>12, <1>13

(* What stands before the SQL leaves new lines only.                       *)
LEMMA BlanksPassed ==
    ASSUME NEW K \in Seq(Character), NEW b, BlocksRun(K, b),
           NEW u \in AnyElement, u = Newline \/ u.kind = "block",
           NEW p, Placed(K, p, TextOf(u)), b[p].until <= p, Blank(b[p].kept)
    PROVE  LET q == p + Len(TextOf(u)) IN b[q].until <= q /\ Blank(b[q].kept)
<1>. DEFINE L == Len(TextOf(u))
            q == p + L
<1>1. p \in Nat /\ L \in Nat \ {0} /\ q <= Len(K) /\ Len(K) \in Nat
      /\ p \in 0 .. Len(K) /\ p + 1 \in 1 .. Len(K) /\ (p + 1) - 1 = p
  <2>1. TextOf(u) \in Seq(Character) /\ L \in Nat \ {0}
    BY TextType
  <2>. HIDE DEF L
  <2>2. p \in Nat /\ p + L <= Len(K)
    BY DEF Placed, L
  <2>. QED
    BY <2>1, <2>2
<1>2. b[p] \in Blocks
  BY <1>1 DEF BlocksRun
<1>3. CASE u = Newline
  <2>1. L = 1 /\ TextOf(u)[1] = "newline"
    BY <1>3, NewlineText
  <2>2. K[p + 1] = "newline" /\ q = p + 1
    BY <2>1 DEF Placed
  <2>3. b[p].until \in Nat /\ b[p].kept \in Seq(Character)
    BY <1>2 DEF Blocks
  <2>4. b[p + 1].until = b[p].until /\ b[p + 1].kept = Append(b[p].kept, "newline")
    <3>1. p + 1 > b[p].until
      BY <1>1, <2>3
    <3>. DEFINE i == p + 1
    <3>2. i \in 1 .. Len(K) /\ i - 1 = p /\ K[i] = "newline" /\ i > b[i - 1].until
      BY <1>1, <2>2, <3>1
    <3>. HIDE DEF i
    <3>3. b[i].until = b[i - 1].until /\ b[i].kept = Append(b[i - 1].kept, K[i])
      BY <3>2, BlocksStep
    <3>. QED
      BY <3>2, <3>3 DEF i
  <2>5. Blank(Append(b[p].kept, "newline"))
    BY <2>3 DEF Blank
  <2>6. b[p].until <= p + 1
    BY <1>1, <2>3
  <2>. HIDE DEF q
  <2>. QED
    BY <2>2, <2>4, <2>5, <2>6 DEF q
<1>4. CASE u.kind = "block"
  <2>. DEFINE acc == b[p]
  <2>1. b[p + 1] = [acc EXCEPT !.until = q]
    <3>1. b[p + 1] = DropBlock(K, b[p], p + 1)
      BY <1>1 DEF BlocksRun
    <3>2. acc \in Blocks /\ acc.until <= p
      BY <1>2
    <3>. HIDE DEF acc, q
    <3>3. DropBlock(K, acc, p + 1) = [acc EXCEPT !.until = q]
      BY <1>4, <3>2, BlockOpens DEF q
    <3>. QED
      BY <3>1, <3>3 DEF acc
  <2>2. b[p + 1].until = q /\ b[p + 1].kept = b[p].kept
    <3>. HIDE DEF q
    <3>. QED
      BY <1>2, <2>1 DEF Blocks
  <2>. HIDE DEF acc
  <2>. DEFINE S == {o \in 0 .. L : o # 0 => b[p + o] = b[p + 1]}
  <2>3. 0 \in S
    BY <1>1
  <2>4. ASSUME NEW o \in 0 .. L, o \in S, o < L
        PROVE  o + 1 \in S
    <3>. DEFINE i == p + (o + 1)
    <3>1. o + 1 \in 0 .. L /\ i \in 1 .. Len(K) /\ i - 1 = p + o /\ i <= q
      BY <1>1, <2>4
    <3>2. CASE o = 0
      <4>1. o + 1 = 1
        BY <3>2
      <4>. QED
        BY <3>1, <4>1
    <3>3. CASE o # 0
      <4>1. b[p + o] = b[p + 1]
        BY <2>4, <3>3
      <4>. HIDE DEF i, q
      <4>2. b[i - 1] = b[p + 1] /\ i <= b[i - 1].until
        BY <2>2, <3>1, <4>1
      <4>3. b[i] = b[i - 1]
        BY <3>1, <4>2, BlocksStep
      <4>. QED
        BY <3>1, <4>2, <4>3 DEF i
    <3>. QED
      BY <3>2, <3>3
  <2>5. L \in S
    <3>. HIDE DEF S
    <3>1. L \in Nat
      BY <1>1
    <3>. HIDE DEF L
    <3>2. 0 .. L \subseteq S
      BY <2>3, <2>4, <3>1, PrefixInduction
    <3>. QED
      BY <3>1, <3>2
  <2>6. b[q] = b[p + 1]
    BY <1>1, <2>5
  <2>. QED
    BY <1>1, <2>2, <2>6
<1>. QED
  BY <1>3, <1>4

-----------------------------------------------------------------------------
(* WHAT IS LEFT OF A STATEMENT                                             *)

(* The elements before the SQL, without their line comments.               *)
LEMMA LeadUnlined ==
    ASSUME NEW es \in Seq(Plain), NEW f, TextParts(es, f),
           NEW g, LinesRun(f[Len(es)], g), NEW M \in 0 .. Len(es),
           \A n \in 1 .. M : ~Sql(es[n]) /\ (es[n].kind = "block" => ~Pair(es[n].body, "dash", "dash"))
    PROVE  LET us == [n \in 1 .. M |-> Unlined(es[n])] IN
           /\ us \in Seq(AnyElement) /\ Len(us) = M
           /\ \A n \in 1 .. M : us[n] = Newline \/ us[n].kind = "block"
           /\ ~g[Len(f[M])].gone /\ g[Len(f[M])].kept = Text(us)
<1>. DEFINE N == Len(es)
            us == [n \in 1 .. M |-> Unlined(es[n])]
<1>1. N \in Nat /\ M \in Nat /\ \A n \in 1 .. M : n \in 1 .. N
  OBVIOUS
<1>2. ASSUME NEW n \in 1 .. M
      PROVE  /\ es[n] \in AnyElement /\ es[n].kind # "semicolon" /\ ~Sql(es[n])
             /\ es[n].kind = "block" => ~Pair(es[n].body, "dash", "dash")
             /\ Unlined(es[n]) \in AnyElement
             /\ Unlined(es[n]) = Newline \/ Unlined(es[n]).kind = "block"
  <2>1. n \in DOMAIN es
    BY <1>1
  <2>2. es[n] \in AnyElement /\ es[n].kind # "semicolon"
    BY <2>1, PlainSeq
  <2>. QED
    BY <2>2, LeadKinds
<1>3. /\ us \in Seq(AnyElement) /\ Len(us) = M
      /\ \A n \in 1 .. M : us[n] = Unlined(es[n])
  BY <1>1, <1>2
<1>. HIDE DEF us
<1>4. PICK h : TextParts(us, h) /\ Text(us) = h[M]
  BY <1>3, TextRuns
<1>5. es \in Seq(AnyElement)
  BY PlainSeq
<1>. DEFINE T == f[N]
            Good(n) == ~g[Len(f[n])].gone /\ g[Len(f[n])].kept = h[n]
            S == {n \in 0 .. M : Good(n)}
<1>6. 0 \in S
  <2>1. f[0] = <<>> /\ h[0] = <<>> /\ Len(<<>>) = 0
    BY <1>4 DEF TextParts
  <2>2. g[0] = LinesStart
    BY DEF LinesRun
  <2>. QED
    BY <1>1, <2>1, <2>2 DEF LinesStart
<1>7. ASSUME NEW n \in 0 .. M, n \in S, n < M
      PROVE  n + 1 \in S
  <2>. DEFINE k == n + 1
              p == Len(f[n])
              e == es[k]
  <2>1. k \in 1 .. M /\ k \in 1 .. N /\ k \in 0 .. M /\ k - 1 = n
    BY <1>1, <1>7
  <2>. HIDE DEF k
  <2>2. /\ Placed(T, p, TextOf(e)) /\ Len(f[k]) = p + Len(TextOf(e))
    BY <1>5, <2>1, PartsPlaced
  <2>3. /\ e \in AnyElement /\ e.kind # "semicolon" /\ ~Sql(e)
        /\ e.kind = "block" => ~Pair(e.body, "dash", "dash")
    BY <1>2, <2>1
  <2>4. ~g[p].gone /\ g[p].kept = h[n]
    BY <1>7
  <2>5. h[k] = h[n] \o TextOf(Unlined(e))
    <3>1. h[k] = h[k - 1] \o TextOf(us[k])
      BY <1>3, <1>4, <2>1 DEF TextParts
    <3>. QED
      BY <1>3, <2>1, <3>1
  <2>. HIDE DEF p, e
  <2>6. /\ ~g[p + Len(TextOf(e))].gone
        /\ g[p + Len(TextOf(e))].kept = g[p].kept \o TextOf(Unlined(e))
    <3>1. T \in Seq(Character) /\ LinesRun(T, g)
      BY <1>1 DEF TextParts
    <3>. HIDE DEF T
    <3>. QED
      BY <2>2, <2>3, <2>4, <3>1, LeadPassed
  <2>7. Good(k)
    BY <2>2, <2>4, <2>5, <2>6
  <2>. QED
    BY <2>1, <2>7 DEF k
<1>8. Good(M)
  <2>. HIDE DEF S
  <2>1. 0 .. M \subseteq S
    BY <1>1, <1>6, <1>7, PrefixInduction
  <2>2. M \in S
    BY <1>1, <2>1
  <2>. HIDE DEF Good
  <2>. QED
    BY <2>2 DEF S
<1>9. \A n \in 1 .. M : us[n] = Newline \/ us[n].kind = "block"
  BY <1>2, <1>3
<1>. QED
  BY <1>3, <1>4, <1>8, <1>9 DEF us

(* They leave new lines only, without their block comments.                *)
LEMMA LeadBlank ==
    ASSUME NEW us \in Seq(AnyElement),
           \A n \in 1 .. Len(us) : us[n] = Newline \/ us[n].kind = "block",
           NEW K \in Seq(Character), BeginsWith(K, Text(us)), NEW b, BlocksRun(K, b)
    PROVE  LET p == Len(Text(us)) IN b[p].until <= p /\ Blank(b[p].kept)
<1>. DEFINE M == Len(us)
<1>1. PICK h : TextParts(us, h) /\ Text(us) = h[M]
  BY TextRuns
<1>2. M \in Nat /\ \A n \in 0 .. M : h[n] \in Seq(Character) /\ Len(h[n]) \in Nat
  BY <1>1 DEF TextParts
<1>. DEFINE Good(n) == b[Len(h[n])].until <= Len(h[n]) /\ Blank(b[Len(h[n])].kept)
            S == {n \in 0 .. M : Good(n)}
<1>3. 0 \in S
  <2>1. h[0] = <<>> /\ Len(<<>>) = 0 /\ DOMAIN <<>> = {}
    BY <1>1 DEF TextParts
  <2>2. b[0] = BlocksStart
    BY DEF BlocksRun
  <2>. QED
    BY <1>2, <2>1, <2>2 DEF BlocksStart, Blank
<1>4. ASSUME NEW n \in 0 .. M, n \in S, n < M
      PROVE  n + 1 \in S
  <2>. DEFINE k == n + 1
              p == Len(h[n])
              u == us[k]
              t == TextOf(u)
  <2>1. k \in 1 .. M /\ k \in 0 .. M /\ k - 1 = n
    BY <1>2, <1>4
  <2>. HIDE DEF k
  <2>2. Placed(h[M], p, t) /\ Len(h[k]) = p + Len(t)
    BY <1>1, <2>1, PartsPlaced
  <2>3. u \in AnyElement /\ (u = Newline \/ u.kind = "block") /\ Len(t) \in Nat
    <3>1. u \in AnyElement /\ (u = Newline \/ u.kind = "block")
      BY <2>1
    <3>. HIDE DEF u
    <3>. QED
      BY <3>1, TextType
  <2>4. b[p].until <= p /\ Blank(b[p].kept)
    BY <1>4
  <2>5. Placed(K, p, t)
    <3>. DEFINE x == h[M]
    <3>1. BeginsWith(K, x) /\ Placed(x, p, t) /\ Len(x) \in Nat
      BY <1>1, <1>2, <2>2
    <3>. HIDE DEF x, p, t
    <3>2. /\ p \in Nat /\ p + Len(t) <= Len(x) /\ Len(x) <= Len(K) /\ Len(t) \in Nat /\ Len(K) \in Nat
      BY <2>3, <3>1 DEF Placed, BeginsWith
    <3>3. ASSUME NEW o \in 1 .. Len(t)
          PROVE  K[p + o] = t[o]
      <4>1. p + o \in 1 .. Len(x)
        BY <3>2
      <4>. QED
        BY <3>1, <4>1 DEF Placed, BeginsWith
    <3>. QED
      BY <3>2, <3>3 DEF Placed
  <2>. HIDE DEF p, u
  <2>6. b[p + Len(t)].until <= p + Len(t) /\ Blank(b[p + Len(t)].kept)
    BY <2>3, <2>4, <2>5, BlanksPassed
  <2>7. Good(k)
    BY <2>2, <2>6
  <2>. QED
    BY <2>1, <2>7 DEF k
<1>5. Good(M)
  <2>. HIDE DEF S
  <2>1. 0 .. M \subseteq S
    BY <1>2, <1>3, <1>4, PrefixInduction
  <2>2. M \in S
    BY <1>2, <2>1
  <2>. HIDE DEF Good
  <2>. QED
    BY <2>2 DEF S
<1>. QED
  BY <1>1, <1>5

(* SQL begins with no comment sign and no white space.                     *)
LEMMA SqlBegins ==
    ASSUME NEW e \in AnyElement, e.kind # "semicolon", Sql(e)
    PROVE  /\ TextOf(e)[1] \in Character
           /\ TextOf(e)[1] \notin {"dash", "slash", "newline"}
<1>. DEFINE c == TextOf(e)[1]
<1>1. c \in Character
  BY TextType
<1>2. CASE e.kind \in Inside
  <2>1. TextOf(e)[1] = Opens[e.kind][1]
    <3>1. 1 \in 1 .. Len(Opens[e.kind])
      BY <1>2, BracketType
    <3>. QED
      BY <1>2, <3>1, TextShape
  <2>2. /\ Opens["string"][1] = "quote"
        /\ Opens["identifier"][1] = "double_quote" /\ Opens["dollar"][1] = "dollar"
    BY BracketsAre
  <2>3. e.kind = "string" \/ e.kind = "identifier" \/ e.kind = "dollar"
    BY <1>2 DEF Sql, Inside
  <2>. QED
    BY <1>1, <2>1, <2>2, <2>3
<1>3. CASE e.kind \notin Inside
  <2>1. e.kind = "word" /\ TextOf(e) = e.body /\ e.body = <<e.body[1]>>
        /\ e.body[1] \in (Character \ Sign) \cup {"newline", "star"}
    BY <1>3, SingleText
  <2>2. e.body[1] # "newline"
    <3>1. ASSUME e.body[1] = "newline"
          PROVE  FALSE
      <4>1. e = Newline
        BY <2>1, <3>1 DEF AnyElement, Newline
      <4>. QED
        BY <4>1 DEF Sql, Newline
    <3>. QED
      BY <3>1
  <2>. QED
    BY <1>1, <2>1, <2>2 DEF Sign
<1>. QED
  BY <1>2, <1>3

(* _is_executable finds the SQL, unless a comment before it misleads it.   *)
LEMMA ExecutableIffSql ==
    ASSUME NEW es \in Seq(Plain), ~Misled(es)
    PROVE  IsExecutable(Text(es)) <=> \E n \in DOMAIN es : Sql(es[n])
<1>. DEFINE N == Len(es)
            T == Text(es)
            K == WithoutLines(T)
<1>1. es \in Seq(AnyElement) /\ N \in Nat /\ DOMAIN es = 1 .. N
      /\ \A n \in 1 .. N : es[n] \in AnyElement /\ es[n].kind # "semicolon"
  BY PlainSeq
<1>2. PICK f : TextParts(es, f) /\ T = f[N]
  BY <1>1, TextRuns
<1>3. \A n \in 0 .. N : f[n] \in Seq(Character) /\ Len(f[n]) \in Nat
  BY <1>2 DEF TextParts
<1>4. T \in Seq(Character) /\ Len(T) \in Nat
  BY <1>1, <1>2, <1>3
<1>. HIDE DEF T
<1>5. PICK g : LinesRun(T, g) /\ K = g[Len(T)].kept
  BY <1>4, LinesRuns
<1>6. K \in Seq(Character) /\ Len(K) \in Nat
  <2>1. g[Len(T)] \in Lines
    BY <1>4, <1>5 DEF LinesRun
  <2>. HIDE DEF K
  <2>. QED
    BY <1>5, <2>1 DEF Lines
<1>. HIDE DEF K
<1>7. PICK b : BlocksRun(K, b) /\ WithoutBlocks(K) = b[Len(K)].kept
  BY <1>6, BlocksRuns
<1>8. IsExecutable(T) <=> ~Blank(b[Len(K)].kept)
  BY <1>7 DEF IsExecutable, K
<1>lead. ASSUME NEW M \in 0 .. N, \A n \in 1 .. M : ~Sql(es[n])
         PROVE  \A n \in 1 .. M : es[n].kind = "block" => ~Pair(es[n].body, "dash", "dash")
  <2>1. ASSUME NEW n \in 1 .. M
        PROVE  n \in DOMAIN es /\ \A m \in 1 .. n : ~Sql(es[m])
    BY <1>1, <1>lead
  <2>. QED
    BY <2>1 DEF Misled
<1>9. ASSUME NEW M \in 0 .. N, \A n \in 1 .. M : ~Sql(es[n])
      PROVE  LET us == [n \in 1 .. M |-> Unlined(es[n])] IN
             /\ us \in Seq(AnyElement) /\ Len(us) = M /\ Text(us) \in Seq(Character)
             /\ \A n \in 1 .. M : us[n] = Newline \/ us[n].kind = "block"
             /\ ~g[Len(f[M])].gone /\ g[Len(f[M])].kept = Text(us)
  <2>. DEFINE us == [n \in 1 .. M |-> Unlined(es[n])]
  <2>1. /\ us \in Seq(AnyElement) /\ Len(us) = M
        /\ \A n \in 1 .. M : us[n] = Newline \/ us[n].kind = "block"
        /\ ~g[Len(f[M])].gone /\ g[Len(f[M])].kept = Text(us)
    <3>1. TextParts(es, f) /\ LinesRun(f[Len(es)], g)
      BY <1>2, <1>5
    <3>2. \A n \in 1 .. M : ~Sql(es[n]) /\ (es[n].kind = "block" => ~Pair(es[n].body, "dash", "dash"))
      BY <1>9, <1>lead
    <3>. QED
      BY <3>1, <3>2, LeadUnlined, Zenon
  <2>. HIDE DEF us
  <2>2. Text(us) \in Seq(Character)
    <3>1. PICK h : TextParts(us, h) /\ Text(us) = h[Len(us)]
      BY <2>1, TextRuns
    <3>. QED
      BY <2>1, <3>1 DEF TextParts
  <2>. QED
    BY <2>1, <2>2 DEF us
<1>10. CASE \A n \in 1 .. N : ~Sql(es[n])
  <2>. DEFINE us == [n \in 1 .. N |-> Unlined(es[n])]
  <2>1. N \in 0 .. N
    BY <1>1
  <2>2. /\ us \in Seq(AnyElement) /\ Len(us) = N /\ Text(us) \in Seq(Character)
        /\ \A n \in 1 .. N : us[n] = Newline \/ us[n].kind = "block"
        /\ g[Len(f[N])].kept = Text(us)
    BY <1>9, <1>10, <2>1
  <2>. HIDE DEF us
  <2>3. Text(us) = K
    BY <1>2, <1>5, <2>2
  <2>4. BeginsWith(K, Text(us))
    BY <1>6, <2>3 DEF BeginsWith
  <2>5. Blank(b[Len(Text(us))].kept)
    BY <1>6, <1>7, <2>2, <2>4, LeadBlank
  <2>6. Blank(b[Len(K)].kept)
    BY <2>3, <2>5
  <2>7. ~IsExecutable(T) /\ ~\E n \in DOMAIN es : Sql(es[n])
    BY <1>1, <1>8, <1>10, <2>6
  <2>. QED
    BY <2>7 DEF T
<1>11. CASE \E n \in 1 .. N : Sql(es[n])
  <2>. DEFINE sqls == {n \in 1 .. N : Sql(es[n])}
  <2>1. PICK k \in sqls : \A n \in sqls : k <= n
    <3>1. sqls \in SUBSET Nat /\ sqls # {}
      BY <1>1, <1>11
    <3>. HIDE DEF sqls
    <3>. QED
      BY <3>1, LeastNumber
  <2>. DEFINE M == k - 1
              us == [n \in 1 .. M |-> Unlined(es[n])]
              e == es[k]
              c == TextOf(e)[1]
              i == Len(f[M]) + 1
              j == Len(Text(us)) + 1
  <2>2. M \in 0 .. N /\ k \in 1 .. N /\ Sql(e) /\ \A n \in 1 .. M : ~Sql(es[n])
    BY <1>1, <2>1
  <2>3. /\ us \in Seq(AnyElement) /\ Len(us) = M /\ Text(us) \in Seq(Character)
        /\ \A n \in 1 .. M : us[n] = Newline \/ us[n].kind = "block"
        /\ ~g[Len(f[M])].gone /\ g[Len(f[M])].kept = Text(us)
    <3>. HIDE DEF M
    <3>. QED
      BY <1>9, <2>2
  <2>4. c \in Character /\ c # "dash" /\ c # "slash" /\ c # "newline"
    BY <1>1, <2>2, SqlBegins
  <2>5. i \in 1 .. Len(T) /\ i - 1 = Len(f[M]) /\ T[i] = c
    <3>1. Placed(f[N], Len(f[k - 1]), TextOf(es[k]))
      BY <1>1, <1>2, <2>2, PartsPlaced
    <3>. DEFINE p == Len(f[M])
                t == TextOf(e)
    <3>2. Placed(T, p, t)
      BY <1>2, <3>1
    <3>3. Len(t) \in Nat \ {0}
      BY <1>1, <2>2, TextType
    <3>. HIDE DEF p, t
    <3>4. p + 1 \in 1 .. Len(T) /\ (p + 1) - 1 = p /\ T[p + 1] = t[1]
      BY <1>4, <3>2, <3>3 DEF Placed
    <3>. QED
      BY <3>4 DEF p, t
  <2>. HIDE DEF us, M, c, e, i
  <2>6. ~At(T, i, Opens["line"])
    BY <1>4, <2>4, <2>5, BracketsAt
  <2>7. g[i].kept = Append(Text(us), c)
    <3>1. ~g[i - 1].gone /\ g[i - 1].kept = Text(us)
      BY <2>3, <2>5
    <3>2. ~g[i].gone /\ g[i].kept = Append(g[i - 1].kept, T[i])
      BY <1>4, <1>5, <2>5, <2>6, <3>1, LinesStep
    <3>. QED
      BY <2>5, <3>1, <3>2
  <2>8. BeginsWith(K, g[i].kept)
    <3>1. i \in 0 .. Len(T)
      BY <2>5
    <3>. QED
      BY <1>4, <1>5, <3>1, LinesGrow
  <2>9. j \in 1 .. Len(K) /\ K[j] = c /\ BeginsWith(K, Text(us)) /\ j - 1 = Len(Text(us))
    <3>. DEFINE x == Text(us)
                y == Append(x, c)
    <3>1. x \in Seq(Character) /\ BeginsWith(K, y)
      BY <2>3, <2>7, <2>8
    <3>2. /\ Len(y) = Len(x) + 1 /\ y[Len(x) + 1] = c /\ Len(x) \in Nat
          /\ \A o \in 1 .. Len(x) : y[o] = x[o]
      <4>. HIDE DEF x
      <4>. QED
        BY <2>4, <3>1
    <3>. HIDE DEF x, y
    <3>3. /\ Len(x) + 1 \in 1 .. Len(K) /\ K[Len(x) + 1] = c /\ (Len(x) + 1) - 1 = Len(x)
          /\ BeginsWith(K, x)
      BY <1>6, <3>1, <3>2 DEF BeginsWith
    <3>. QED
      BY <3>3 DEF x
  <2>10. b[j - 1].until <= j - 1
    BY <1>6, <1>7, <2>3, <2>9, LeadBlank
  <2>. HIDE DEF j
  <2>11. b[j].kept = Append(b[j - 1].kept, c)
    <3>1. b[j - 1] \in Blocks
      BY <1>6, <1>7, <2>9, BlocksStep
    <3>2. j > b[j - 1].until
      BY <2>9, <2>10, <3>1 DEF Blocks
    <3>3. b[j].kept = Append(b[j - 1].kept, K[j])
      BY <1>6, <1>7, <2>4, <2>9, <3>2, BlocksStep
    <3>. QED
      BY <2>9, <3>3
  <2>12. BeginsWith(b[Len(K)].kept, b[j].kept)
    <3>1. j \in 0 .. Len(K)
      BY <2>9
    <3>. QED
      BY <1>6, <1>7, <3>1, BlocksGrow
  <2>13. ~Blank(b[Len(K)].kept)
    <3>. DEFINE x == b[j - 1].kept
                y == Append(x, c)
                z == b[Len(K)].kept
    <3>1. x \in Seq(Character) /\ z \in Seq(Character)
      <4>1. b[j - 1] \in Blocks /\ b[Len(K)] \in Blocks
        BY <1>6, <1>7, <2>9 DEF BlocksRun
      <4>. QED
        BY <4>1 DEF Blocks
    <3>2. BeginsWith(z, y)
      BY <2>11, <2>12
    <3>3. Len(y) = Len(x) + 1 /\ y[Len(x) + 1] = c /\ Len(x) \in Nat
      <4>. HIDE DEF x
      <4>. QED
        BY <2>4, <3>1
    <3>. HIDE DEF x, y, z
    <3>4. Len(x) + 1 \in DOMAIN z /\ z[Len(x) + 1] = c
      BY <3>1, <3>2, <3>3 DEF BeginsWith
    <3>. QED
      BY <2>4, <3>4 DEF Blank, z
  <2>14. IsExecutable(T) /\ \E n \in DOMAIN es : Sql(es[n])
    BY <1>1, <1>8, <1>11, <2>13
  <2>. QED
    BY <2>14 DEF T
<1>. QED
  BY <1>10, <1>11

-----------------------------------------------------------------------------
(* STATEMENT BY STATEMENT                                                  *)

(* The scanner, outside of elements, agrees with the author.               *)
Agrees(acc, v) ==
    /\ acc.statements = v.statements /\ acc.buffer = Text(v.now)
    /\ acc.line = v.line /\ acc.start = v.start

LEMMA EmitsAsDelimited ==
    ASSUME NEW acc \in Scanned, NEW v \in Written, Agrees(acc, v)
    PROVE  Emit(acc) = Delimit(v)
<1>1. v.now \in Seq(Plain)
  BY DEF Written
<1>2. IsExecutable(Text(v.now)) <=> ToSend(v.now)
  BY <1>1, ExecutableIffSql DEF ToSend
<1>. QED
  BY <1>2 DEF Emit, Delimit, Agrees

(* One element, read by the scanner and by the author.                     *)
LEMMA ElementAgrees ==
    ASSUME NEW T \in Seq(Character), NEW g, ScanRun(T, g), NEW e \in AnyElement,
           NEW p, Placed(T, p, TextOf(e)), Enters(e, g[p]),
           NEW v \in Written, Agrees(g[p], v)
    PROVE  LET q == p + Len(TextOf(e)) IN
           Agrees(g[q], ReadElement(v, e)) /\ Leaves(T, e, q, g[q])
<1>. DEFINE t == TextOf(e)
            q == p + Len(t)
            acc == g[p]
            next == g[q]
<1>1. p \in Nat /\ p + Len(t) <= Len(T) /\ t \in Seq(Character) /\ Len(t) \in Nat \ {0}
      /\ \A o \in 1 .. Len(t) : T[p + o] = t[o]
  BY TextType DEF Placed
<1>2. \A i \in 0 .. Len(T) : g[i] \in Scanned
  BY DEF ScanRun
<1>3. acc \in Scanned /\ next \in Scanned
  <2>1. p \in 0 .. Len(T) /\ q \in 0 .. Len(T)
    <3>. HIDE DEF t
    <3>. QED
      BY <1>1
  <2>. HIDE DEF q
  <2>. QED
    BY <1>2, <2>1
<1>4. CASE e.kind = "semicolon"
  <2>1. t = <<"semicolon">> /\ Len(t) = 1
    <3>1. e.kind \notin Inside
      BY <1>4 DEF Inside
    <3>2. t = <<e.body[1]>> /\ e.body[1] = "semicolon"
      BY <1>4, <3>1, SingleText
    <3>. QED
      BY <3>2
  <2>2. /\ p + 1 \in 1 .. Len(T) /\ T[p + 1] = "semicolon" /\ q = p + 1 /\ (p + 1) - 1 = p
    BY <1>1, <2>1
  <2>3. acc.in = "code" /\ acc.skip = 0
    BY <1>4 DEF Enters
  <2>4. next = Scan(T, acc, p + 1)
    BY <2>2 DEF ScanRun
  <2>5. EndsStatement(T, acc, p + 1)
    BY <2>2, <2>3 DEF EndsStatement
  <2>. HIDE DEF acc, next, t, q
  <2>6. /\ next.statements = Emit(acc) /\ next.buffer = <<>>
        /\ next.line = acc.line /\ next.start = acc.line
        /\ next.in = "code" /\ next.skip = 0
    BY <1>3, <2>2, <2>4, <2>5, ScanEnds
  <2>7. ReadElement(v, e) = [v EXCEPT !.statements = Delimit(v), !.now = <<>>, !.start = v.line]
    BY <1>4, ReadElementType
  <2>8. Emit(acc) = Delimit(v)
    BY <1>3, EmitsAsDelimited DEF acc
  <2>9. Agrees(next, ReadElement(v, e))
    <3>1. acc.line = v.line
      BY DEF Agrees, acc
    <3>. QED
      BY <2>6, <2>7, <2>8, <3>1, TextEmpty DEF Agrees, Written
  <2>. QED
    BY <2>6, <2>9 DEF Leaves, next, q, t
<1>5. CASE e.kind # "semicolon"
  <2>1. Passed(acc, t, Len(t), next) /\ Leaves(T, e, q, next)
    <3>1. e.kind \in Inside \/ e.kind = "word"
      BY <1>5 DEF AnyElement, Kinds
    <3>. QED
      BY <3>1, BracketScanned, WordScanned
  <2>. HIDE DEF acc, next, t, q
  <2>2. /\ next.statements = acc.statements /\ next.start = acc.start
        /\ next.buffer = acc.buffer \o t
        /\ next.line = acc.line + NewlinesTo(t, Len(t))
    <3>1. SubSeq(t, 1, Len(t)) = t
      BY <1>1, SubSeqFull
    <3>. QED
      BY <2>1, <3>1 DEF Passed
  <2>3. ReadElement(v, e) = [v EXCEPT !.now = Append(@, e), !.line = @ + NewlinesTo(t, Len(t))]
    BY <1>5, ReadElementType DEF t
  <2>4. Text(Append(v.now, e)) = Text(v.now) \o t
    <3>1. v.now \in Seq(AnyElement)
      BY PlainSeq DEF Written
    <3>. QED
      BY <3>1, TextAppend DEF t
  <2>5. Agrees(next, ReadElement(v, e))
    <3>1. Agrees(acc, v)
      BY DEF acc
    <3>. QED
      BY <2>2, <2>3, <2>4, <3>1 DEF Agrees, Written
  <2>. QED
    BY <2>1, <2>5 DEF next, q, t
<1>. QED
  BY <1>4, <1>5

(* Only a string begins with a quote.                                      *)
LEMMA QuoteBegins ==
    ASSUME NEW e \in AnyElement, TextOf(e)[1] = "quote"
    PROVE  e.kind = "string"
<1>1. CASE e.kind \in Inside
  <2>1. TextOf(e)[1] = Opens[e.kind][1]
    <3>1. 1 \in 1 .. Len(Opens[e.kind])
      BY <1>1, BracketType
    <3>. QED
      BY <1>1, <3>1, TextShape
  <2>2. /\ Opens["line"][1] = "dash" /\ Opens["block"][1] = "slash"
        /\ Opens["identifier"][1] = "double_quote" /\ Opens["dollar"][1] = "dollar"
    BY BracketsAre
  <2>. QED
    BY <1>1, <2>1, <2>2 DEF Inside
<1>2. CASE e.kind \notin Inside
  <2>1. TextOf(e)[1] \in {"semicolon", "newline", "star"} \cup (Character \ Sign)
    BY <1>2, SingleText
  <2>. QED
    BY <2>1 DEF Sign
<1>. QED
  BY <1>1, <1>2

(* All of a script.                                                        *)
LEMMA ScriptSplit ==
    ASSUME NEW es \in Seq(AnyElement)
    PROVE  SplitStatements(Text(es)) = WrittenStatements(es)
<1>. DEFINE N == Len(es)
            T == Text(es)
<1>1. PICK f : TextParts(es, f) /\ T = f[N]
  BY TextRuns
<1>2. /\ N \in Nat /\ \A n \in 0 .. N : f[n] \in Seq(Character) /\ Len(f[n]) \in Nat
      /\ f[0] = <<>> /\ T \in Seq(Character)
  BY <1>1 DEF TextParts
<1>3. PICK g : ScanRun(T, g) /\ SplitStatements(T) = Emit(g[Len(T)])
  BY <1>2, ScanRuns
<1>4. PICK w : WrittenRun(es, w) /\ WrittenStatements(es) = Delimit(w[N])
  BY WrittenRuns
<1>. DEFINE pos(n) == Len(f[n])
<1>5. ASSUME NEW n \in 1 .. N
      PROVE  /\ es[n] \in AnyElement /\ n - 1 \in 0 .. N
             /\ Placed(T, pos(n - 1), TextOf(es[n])) /\ pos(n) = pos(n - 1) + Len(TextOf(es[n]))
  <2>1. es[n] \in AnyElement /\ n - 1 \in 0 .. N
    BY <1>2
  <2>2. Placed(f[N], Len(f[n - 1]), TextOf(es[n])) /\ Len(f[n]) = Len(f[n - 1]) + Len(TextOf(es[n]))
    BY <1>1, PartsPlaced
  <2>. QED
    BY <1>1, <2>1, <2>2
<1>. DEFINE Good(n) == /\ Agrees(g[pos(n)], w[n])
                       /\ n < N => Enters(es[n + 1], g[pos(n)])
            S == {n \in 0 .. N : Good(n)}
<1>. HIDE DEF T
<1>6. \A n \in 0 .. N : w[n] \in Written
  BY <1>4 DEF WrittenRun
<1>7. 0 \in S
  <2>1. pos(0) = 0 /\ g[0] = ScanStart /\ w[0] = WrittenStart
    BY <1>2, <1>3, <1>4 DEF ScanRun, WrittenRun
  <2>. HIDE DEF pos
  <2>2. Agrees(ScanStart, WrittenStart)
    BY TextEmpty DEF Agrees, ScanStart, WrittenStart
  <2>3. ScanStart.in = "code" /\ ScanStart.skip = 0
    BY DEF ScanStart
  <2>. QED
    BY <1>2, <2>1, <2>2, <2>3 DEF Enters
<1>8. ASSUME NEW n \in 0 .. N, n \in S, n < N
      PROVE  n + 1 \in S
  <2>. DEFINE k == n + 1
              e == es[k]
              p == pos(n)
              q == pos(k)
  <2>1. k \in 1 .. N /\ k \in 0 .. N /\ k - 1 = n
    BY <1>2, <1>8
  <2>2. e \in AnyElement /\ Placed(T, p, TextOf(e)) /\ q = p + Len(TextOf(e))
    <3>. HIDE DEF pos, k
    <3>. QED
      BY <1>5, <2>1
  <2>3. Agrees(g[p], w[n]) /\ Enters(e, g[p]) /\ w[n] \in Written
    BY <1>6, <1>8
  <2>4. w[k] = ReadElement(w[n], e)
    <3>. HIDE DEF k
    <3>. QED
      BY <1>4, <2>1 DEF WrittenRun
  <2>. HIDE DEF k, e, p, q, pos
  <2>5. Agrees(g[q], ReadElement(w[n], e)) /\ Leaves(T, e, q, g[q])
    <3>. DEFINE v == w[n]
    <3>1. v \in Written /\ Agrees(g[p], v)
      BY <2>3
    <3>. HIDE DEF v
    <3>2. Agrees(g[q], ReadElement(v, e)) /\ Leaves(T, e, q, g[q])
      BY <1>2, <1>3, <2>2, <2>3, <3>1, ElementAgrees
    <3>. QED
      BY <3>2 DEF v
  <2>6. ASSUME k < N
        PROVE  Enters(es[k + 1], g[q])
    <3>. DEFINE l == k + 1
    <3>1. l \in 1 .. N /\ l - 1 = k
      BY <1>2, <2>1, <2>6
    <3>. HIDE DEF l
    <3>2. es[l] \in AnyElement /\ Placed(T, q, TextOf(es[l]))
      BY <1>5, <3>1 DEF q
    <3>3. T[q + 1] = TextOf(es[l])[1]
      <4>1. 1 \in 1 .. Len(TextOf(es[l]))
        BY <3>2, TextType
      <4>. QED
        BY <3>2, <4>1 DEF Placed
    <3>4. Merges(T, e, q) => es[l].kind = "string"
      BY <3>2, <3>3, QuoteBegins DEF Merges
    <3>. QED
      BY <2>5, <3>4 DEF Leaves, Enters, l
  <2>7. Good(k)
    BY <2>4, <2>5, <2>6 DEF q, pos
  <2>. QED
    BY <2>1, <2>7 DEF k
<1>9. 0 .. N \subseteq S
  <2>. HIDE DEF S
  <2>. QED
    BY <1>2, <1>7, <1>8, PrefixInduction
<1>10. Agrees(g[pos(N)], w[N]) /\ pos(N) = Len(T) /\ w[N] \in Written
  BY <1>1, <1>2, <1>6, <1>9
<1>11. g[Len(T)] \in Scanned
  BY <1>2, <1>3 DEF ScanRun
<1>12. Emit(g[Len(T)]) = Delimit(w[N])
  <2>. HIDE DEF pos
  <2>. DEFINE acc == g[Len(T)]
              v == w[N]
  <2>1. acc \in Scanned /\ v \in Written /\ Agrees(acc, v)
    BY <1>10, <1>11
  <2>. HIDE DEF acc, v
  <2>2. Emit(acc) = Delimit(v)
    BY <2>1, EmitsAsDelimited
  <2>. QED
    BY <2>2 DEF acc, v
<1>. QED
  BY <1>3, <1>4, <1>12 DEF T

-----------------------------------------------------------------------------
(* THE THEOREM                                                             *)

(* The deployer cuts a script exactly where its author ended statements,   *)
(* whatever the elements hold and however many there are, and sends whole  *)
(* and in order what holds SQL; no comment alone, if none before the SQL of*)
(* a statement holds "--" (split_statements, _is_executable).              *)
THEOREM ScriptsSplitAsWritten == Writing => []StatementsAsWritten
<1>. DEFINE Inv == script \in Seq(AnyElement)
<1>1. script = <<>> => Inv
  OBVIOUS
<1>2. Inv /\ [\E e \in Elements : WriteElement(e)]_script => Inv'
  <2>1. ASSUME Inv, NEW e \in Elements, WriteElement(e)
        PROVE  Inv'
    <3>1. e \in AnyElement
      BY ElementsAreAny
    <3>. QED
      BY <2>1, <3>1 DEF WriteElement
  <2>2. ASSUME Inv, UNCHANGED script
        PROVE  Inv'
    BY <2>2
  <2>. QED
    BY <2>1, <2>2
<1>3. Inv => StatementsAsWritten
  BY ScriptSplit DEF StatementsAsWritten
<1>. QED
  BY <1>1, <1>2, <1>3, PTL DEF Writing
=============================================================================
