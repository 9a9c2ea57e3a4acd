-------------------------- MODULE StatementSplitter --------------------------
(***************************************************************************)
(* How the deployer cuts a script into statements.  A script is written    *)
(* one element of SQL at a time; the scanner sees only its characters.     *)
(* The statements it finds are compared with those of the elements.        *)
(***************************************************************************)
EXTENDS Naturals, SequencesExt

CONSTANTS Character,        \* the characters of scripts: those of Sign and any others
          Bodies,           \* what the elements of each kind may hold
          MaxElements       \* bound: elements in a script

VARIABLES script            \* the elements written, in order

-----------------------------------------------------------------------------
(* The characters that mean something to the scanner, and the newline,     *)
(* which stands for all white space.                                       *)
Sign == {"dash", "slash", "star", "quote", "double_quote", "dollar", "semicolon", "newline"}

(* What the scanner can be inside of, and what opens and closes it.        *)
Inside == {"line", "block", "string", "identifier", "dollar"}

Opens == [line |-> <<"dash", "dash">>, block |-> <<"slash", "star">>, string |-> <<"quote">>,
          identifier |-> <<"double_quote">>, dollar |-> <<"dollar", "dollar">>]

Closes == [line |-> <<"newline">>, block |-> <<"star", "slash">>, string |-> <<"quote">>,
           identifier |-> <<"double_quote">>, dollar |-> <<"dollar", "dollar">>]

Kinds == Inside \cup {"word", "semicolon"}

Pair(b, c, d) == \E i \in DOMAIN b : i + 1 \in DOMAIN b /\ b[i] = c /\ b[i + 1] = d

(* The quotes of b come two by two: each opens a pair or follows one that  *)
(* does.                                                                   *)
QuotesDoubled(b) ==
    \E first \in SUBSET DOMAIN b :
        \A i \in DOMAIN b : /\ b[i] = "quote" <=> i \in first \/ i - 1 \in first
                            /\ i \in first => i + 1 \in DOMAIN b /\ i - 1 \notin first

(* What the SQL of an element of kind k may hold: what does not close it.  *)
(* A word is one character that neither opens nor closes anything; a lone  *)
(* dash, slash or dollar, which may with the next character, is none.      *)
MayHold(k, b) ==
    CASE k = "word" -> \E c \in (Character \ Sign) \cup {"newline", "star"} : b = <<c>>
      [] k = "semicolon" -> b = <<"semicolon">>
      [] k = "line" -> \A i \in DOMAIN b : b[i] # "newline"
      [] k = "block" -> ~Pair(b, "star", "slash")
      [] k = "string" -> QuotesDoubled(b)
      [] k = "identifier" -> \A i \in DOMAIN b : b[i] # "double_quote"
      [] k = "dollar" -> ~Pair(Append(b, "dollar"), "dollar", "dollar")

ASSUME ScriptAssumption ==
    /\ Sign \subseteq Character
    /\ Bodies \in [Kinds -> SUBSET Seq(Character)]
    /\ \A k \in Kinds : \A b \in Bodies[k] : MayHold(k, b)

Elements == UNION {{[kind |-> k, body |-> b] : b \in Bodies[k]} : k \in Kinds}

TextOf(e) == IF e.kind \in Inside THEN Opens[e.kind] \o e.body \o Closes[e.kind] ELSE e.body

Text(elements) == FlattenSeq([n \in DOMAIN elements |-> TextOf(elements[n])])

-----------------------------------------------------------------------------
At(text, i, token) ==
    \A j \in DOMAIN token : i + j - 1 \in DOMAIN text /\ text[i + j - 1] = token[j]

(* Mutant: a quote inside a dollar-quoted body opens a string.             *)
ReadAnywhere(text, i, in) ==
    IF in \in Inside /\ At(text, i, Closes[in]) THEN [takes |-> Len(Closes[in]), in |-> "code"]
    ELSE IF in \in {"code", "dollar"} /\ \E k \in Inside : At(text, i, Opens[k])
      THEN LET k == CHOOSE k \in Inside : At(text, i, Opens[k]) IN
           [takes |-> Len(Opens[k]), in |-> k]
    ELSE [takes |-> 1, in |-> in]

(* One round of the scanner's loop at character i: how many characters it  *)
(* takes, and what it is inside of then.                                   *)
Read(text, i, in) ==
    IF in \in Inside
      THEN IF in = "string" /\ At(text, i, <<"quote", "quote">>) THEN [takes |-> 2, in |-> in]
           ELSE IF At(text, i, Closes[in]) THEN [takes |-> Len(Closes[in]), in |-> "code"]
           ELSE [takes |-> 1, in |-> in]
      ELSE IF \E k \in Inside : At(text, i, Opens[k])
             THEN LET k == CHOOSE k \in Inside : At(text, i, Opens[k]) IN
                  [takes |-> Len(Opens[k]), in |-> k]
             ELSE [takes |-> 1, in |-> "code"]

(* re.sub of line comments: the newline that ends one stays.               *)
DropLine(text, acc, i) ==
    LET gone == (acc.gone \/ At(text, i, Opens.line)) /\ text[i] # "newline" IN
    [gone |-> gone, kept |-> IF gone THEN acc.kept ELSE Append(acc.kept, text[i])]

WithoutLines(text) ==
    LET after[i \in 0 .. Len(text)] ==
            IF i = 0 THEN [gone |-> FALSE, kept |-> <<>>] ELSE DropLine(text, after[i - 1], i) IN
    after[Len(text)].kept

(* re.sub of block comments: from an opening to the first closing after it.*)
(* An opening that is never closed stays.                                  *)
DropBlock(text, acc, i) ==
    LET closings == {j \in i + 2 .. Len(text) : At(text, j, Closes.block)} IN
    IF i <= acc.until THEN acc
    ELSE IF At(text, i, Opens.block) /\ closings # {}
      THEN [acc EXCEPT !.until = Min(closings) + 1]
    ELSE [acc EXCEPT !.kept = Append(@, text[i])]

WithoutBlocks(text) ==
    LET after[i \in 0 .. Len(text)] ==
            IF i = 0 THEN [until |-> 0, kept |-> <<>>] ELSE DropBlock(text, after[i - 1], i) IN
    after[Len(text)].kept

Blank(text) == \A i \in DOMAIN text : text[i] = "newline"

(* _is_executable: something is left besides comments and white space.     *)
IsExecutable(candidate) == ~Blank(WithoutBlocks(WithoutLines(candidate)))

(* What a semicolon, or the end of the script, makes of the buffer.        *)
Emit(acc) ==
    IF IsExecutable(acc.buffer)
      THEN Append(acc.statements, [sql |-> acc.buffer, line |-> acc.start])
      ELSE acc.statements

(* split_statements, character by character: skip is what the round that   *)
(* is under way has still to take.                                         *)
Scan(text, acc, i) ==
    LET line == acc.line + IF text[i] = "newline" THEN 1 ELSE 0
        round == IF acc.skip > 0 THEN [takes |-> acc.skip, in |-> acc.in]
                 ELSE Read(text, i, acc.in) IN
    IF acc.skip = 0 /\ acc.in = "code" /\ text[i] = "semicolon"
      THEN [acc EXCEPT !.statements = Emit(acc), !.buffer = <<>>, !.start = line]
      ELSE [acc EXCEPT !.in = round.in, !.skip = round.takes - 1, !.line = line,
                       !.buffer = Append(@, text[i])]

SplitStatements(text) ==
    LET after[i \in 0 .. Len(text)] ==
            IF i = 0 THEN [statements |-> <<>>, buffer |-> <<>>, in |-> "code", skip |-> 0,
                           line |-> 1, start |-> 1]
            ELSE Scan(text, after[i - 1], i) IN
    Emit(after[Len(text)])

-----------------------------------------------------------------------------
WriteElement(e) == Len(script) < MaxElements /\ script' = Append(script, e)

(* A script written from nothing.                                          *)
Writing == script = <<>> /\ [][\E e \in Elements : WriteElement(e)]_script

(* The statements the author wrote: between semicolons that are elements   *)
(* of their own, what holds more than comments and white space.  Whether   *)
(* one that begins with a misleading comment is sent is left to the code.  *)
Sql(e) == e.kind \notin {"line", "block"} /\ e # [kind |-> "word", body |-> <<"newline">>]

(* Before any SQL of the statement stands a block comment that holds the   *)
(* sign of a line comment.  _is_executable drops line comments first, and  *)
(* with them the end of this block.                                        *)
Misled(now) ==
    \E n \in DOMAIN now : /\ now[n].kind = "block" /\ Pair(now[n].body, "dash", "dash")
                          /\ \A m \in 1 .. n : ~Sql(now[m])

ToSend(now) == IF Misled(now) THEN IsExecutable(Text(now)) ELSE \E n \in DOMAIN now : Sql(now[n])

Delimit(acc) ==
    IF ToSend(acc.now)
      THEN Append(acc.statements, [sql |-> Text(acc.now), line |-> acc.start])
      ELSE acc.statements

ReadElement(acc, e) ==
    IF e.kind = "semicolon"
      THEN [acc EXCEPT !.statements = Delimit(acc), !.now = <<>>, !.start = acc.line]
      ELSE [acc EXCEPT !.now = Append(@, e),
                       !.line = @ + Cardinality({i \in DOMAIN TextOf(e) : TextOf(e)[i] = "newline"})]

WrittenStatements(elements) ==
    LET after[n \in 0 .. Len(elements)] ==
            IF n = 0 THEN [statements |-> <<>>, now |-> <<>>, line |-> 1, start |-> 1]
            ELSE ReadElement(after[n - 1], elements[n]) IN
    Delimit(after[Len(elements)])

(* The deployer cuts a script exactly where its author ended statements,   *)
(* whatever semicolons, quotes and comment signs stand inside of strings,  *)
(* identifiers, comments and procedure bodies, and sends each statement    *)
(* whole and in order, and no comment alone (split_statements,             *)
(* _is_executable).  Not claimed: that a statement with a block comment    *)
(* holding "--" before its SQL is sent, or that comment alone is not.      *)
StatementsAsWritten == SplitStatements(Text(script)) = WrittenStatements(script)
=============================================================================
