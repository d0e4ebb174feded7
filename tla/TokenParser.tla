----------------------------- MODULE TokenParser -----------------------------
(***************************************************************************)
(* The scanner (src/parser.cpp, TokenParser): getToken reads a token from   *)
(* the file, lookUp(n) reads n tokens ahead and puts the file position,     *)
(* LastChar and the line number back, but not the attributes of the tokens  *)
(* it has read, which getToken keeps in members of the parser.              *)
(***************************************************************************)
EXTENDS Naturals, Sequences, FiniteSets

CONSTANTS
    Char,      \* the characters of the sources
    Keyword,   \* the words of KeyWordTkMap
    MaxLen,    \* bound: characters of a source
    MaxAhead   \* bound: tokens looked up at once

ASSUME ConstantsAssumption ==
    /\ Char \subseteq STRING /\ "EOF" \notin Char
    /\ Keyword \subseteq Seq(Char) /\ {MaxLen, MaxAhead} \subseteq Nat

VARIABLES
    text,      \* the characters of the file
    cursor,    \* ftell(Handle), LastChar, LineInfo
    idStr,     \* IdStr
    literal,   \* LiteralVal
    taken,     \* the last token that getToken gave to the parser
    gap,       \* the characters skipped in front of it
    foreseen,  \* what lookUp has said of the tokens that come next
    status     \* "ready", "error" (LOG_ERROR), or "stuck" in a loop

vars == <<text, cursor, idStr, literal, taken, gap, foreseen, status>>

EOF == "EOF"
Space == {" ", "\n"}
Digit == {"0", "1"}
Alpha == Char \ (Space \cup Digit \cup {".", "#", "\"", "'", "=", ">", "<", "!", "|", "&",
                                        "+", ";"})
\* the operators of more than one character, and those they begin with
Operator == {<<"=">>, <<"=", "=">>, <<"!">>, <<"!", "=">>, <<">">>, <<">", "=">>,
             <<">", ">">>, <<">", ">", ">">>, <<"<">>, <<"<", "=">>, <<"<", "<">>,
             <<"<", "<", "<">>, <<"|">>, <<"|", "|">>, <<"&">>, <<"&", "&">>}

-----------------------------------------------------------------------------
(* Reading characters.  A cursor is the number of characters read (`loc`),   *)
(* the last of them, and the line and column that getChar counts.            *)

Smallest(S) == CHOOSE n \in S : \A m \in S : n <= m
Ahead == 0 .. MaxLen + 1

\* LastChar after n more calls of getChar
After(c, n) ==
    IF n = 0 THEN c.last
    ELSE IF c.loc + n <= Len(text) THEN text[c.loc + n] ELSE EOF

Newlines(c, n) == {i \in 1 .. n : After(c, i) = "\n"}

\* n calls of getChar
Advance(c, n) ==
    [loc  |-> IF c.loc + n <= Len(text) THEN c.loc + n ELSE Len(text),
     last |-> After(c, n),
     row  |-> c.row + Cardinality(Newlines(c, n)),
     col  |-> IF Newlines(c, n) = {} THEN c.col + n
              ELSE Smallest({n - i : i \in Newlines(c, n)})]

\* where LastChar is in the file
Position(c) == IF c.last = EOF THEN Len(text) + 1 ELSE c.loc

\* the calls of getChar until LastChar is in S
Until(c, S) == Smallest({n \in Ahead : After(c, n) \in S})
OneOf(S) == (Char \cup {EOF}) \ S

SkipSpace(c) == Advance(c, Until(c, OneOf(Space)))

\* Mutant: only a comment directly behind a token is seen.
MutSkipBlanksLate(c) ==
    LET line == Advance(c, Until(c, {"\n", EOF}))
    IN  SkipSpace(IF c.last = "#" THEN Advance(line, 1) ELSE c)

\* one comment, with the end of its line, and the blanks around it
SkipBlanks(c) ==
    LET start == SkipSpace(c)
        line  == Advance(start, Until(start, {"\n", EOF}))
    IN  IF start.last = "#" THEN SkipSpace(Advance(line, 1)) ELSE start

\* the n characters from LastChar on
Lexeme(c, n) == [i \in 1 .. n |-> After(c, i - 1)]

-----------------------------------------------------------------------------
(* getToken from the first character c of the token on: the token, and how   *)
(* many characters of the file it takes.                                     *)

Tok(kind, c, n) == [kind |-> kind, text |-> Lexeme(c, n)]

\* a word that is not followed by a letter or a digit
Word(c) ==
    LET w == Lexeme(c, Until(c, OneOf(Alpha \cup Digit)))
    IN  [kind |-> IF w \in Keyword THEN "keyword" ELSE "id", text |-> w]

\* digits and dots; U only behind an integer
Number(c) ==
    LET n == Until(c, OneOf(Digit \cup {"."}))
        isFloat == \E i \in 1 .. n - 1 : After(c, i) = "."
    IN  IF isFloat THEN Tok("fnumber", c, n)
        ELSE Tok("inumber", c, IF After(c, n) = "U" THEN n + 1 ELSE n)

\* Mutant: the closing quotation mark is left in the file
MutLiteral(c) ==
    LET ends == {n \in Ahead \ {0} : After(c, n) = "\""}
    IN  IF ends = {} THEN [kind |-> "stuck", text |-> <<>>]
        ELSE Tok("literal", c, Smallest(ends))

\* up to the next quotation mark, for ever when there is none
Literal(c) ==
    LET ends == {n \in Ahead \ {0} : After(c, n) = "\""}
    IN  IF ends = {} THEN [kind |-> "stuck", text |-> <<>>]
        ELSE Tok("literal", c, Smallest(ends) + 1)

CharLiteral(c) ==
    IF After(c, 1) = "'" THEN Tok("charlit", c, 2)
    ELSE IF After(c, 2) = "'" THEN Tok("charlit", c, 3)
    ELSE [kind |-> "error", text |-> <<>>]

\* the longest operator, or any other character
Punctuation(c) ==
    LET fits == {n \in 1 .. 3 : Lexeme(c, n) \in Operator}
    IN  Tok("op", c, IF fits = {} THEN 1 ELSE Cardinality(fits))

Scan(c) ==
    IF c.last = "\"" THEN Literal(c)
    ELSE IF c.last = "'" THEN CharLiteral(c)
    ELSE IF c.last \in Alpha THEN Word(c)
    ELSE IF c.last \in Digit THEN Number(c)
    ELSE IF c.last = EOF THEN [kind |-> "eof", text |-> <<>>]
    ELSE Punctuation(c)

\* the tokens of n calls of getToken, no more behind the end of the file, and the
\* cursor after each
Reads(c, n) ==
    LET read[i \in 1 .. n] ==
            LET start == SkipBlanks(IF i = 1 THEN c ELSE read[i - 1].cursor)
                token == Scan(start)
            IN  [token |-> token, cursor |-> Advance(start, Len(token.text))]
        ends == {i \in 1 .. n : read[i].token.kind \in {"eof", "error", "stuck"}}
    IN  [i \in 1 .. IF ends = {} THEN n ELSE Smallest(ends) |-> read[i]]

\* IdStr and LiteralVal after these tokens
LastText(reads, kinds, old) ==
    LET of == {i \in DOMAIN reads : reads[i].token.kind \in kinds}
    IN  IF of = {} THEN old
        ELSE reads[CHOOSE i \in of : \A j \in of : j <= i].token.text

Outcome(reads) ==
    LET kind == reads[Len(reads)].token.kind
    IN  IF kind \in {"error", "stuck"} THEN kind ELSE "ready"

-----------------------------------------------------------------------------
NoToken == [kind |-> "none", text |-> <<>>]

Init ==
    /\ text \in UNION {[1 .. n -> Char] : n \in 0 .. MaxLen}
    /\ cursor = [loc |-> 0, last |-> " ", row |-> 0, col |-> 0]
    /\ idStr = <<>> /\ literal = <<>>
    /\ taken = NoToken /\ gap = <<>> /\ foreseen = <<>>
    /\ status = "ready"

\* Mutant: the digits of a number are collected in IdStr.
MutAttributesNumberInId(reads) ==
    /\ idStr' = LastText(reads, {"id", "keyword", "inumber"}, idStr)
    /\ literal' = LastText(reads, {"literal"}, literal)
    /\ status' = Outcome(reads)

Attributes(reads) ==
    /\ idStr' = LastText(reads, {"id", "keyword"}, idStr)
    /\ literal' = LastText(reads, {"literal"}, literal)
    /\ status' = Outcome(reads)

GetToken ==
    /\ status = "ready"
    /\ LET reads == Reads(cursor, 1)
           start == SkipBlanks(cursor)
       IN  /\ Attributes(reads)
           /\ cursor' = reads[1].cursor
           /\ taken' = reads[1].token
           /\ gap' = Lexeme(cursor, Position(start) - Position(cursor))
    /\ foreseen' = IF foreseen = <<>> THEN <<>> ELSE Tail(foreseen)
    /\ UNCHANGED text

\* Mutants: what has been looked up is not put back into LastChar, or the line
\* number stays that of the last token looked up.
MutRestoreNoChar(saved, read) == cursor' = [saved EXCEPT !.last = read.last]
MutRestoreNoLine(saved, read) ==
    cursor' = [saved EXCEPT !.row = read.row, !.col = read.col]

\* fseek(Handle, CurrentLoc, SEEK_SET); LastChar = SavedChar; LineInfo = preNo
Restore(saved, read) == cursor' = saved

LookUp(n) ==
    /\ status = "ready"
    /\ LET reads == Reads(cursor, n)
       IN  /\ Attributes(reads)
           /\ foreseen' = [i \in DOMAIN reads |-> reads[i].token]
                              \o SubSeq(foreseen, Len(reads) + 1, Len(foreseen))
           /\ Restore(cursor, reads[Len(reads)].cursor)
    /\ UNCHANGED <<text, taken, gap>>

Next == GetToken \/ \E n \in 1 .. MaxAhead : LookUp(n)

Spec == Init /\ [][Next]_vars

-----------------------------------------------------------------------------
(* Properties.                                                               *)

\* Looking ahead changes nothing of what is read afterwards: the parser, which decides
\* by lookUp, gets the very tokens it has been shown, however often it looks.
LookUpIsHonest ==
    [][GetToken /\ foreseen # <<>> => taken' = Head(foreseen)]_vars

\* The position that errors and syntax nodes report is that of LastChar: its row is
\* the number of line ends so far, its column the distance from the last one.
LineInfoIsRight ==
    LET ends == {0} \cup {i \in 1 .. cursor.loc : text[i] = "\n"}
        lastEnd == CHOOSE i \in ends : \A j \in ends : j <= i
    IN  /\ cursor.row = Cardinality(ends) - 1
        /\ cursor.last # EOF => cursor.col = cursor.loc - lastEnd

\* Only blanks and comments are skipped, and what is left of a comment is never read
\* as code unless a comment stands directly before it (one comment is skipped).
OnlyBlanksAreSkipped ==
    LET InComment(i) == \E j \in 1 .. i : /\ gap[j] = "#"
                                          /\ \A k \in j .. i - 1 : gap[k] # "\n"
    IN  /\ \A i \in DOMAIN gap : gap[i] \in Space \/ InComment(i)
        /\ taken.text = <<"#">> => \E i \in DOMAIN gap : gap[i] = "#"

\* parseIdRef takes the name of an identifier after looking at the next token: it is
\* that identifier's unless a word has been seen, which only a syntax error puts there.
NameIsCurrent ==
    /\ taken.kind = "id"
    /\ \A i \in DOMAIN foreseen : foreseen[i].kind \notin {"id", "keyword"}
    => idStr = taken.text

\* The loop over a string has no way out at the end of the file.  Only a text with an
\* open string gets there: where neither comments nor character literals hide a
\* quotation mark, one with an odd number of them.
OnlyOpenStringsHang ==
    (status = "stuck" /\ \A i \in DOMAIN text : text[i] \notin {"#", "'"}) =>
        Cardinality({i \in DOMAIN text : text[i] = "\""}) % 2 = 1
=============================================================================
