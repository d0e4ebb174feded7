-------------------------- MODULE TokenParserProofs --------------------------
(***************************************************************************)
(* Proofs about the scanner, for every source, every set of keywords and     *)
(* every bound.                                                            *)
(*                                                                         *)
(* A cursor is a position of the file (CursorFacts): what getChar gives, and *)
(* so every token, is a function of it.  Read(c) is one call of getToken,    *)
(* and lookUp is a chain of them (ReadsFacts).  The inductive invariant says *)
(* that the cursor is such a position with the right row and column, that    *)
(* what was foreseen is the chain that starts there (Honest), and that an    *)
(* even number of quotation marks is behind it where nothing else hides one. *)
(***************************************************************************)
EXTENDS TokenParser, Induction, FiniteSetTheorems

-----------------------------------------------------------------------------
(* The file.                                                               *)

TextOK == text \in Seq(Char) /\ Len(text) <= MaxLen

\* The character at a position: the blank that LastChar begins with, the file, its end.
At(p) == IF p = 0 THEN " " ELSE IF p <= Len(text) THEN text[p] ELSE EOF
Positions == 0 .. Len(text) + 1

\* The cursors that getChar leaves: LastChar is the character at their position.
Cursors ==
    {c \in [loc : 0 .. Len(text), last : Char \cup {" ", EOF}, row : Nat, col : Nat] :
        /\ c.last = At(Position(c))
        /\ c.last = EOF => c.loc = Len(text)}

\* The position that p is when no character comes after the end of the file.
Reach(p) == IF p <= Len(text) + 1 THEN p ELSE Len(text) + 1

LEMMA TextFacts ==
    ASSUME TextOK
    PROVE  /\ Len(text) \in Nat /\ MaxLen \in Nat /\ Len(text) <= MaxLen
           /\ \A p \in 1 .. Len(text) : text[p] \in Char /\ text[p] # EOF
  <1>1. MaxLen \in Nat /\ EOF \notin Char  BY ConstantsAssumption DEF EOF
  <1>2. text \in Seq(Char) /\ Len(text) <= MaxLen  BY DEF TextOK
  <1>3. Len(text) \in Nat /\ \A p \in 1 .. Len(text) : text[p] \in Char
    BY <1>2
  <1>4. QED  BY <1>1, <1>2, <1>3

LEMMA AtFacts ==
    ASSUME TextOK
    PROVE  /\ At(0) = " "
           /\ \A p \in 1 .. Len(text) : At(p) = text[p] /\ At(p) \in Char /\ At(p) # EOF
           /\ \A p \in Nat : p > Len(text) => At(p) = EOF
           /\ \A p \in Nat : At(p) \in Char \cup {" ", EOF}
           /\ \A p \in Nat : At(p) = At(Reach(p)) /\ Reach(p) \in Positions
  <1>1. Len(text) \in Nat /\ \A p \in 1 .. Len(text) : text[p] \in Char /\ text[p] # EOF
    BY TextFacts
  <1>2. At(0) = " "  BY DEF At
  <1>3. ASSUME NEW p \in 1 .. Len(text) PROVE At(p) = text[p] /\ At(p) \in Char /\ At(p) # EOF
    <2>1. p # 0 /\ p <= Len(text)  BY <1>1
    <2>2. QED  BY <1>1, <2>1 DEF At
  <1>4. ASSUME NEW p \in Nat, p > Len(text) PROVE At(p) = EOF
    <2>1. p # 0 /\ ~(p <= Len(text))  BY <1>1, <1>4
    <2>2. QED  BY <2>1 DEF At
  <1>5. ASSUME NEW p \in Nat PROVE At(p) \in Char \cup {" ", EOF}
    <2>1. p = 0 \/ p \in 1 .. Len(text) \/ p > Len(text)  BY <1>1
    <2>2. QED  BY <1>2, <1>3, <1>4, <2>1
  <1>6. ASSUME NEW p \in Nat PROVE At(p) = At(Reach(p)) /\ Reach(p) \in Positions
    <2>1. CASE p <= Len(text) + 1  BY <1>1, <2>1 DEF Reach, Positions
    <2>2. CASE p > Len(text) + 1
      <3>1. Reach(p) = Len(text) + 1 /\ Len(text) + 1 \in Nat /\ Len(text) + 1 > Len(text)
        BY <1>1, <2>2 DEF Reach
      <3>2. At(p) = EOF /\ At(Reach(p)) = EOF  BY <1>1, <1>4, <2>2, <3>1
      <3>3. QED  BY <1>1, <3>1, <3>2 DEF Positions
    <2>3. QED  BY <1>1, <2>1, <2>2
  <1>7. QED  BY <1>2, <1>3, <1>4, <1>5, <1>6

\* Where a cursor is, and what it reads.
LEMMA CursorFacts ==
    ASSUME TextOK, NEW c \in Cursors
    PROVE  /\ Position(c) \in Positions /\ Position(c) \in Nat /\ c.last = At(Position(c))
           /\ c.last = EOF => Position(c) = Len(text) + 1
           /\ c.last # EOF => Position(c) = c.loc /\ c.loc \in 0 .. Len(text)
           /\ c.loc = IF Position(c) <= Len(text) THEN Position(c) ELSE Len(text)
           /\ c.row \in Nat /\ c.col \in Nat
           /\ \A n \in Nat : After(c, n) = At(Position(c) + n)
  <1>1. Len(text) \in Nat  BY TextFacts
  <1>2. /\ c.loc \in 0 .. Len(text) /\ c.row \in Nat /\ c.col \in Nat
        /\ c.last = At(Position(c))
        /\ c.last = EOF => c.loc = Len(text)
    BY DEF Cursors
  <1>3. c.last = EOF => Position(c) = Len(text) + 1  BY DEF Position
  <1>4. c.last # EOF => Position(c) = c.loc  BY DEF Position
  <1>5. Position(c) \in Positions /\ Position(c) \in Nat
    BY <1>1, <1>2, <1>3, <1>4 DEF Positions
  <1>6. c.loc = IF Position(c) <= Len(text) THEN Position(c) ELSE Len(text)
    BY <1>1, <1>2, <1>3, <1>4
  <1>7. ASSUME NEW n \in Nat PROVE After(c, n) = At(Position(c) + n)
    <2>1. CASE n = 0
      <3>1. Position(c) + n = Position(c)  BY <1>5, <2>1
      <3>2. QED  BY <1>2, <2>1, <3>1 DEF After
    <2>2. CASE n # 0 /\ c.loc + n <= Len(text)
      <3>1. c.last # EOF  BY <1>1, <1>2, <2>2
      <3>2. Position(c) + n = c.loc + n /\ c.loc + n \in 1 .. Len(text)
        BY <1>1, <1>2, <1>4, <2>2, <3>1
      <3>3. QED  BY <2>2, <3>2, AtFacts DEF After
    <2>3. CASE n # 0 /\ ~(c.loc + n <= Len(text))
      <3>1. Position(c) + n \in Nat /\ Position(c) + n > Len(text)
        BY <1>1, <1>2, <1>3, <1>4, <2>3
      <3>2. QED  BY <2>3, <3>1, AtFacts DEF After
    <2>4. QED  BY <2>1, <2>2, <2>3
  <1>8. QED  BY <1>2, <1>3, <1>4, <1>5, <1>6, <1>7

\* The least of some numbers.
LEMMA SmallestIs ==
    ASSUME NEW S, S \subseteq Nat, S # {}
    PROVE  Smallest(S) \in S /\ \A m \in S : Smallest(S) <= m
  <1> DEFINE R == OpToRel(<, Nat)
  <1>1. \A x, y \in Nat : x < y => <<x, y>> \in R
    BY DEF OpToRel
  <1>2. IsWellFoundedOn(R, Nat)  BY NatLessThanWellFounded
  <1> HIDE DEF R
  <1>3. PICK x \in S : \A y \in S : <<y, x>> \notin R
    BY <1>2, WFMin
  <1>4. ASSUME NEW y \in S PROVE x <= y
    <2>1. x \in Nat /\ y \in Nat /\ ~(y < x)  BY <1>1, <1>3
    <2>2. QED  BY <2>1
  <1>5. QED  BY <1>3, <1>4 DEF Smallest

\* Reading on until a character of S: nothing of S is on the way.
LEMMA UntilFacts ==
    ASSUME TextOK, NEW c \in Cursors, NEW S, EOF \in S
    PROVE  /\ Until(c, S) \in Nat /\ Position(c) + Until(c, S) \in Positions
           /\ At(Position(c) + Until(c, S)) \in S
           /\ \A m \in Nat : m < Until(c, S) => At(Position(c) + m) \notin S
  <1> DEFINE N == {n \in Ahead : After(c, n) \in S}
             P == Position(c)
  <1>1. /\ Len(text) \in Nat /\ MaxLen \in Nat /\ Len(text) <= MaxLen
        /\ P \in Nat /\ P <= Len(text) + 1
    BY TextFacts, CursorFacts DEF Positions
  <1>2. \A n \in Nat : After(c, n) = At(P + n)  BY CursorFacts
  <1> HIDE DEF P
  <1>3. PICK j \in Nat : P + j = Len(text) + 1
    <2>1. Len(text) + 1 - P \in Nat /\ P + (Len(text) + 1 - P) = Len(text) + 1  BY <1>1
    <2>2. QED  BY <2>1
  <1>4. Len(text) + 1 \in Nat /\ Len(text) + 1 > Len(text)  BY <1>1
  <1>5. After(c, j) = EOF  BY <1>2, <1>3, <1>4, AtFacts
  <1>6. j \in Ahead  BY <1>1, <1>3 DEF Ahead
  <1>7. N \subseteq Nat /\ j \in N
    <2>1. Ahead \subseteq Nat  BY <1>1 DEF Ahead
    <2>2. QED  BY <1>5, <1>6, <2>1
  <1>8. Smallest(N) \in N /\ \A m \in N : Smallest(N) <= m
    <2> HIDE DEF N
    <2>1. QED  BY <1>7, SmallestIs
  <1> DEFINE k == Smallest(N)
  <1>9. Until(c, S) = k  BY DEF Until
  <1>10. k \in Nat /\ k <= j /\ After(c, k) \in S  BY <1>7, <1>8
  <1>11. ASSUME NEW m \in Nat, m < k, After(c, m) \in S PROVE FALSE
    <2>1. m \in Ahead
      <3> HIDE DEF k
      <3>1. QED  BY <1>1, <1>6, <1>10, <1>11 DEF Ahead
    <2>2. m \in N  BY <1>11, <2>1
    <2>3. k <= m  BY <1>8, <2>2
    <2> HIDE DEF k
    <2>4. QED  BY <1>10, <1>11, <2>3
  <1> HIDE DEF k, N
  <1>12. P + k \in Positions  BY <1>1, <1>3, <1>10 DEF Positions
  <1>13. At(P + k) \in S /\ \A m \in Nat : m < k => At(P + m) \notin S
    BY <1>2, <1>10, <1>11
  <1>14. QED  BY <1>9, <1>10, <1>12, <1>13 DEF P

\* The newlines among the next characters.
LEMMA NewlineFacts ==
    ASSUME TextOK, NEW c \in Cursors, NEW n \in Nat
    PROVE  /\ Newlines(c, n) \subseteq 1 .. n /\ IsFiniteSet(Newlines(c, n))
           /\ Cardinality(Newlines(c, n)) \in Nat
           /\ \A i \in 1 .. n : i \in Newlines(c, n) <=> At(Position(c) + i) = "\n"
  <1>1. Newlines(c, n) \subseteq 1 .. n  BY DEF Newlines
  <1>2. IsFiniteSet(Newlines(c, n)) /\ Cardinality(Newlines(c, n)) \in Nat
    <2>1. 1 \in Int /\ n \in Int  OBVIOUS
    <2>2. IsFiniteSet(1 .. n)  BY <2>1, FS_Interval
    <2>3. Newlines(c, n) \in SUBSET (1 .. n)  BY <1>1
    <2>4. IsFiniteSet(Newlines(c, n))  BY <2>2, <2>3, FS_Subset
    <2>5. QED  BY <2>4, FS_CardinalityType
  <1>3. \A i \in 1 .. n : i \in Newlines(c, n) <=> At(Position(c) + i) = "\n"
    BY CursorFacts DEF Newlines
  <1>4. QED  BY <1>1, <1>2, <1>3

\* The distance to the last newline.
LEMMA ColumnFacts ==
    ASSUME NEW S, NEW n \in Nat, S \subseteq 1 .. n, S # {}
    PROVE  \E m \in S : /\ Smallest({n - i : i \in S}) = n - m
                        /\ n - m \in Nat /\ \A i \in S : i <= m
  <1> DEFINE D == {n - i : i \in S}
  <1>1. D \subseteq Nat /\ D # {}  OBVIOUS
  <1>2. Smallest(D) \in D /\ \A d \in D : Smallest(D) <= d
    <2> HIDE DEF D
    <2>1. QED  BY <1>1, SmallestIs
  <1>3. PICK m \in S : Smallest(D) = n - m  BY <1>2
  <1>4. ASSUME NEW i \in S PROVE i <= m
    <2>1. n - i \in D  OBVIOUS
    <2>2. n - m <= n - i  BY <1>2, <1>3, <2>1
    <2>3. i \in Nat /\ m \in Nat  OBVIOUS
    <2>4. QED  BY <2>2, <2>3
  <1>5. n - m \in Nat  OBVIOUS
  <1>6. QED  BY <1>3, <1>4, <1>5

\* n calls of getChar.
LEMMA AdvanceFacts ==
    ASSUME TextOK, NEW c \in Cursors, NEW n \in Nat
    PROVE  Advance(c, n) \in Cursors /\ Position(Advance(c, n)) = Reach(Position(c) + n)
  <1> DEFINE d == Advance(c, n)
             P == Position(c)
             N == Newlines(c, n)
  <1>1. /\ Len(text) \in Nat /\ P \in Nat /\ P <= Len(text) + 1
        /\ c.row \in Nat /\ c.col \in Nat
        /\ c.loc = IF P <= Len(text) THEN P ELSE Len(text)
    BY TextFacts, CursorFacts DEF Positions
  <1>2. After(c, n) = At(P + n)  BY CursorFacts
  <1>3. d.loc = (IF c.loc + n <= Len(text) THEN c.loc + n ELSE Len(text)) /\ d.last = At(P + n)
    BY <1>2 DEF Advance
  <1>4. d.row \in Nat
    <2>1. Cardinality(N) \in Nat  BY NewlineFacts
    <2>2. QED  BY <1>1, <2>1 DEF Advance
  <1>5. d.col \in Nat
    <2>1. CASE N = {}
      <3>1. d.col = c.col + n  BY <2>1 DEF Advance
      <3>2. QED  BY <1>1, <3>1
    <2>2. CASE N # {}
      <3>1. d.col = Smallest({n - i : i \in N})  BY <2>2 DEF Advance
      <3>2. N \subseteq 1 .. n  BY NewlineFacts
      <3> HIDE DEF N
      <3>3. QED  BY <2>2, <3>1, <3>2, ColumnFacts
    <2>3. QED  BY <2>1, <2>2
  <1>6. d = [loc |-> d.loc, last |-> d.last, row |-> d.row, col |-> d.col]
    BY DEF Advance
  <1> HIDE DEF d, P, N
  <1>7. P + n \in Nat  BY <1>1
  <1>8. d.last \in Char \cup {" ", EOF}  BY <1>3, <1>7, AtFacts
  <1>9. d.loc \in 0 .. Len(text)  BY <1>1, <1>3
  <1>10. CASE P + n <= Len(text)
    <2>1. d.loc = P + n  BY <1>1, <1>3, <1>10
    <2>2. d.last # EOF
      <3>1. P + n = 0 \/ P + n \in 1 .. Len(text)  BY <1>1, <1>10
      <3>2. " " # EOF  BY DEF EOF
      <3>3. QED  BY <1>3, <3>1, <3>2, AtFacts
    <2>3. Position(d) = P + n  BY <2>1, <2>2 DEF Position
    <2>4. Reach(P + n) = P + n  BY <1>1, <1>10 DEF Reach
    <2>5. QED  BY <1>3, <1>4, <1>5, <1>6, <1>8, <1>9, <2>2, <2>3, <2>4 DEF Cursors, d, P
  <1>11. CASE P + n > Len(text)
    <2>1. d.last = EOF  BY <1>3, <1>7, <1>11, AtFacts
    <2>2. d.loc = Len(text)  BY <1>1, <1>3, <1>11
    <2>3. Position(d) = Len(text) + 1  BY <2>1 DEF Position
    <2>4. Reach(P + n) = Len(text) + 1  BY <1>1, <1>11 DEF Reach
    <2>5. At(Len(text) + 1) = EOF
      <3>1. Len(text) + 1 \in Nat /\ Len(text) + 1 > Len(text)  BY <1>1
      <3>2. QED  BY <3>1, AtFacts
    <2>6. QED  BY <1>4, <1>5, <1>6, <1>8, <1>9, <2>1, <2>2, <2>3, <2>4, <2>5 DEF Cursors, d, P
  <1>12. QED  BY <1>1, <1>10, <1>11

\* The blanks, and one comment with the blanks behind it.
LEMMA SkipSpaceFacts ==
    ASSUME TextOK, NEW c \in Cursors
    PROVE  /\ SkipSpace(c) \in Cursors
           /\ Position(c) <= Position(SkipSpace(c))
           /\ SkipSpace(c).last \notin Space
           /\ \A p \in Nat : Position(c) <= p /\ p < Position(SkipSpace(c)) => At(p) \in Space
  <1> DEFINE S == OneOf(Space)
             k == Until(c, S)
             P == Position(c)
  <1>1. EOF \in S  BY DEF OneOf, Space, EOF
  <1>2. /\ k \in Nat /\ P + k \in Positions /\ At(P + k) \in S
        /\ \A m \in Nat : m < k => At(P + m) \notin S
    <2> HIDE DEF S
    <2>1. QED  BY <1>1, UntilFacts
  <1>3. SkipSpace(c) = Advance(c, k)  BY DEF SkipSpace
  <1>4. P \in Nat /\ P <= Len(text) + 1 /\ Len(text) \in Nat
    BY CursorFacts, TextFacts DEF Positions
  <1> HIDE DEF S, k, P
  <1>5. SkipSpace(c) \in Cursors /\ Position(SkipSpace(c)) = P + k
    <2>1. Reach(P + k) = P + k  BY <1>2, <1>4 DEF Reach, Positions
    <2>2. QED  BY <1>2, <1>3, <2>1, AdvanceFacts DEF P
  <1>6. SkipSpace(c).last = At(P + k)  BY <1>5, CursorFacts
  <1>7. At(P + k) \notin Space  BY <1>2 DEF S, OneOf
  <1>8. ASSUME NEW p \in Nat, P <= p, p < P + k PROVE At(p) \in Space
    <2>1. PICK m \in Nat : p = P + m /\ m < k
      <3>1. p - P \in Nat /\ p = P + (p - P) /\ p - P < k  BY <1>2, <1>4, <1>8
      <3>2. QED  BY <3>1
    <2>2. At(p) \notin S  BY <1>2, <2>1
    <2>3. At(p) \in Char \cup {" ", EOF}  BY AtFacts
    <2>4. QED  BY <2>2, <2>3 DEF S, OneOf, Space
  <1>9. P <= P + k  BY <1>2, <1>4
  <1>10. QED  BY <1>5, <1>6, <1>7, <1>8, <1>9 DEF P

\* Up to the end of a line.
LEMMA LineFacts ==
    ASSUME TextOK, NEW c \in Cursors
    PROVE  LET line == Advance(c, Until(c, {"\n", EOF}))
           IN  /\ line \in Cursors /\ Position(c) <= Position(line)
               /\ \A p \in Nat : Position(c) <= p /\ p < Position(line) => At(p) # "\n"
  <1> DEFINE S == {"\n", EOF}
             k == Until(c, S)
             P == Position(c)
             line == Advance(c, k)
  <1>1. EOF \in S  OBVIOUS
  <1>2. /\ k \in Nat /\ P + k \in Positions /\ At(P + k) \in S
        /\ \A m \in Nat : m < k => At(P + m) \notin S
    <2> HIDE DEF S
    <2>1. QED  BY <1>1, UntilFacts
  <1>3. P \in Nat /\ P <= Len(text) + 1 /\ Len(text) \in Nat
    BY CursorFacts, TextFacts DEF Positions
  <1>4. line \in Cursors /\ Position(line) = P + k
    <2> HIDE DEF k, P
    <2>1. Reach(P + k) = P + k  BY <1>2, <1>3 DEF Reach, Positions
    <2>2. QED  BY <1>2, <2>1, AdvanceFacts DEF P
  <1> HIDE DEF S, k, P, line
  <1>5. ASSUME NEW p \in Nat, P <= p, p < P + k PROVE At(p) # "\n"
    <2>1. PICK m \in Nat : p = P + m /\ m < k
      <3>1. p - P \in Nat /\ p = P + (p - P) /\ p - P < k  BY <1>2, <1>3, <1>5
      <3>2. QED  BY <3>1
    <2>2. QED  BY <1>2, <2>1 DEF S
  <1>6. P <= P + k  BY <1>2, <1>3
  <1>7. QED  BY <1>4, <1>5, <1>6 DEF P, line, k, S

\* The first character of the token is behind blanks, or behind blanks, a comment up to
\* the end of its line, and blanks again.
Comment(p, from, to) ==
    /\ from \in Nat /\ to \in Nat /\ from <= p /\ p <= to /\ At(from) = "#"
    /\ \A q \in Nat : from <= q /\ q < to => At(q) # "\n"
LEMMA SkipBlanksFacts ==
    ASSUME TextOK, NEW c \in Cursors
    PROVE  /\ SkipBlanks(c) \in Cursors
           /\ Position(c) <= Position(SkipBlanks(c))
           /\ SkipBlanks(c).last \notin Space
           /\ \/ /\ SkipBlanks(c).last # "#"
                 /\ \A p \in Nat : Position(c) <= p /\ p < Position(SkipBlanks(c)) =>
                                        At(p) \in Space
              \/ \E from, to \in Nat :
                    /\ Position(c) <= from /\ At(from) = "#"
                    /\ from < Position(SkipBlanks(c))
                    /\ \A p \in Nat : Position(c) <= p /\ p < Position(SkipBlanks(c)) =>
                                        At(p) \in Space \/ Comment(p, from, to)
  <1> DEFINE start == SkipSpace(c)
             line == Advance(start, Until(start, {"\n", EOF}))
             more == Advance(line, 1)
             fin == SkipSpace(more)
             P == Position(c)
             Q == Position(start)
             E == Position(line)
             M == Position(more)
             F == Position(fin)
  <1>1. /\ start \in Cursors /\ P <= Q /\ start.last \notin Space
        /\ \A p \in Nat : P <= p /\ p < Q => At(p) \in Space
    BY SkipSpaceFacts
  <1>2. CASE start.last # "#"
    <2>1. SkipBlanks(c) = start  BY <1>2 DEF SkipBlanks
    <2> HIDE DEF start
    <2>2. QED  BY <1>1, <1>2, <2>1
  <1>3. CASE start.last = "#"
    <2>1. SkipBlanks(c) = fin  BY <1>3 DEF SkipBlanks
    <2>2. line \in Cursors /\ Q <= E /\ \A p \in Nat : Q <= p /\ p < E => At(p) # "\n"
      <3> HIDE DEF start
      <3>1. QED  BY <1>1, LineFacts
    <2>3. more \in Cursors /\ M = Reach(E + 1)
      <3> HIDE DEF line
      <3>1. QED  BY <2>2, AdvanceFacts
    <2>4. /\ fin \in Cursors /\ M <= F /\ fin.last \notin Space
          /\ \A p \in Nat : M <= p /\ p < F => At(p) \in Space
      <3> HIDE DEF more
      <3>1. QED  BY <2>3, SkipSpaceFacts
    <2> HIDE DEF start, line, more, fin
    <2>5. /\ P \in Nat /\ Q \in Nat /\ E \in Nat /\ M \in Nat /\ F \in Nat
          /\ Q <= Len(text) + 1 /\ E <= Len(text) + 1 /\ F <= Len(text) + 1
          /\ Len(text) \in Nat
      BY <1>1, <2>2, <2>3, <2>4, CursorFacts, TextFacts DEF Positions
    <2>6. At(Q) = "#"  BY <1>1, <1>3, CursorFacts
    <2>7. Q <= Len(text)
      <3>1. "#" # EOF  BY DEF EOF
      <3>2. ~(Q > Len(text))  BY <2>5, <2>6, <3>1, AtFacts
      <3>3. QED  BY <2>5, <3>2
    <2>8. E < M \/ (E = Len(text) + 1 /\ M = E)
      BY <2>3, <2>5 DEF Reach
    <2>9. Q < F  BY <2>2, <2>4, <2>5, <2>7, <2>8
    <2>10. M <= E + 1  BY <2>3, <2>5 DEF Reach
    <2> HIDE DEF P, Q, E, M, F
    <2>11. ASSUME NEW p \in Nat, P <= p, p < F PROVE At(p) \in Space \/ Comment(p, Q, E)
      <3>1. CASE p < Q  BY <1>1, <2>11, <3>1
      <3>2. CASE Q <= p /\ p <= E  BY <2>2, <2>5, <2>6, <3>2 DEF Comment
      <3>3. CASE E < p
        <4>1. M <= p  BY <2>5, <2>10, <3>3
        <4>2. QED  BY <2>4, <2>11, <4>1
      <3>4. QED  BY <2>5, <3>1, <3>2, <3>3
    <2>12. P <= F  BY <1>1, <2>5, <2>9
    <2>13. /\ SkipBlanks(c) \in Cursors /\ Position(SkipBlanks(c)) = F
           /\ SkipBlanks(c).last \notin Space
      BY <2>1, <2>4 DEF F
    <2>14. QED  BY <1>1, <2>5, <2>6, <2>9, <2>11, <2>12, <2>13 DEF P
  <1>4. QED  BY <1>2, <1>3

-----------------------------------------------------------------------------
(* Tokens.                                                                 *)

Quote == "\""
Apostrophe == "'"
Kind == {"keyword", "id", "fnumber", "inumber", "literal", "charlit", "op", "eof", "error",
         "stuck"}
Token == [kind : Kind, text : Seq(Char \cup {" ", EOF})]

LEMMA LexemeFacts ==
    ASSUME TextOK, NEW c \in Cursors, NEW k \in Nat
    PROVE  /\ Lexeme(c, k) \in Seq(Char \cup {" ", EOF}) /\ Len(Lexeme(c, k)) = k
           /\ \A i \in 1 .. k : Lexeme(c, k)[i] = At(Position(c) + (i - 1))
           /\ k = 0 => Lexeme(c, k) = <<>>
  <1>1. Position(c) \in Nat /\ \A n \in Nat : After(c, n) = At(Position(c) + n)
    BY CursorFacts
  <1>2. ASSUME NEW i \in 1 .. k
        PROVE  /\ After(c, i - 1) = At(Position(c) + (i - 1))
               /\ After(c, i - 1) \in Char \cup {" ", EOF}
    <2>1. i - 1 \in Nat /\ Position(c) + (i - 1) \in Nat  BY <1>1
    <2>2. QED  BY <1>1, <2>1, AtFacts
  <1>3. Lexeme(c, k) = [i \in 1 .. k |-> After(c, i - 1)]  BY DEF Lexeme
  <1> DEFINE C == Char \cup {" ", EOF}
             f == [i \in 1 .. k |-> After(c, i - 1)]
  <1>4. f \in [1 .. k -> C]  BY <1>2
  <1>5. f \in Seq(C) /\ Len(f) = k
    <2>1. DOMAIN f = 1 .. k  OBVIOUS
    <2> HIDE DEF f, C
    <2>2. f \in Seq(C)  BY <1>4
    <2>3. QED  BY <2>1, <2>2
  <1>6. \A i \in 1 .. k : f[i] = At(Position(c) + (i - 1))  BY <1>2
  <1>7. k = 0 => f = <<>>
    <2> HIDE DEF f, C
    <2>1. QED  BY <1>5
  <1>8. QED  BY <1>3, <1>5, <1>6, <1>7

\* No quotation mark is among the first characters.
Plain(c, k) == \A m \in Nat : m < k => At(Position(c) + m) # Quote

\* What a token is: the characters from the cursor on, of which some are quotation marks
\* only in literals.
Scanned(c, token, k) ==
    /\ k \in Nat /\ token.text = Lexeme(c, k) /\ token \in Token
    /\ \/ c.last = Apostrophe
       \/ c.last # Quote /\ token.kind # "stuck" /\ Plain(c, k)
       \/ /\ c.last = Quote /\ token.kind = "stuck" /\ k = 0
          /\ \A p \in 1 .. Len(text) : Position(c) < p => text[p] # Quote
       \/ /\ c.last = Quote /\ token.kind # "stuck" /\ k > 1
          /\ At(Position(c) + (k - 1)) = Quote
          /\ \A m \in Nat : 0 < m /\ m < k - 1 => At(Position(c) + m) # Quote

LEMMA TokFacts ==
    ASSUME TextOK, NEW c \in Cursors, NEW k \in Nat, NEW kind \in Kind
    PROVE  /\ Tok(kind, c, k) \in Token /\ Tok(kind, c, k).text = Lexeme(c, k)
           /\ Tok(kind, c, k).kind = kind
  BY LexemeFacts DEF Tok, Token

LEMMA EmptyToken ==
    ASSUME TextOK, NEW c \in Cursors, NEW kind \in Kind
    PROVE  /\ [kind |-> kind, text |-> <<>>] \in Token
           /\ [kind |-> kind, text |-> <<>>].text = Lexeme(c, 0)
           /\ [kind |-> kind, text |-> <<>>].kind = kind
  <1>1. Lexeme(c, 0) = <<>> /\ Lexeme(c, 0) \in Seq(Char \cup {" ", EOF})
    BY LexemeFacts
  <1>2. QED  BY <1>1 DEF Token

\* The characters before another class of them is met.
LEMMA RunIsPlain ==
    ASSUME TextOK, NEW c \in Cursors, NEW S, EOF \notin S, Quote \notin S
    PROVE  Until(c, OneOf(S)) \in Nat /\ Plain(c, Until(c, OneOf(S)))
  <1>1. EOF \in OneOf(S)  BY DEF OneOf
  <1>2. /\ Until(c, OneOf(S)) \in Nat
        /\ \A m \in Nat : m < Until(c, OneOf(S)) => At(Position(c) + m) \notin OneOf(S)
    BY <1>1, UntilFacts
  <1>3. ASSUME NEW m \in Nat, m < Until(c, OneOf(S)) PROVE At(Position(c) + m) # Quote
    <2>1. At(Position(c) + m) \in Char \cup {" ", EOF}
      <3>1. Position(c) + m \in Nat  BY CursorFacts
      <3>2. QED  BY <3>1, AtFacts
    <2>2. At(Position(c) + m) \notin (Char \cup {EOF}) \ S  BY <1>2, <1>3 DEF OneOf
    <2>3. " " # Quote /\ EOF # Quote  BY DEF EOF, Quote
    <2>4. QED  BY <2>1, <2>2, <2>3
  <1>4. QED  BY <1>2, <1>3 DEF Plain

LEMMA WordFacts ==
    ASSUME TextOK, NEW c \in Cursors, c.last \in Alpha
    PROVE  \E k \in Nat : Scanned(c, Word(c), k)
  <1> DEFINE S == Alpha \cup Digit
             k == Until(c, OneOf(S))
  <1>1. EOF \notin S /\ Quote \notin S /\ Quote \notin Alpha
    BY ConstantsAssumption DEF Alpha, Digit, EOF, Quote
  <1>2. k \in Nat /\ Plain(c, k)
    <2> HIDE DEF S
    <2>1. QED  BY <1>1, RunIsPlain
  <1>3. /\ Word(c).text = Lexeme(c, k) /\ Word(c) \in Token
        /\ Word(c).kind \in {"keyword", "id"}
    <2> HIDE DEF k
    <2>1. Lexeme(c, k) \in Seq(Char \cup {" ", EOF})  BY <1>2, LexemeFacts
    <2>2. Word(c) = [kind |-> IF Lexeme(c, k) \in Keyword THEN "keyword" ELSE "id",
                     text |-> Lexeme(c, k)]
      BY DEF Word, k
    <2>3. PICK kind \in {"keyword", "id"} : Word(c) = [kind |-> kind, text |-> Lexeme(c, k)]
      BY <2>2
    <2>4. kind \in Kind  BY DEF Kind
    <2>5. Word(c).text = Lexeme(c, k) /\ Word(c).kind = kind  BY <2>3
    <2>6. Word(c) \in Token
      <3>1. [kind |-> kind, text |-> Lexeme(c, k)] \in Token  BY <2>1, <2>4 DEF Token
      <3>2. QED  BY <2>3, <3>1
    <2>7. QED  BY <2>5, <2>6
  <1>4. c.last # Quote  BY <1>1
  <1> HIDE DEF k
  <1>5. Scanned(c, Word(c), k)  BY <1>2, <1>3, <1>4 DEF Scanned
  <1>6. QED  BY <1>2, <1>5

LEMMA NumberFacts ==
    ASSUME TextOK, NEW c \in Cursors, c.last \in Digit
    PROVE  \E k \in Nat : Scanned(c, Number(c), k)
  <1> DEFINE S == Digit \cup {"."}
             n == Until(c, OneOf(S))
  <1>1. EOF \notin S /\ Quote \notin S /\ c.last # Quote
    BY DEF Digit, EOF, Quote
  <1>2. n \in Nat /\ Plain(c, n)
    <2> HIDE DEF S
    <2>1. QED  BY <1>1, RunIsPlain
  <1>3. \/ Number(c) = Tok("fnumber", c, n) \/ Number(c) = Tok("inumber", c, n)
        \/ (Number(c) = Tok("inumber", c, n + 1) /\ After(c, n) = "U")
    BY DEF Number
  <1> HIDE DEF n
  <1>4. ASSUME NEW k \in Nat, Plain(c, k), NEW kind \in {"fnumber", "inumber"},
               Number(c) = Tok(kind, c, k)
        PROVE  Scanned(c, Number(c), k)
    <2>1. kind \in Kind /\ kind # "stuck"  BY DEF Kind
    <2>2. QED  BY <1>1, <1>4, <2>1, TokFacts DEF Scanned
  <1>5. CASE Number(c) = Tok("fnumber", c, n) \/ Number(c) = Tok("inumber", c, n)
    BY <1>2, <1>4, <1>5
  <1>6. CASE Number(c) = Tok("inumber", c, n + 1) /\ After(c, n) = "U"
    <2>1. At(Position(c) + n) = "U"  BY <1>2, <1>6, CursorFacts
    <2>2. \A m \in Nat : m < n + 1 => m < n \/ m = n  BY <1>2
    <2>3. Plain(c, n + 1)  BY <1>2, <2>1, <2>2 DEF Plain, Quote
    <2>4. n + 1 \in Nat  BY <1>2
    <2>5. QED  BY <1>4, <1>6, <2>3, <2>4
  <1>7. QED  BY <1>3, <1>5, <1>6

LEMMA LiteralFacts ==
    ASSUME TextOK, NEW c \in Cursors, c.last = Quote
    PROVE  \E k \in Nat : Scanned(c, Literal(c), k)
  <1> DEFINE ends == {n \in Ahead \ {0} : After(c, n) = Quote}
             P == Position(c)
  <1>1. /\ Len(text) \in Nat /\ MaxLen \in Nat /\ Len(text) <= MaxLen
        /\ P \in Nat /\ \A n \in Nat : After(c, n) = At(P + n)
    BY TextFacts, CursorFacts
  <1>2. CASE ends = {}
    <2>0. "stuck" \in Kind  BY DEF Kind
    <2>1. Literal(c) = [kind |-> "stuck", text |-> <<>>]  BY <1>2 DEF Literal, Quote
    <2>2. ASSUME NEW p \in 1 .. Len(text), P < p, text[p] = Quote PROVE FALSE
      <3>1. PICK m \in Nat : m = p - P
        <4> HIDE DEF P, ends
        <4>0. P \in Nat /\ p \in Nat /\ P < p  BY <1>1, <2>2
        <4>1. p - P \in Nat  BY <4>0
        <4>2. QED  BY <4>1
      <3>2. m \in Ahead \ {0} /\ P + m = p
        <4> HIDE DEF P, ends
        <4>1. p \in Nat /\ P + m = p /\ m # 0 /\ m <= MaxLen + 1  BY <1>1, <2>2, <3>1
        <4>2. QED  BY <1>1, <4>1 DEF Ahead
      <3>3. After(c, m) = Quote
        <4>1. At(p) = Quote  BY <2>2, AtFacts
        <4>2. QED  BY <1>1, <3>1, <3>2, <4>1
      <3>4. QED  BY <1>2, <3>2, <3>3
    <2>3. Literal(c) \in Token /\ Literal(c).text = Lexeme(c, 0) /\ Literal(c).kind = "stuck"
      BY <2>1, <2>0, EmptyToken
    <2>4. Scanned(c, Literal(c), 0)  BY <2>2, <2>3 DEF Scanned
    <2>5. QED  BY <2>4
  <1>3. CASE ends # {}
    <2> DEFINE n == Smallest(ends)
    <2>1. ends \subseteq Nat /\ Ahead \subseteq Nat  BY <1>1 DEF Ahead
    <2>2. n \in ends /\ \A m \in ends : n <= m
      <3> HIDE DEF ends
      <3>1. QED  BY <1>3, <2>1, SmallestIs
    <2>3. n \in Nat /\ n # 0 /\ n \in Ahead /\ At(P + n) = Quote
      BY <1>1, <2>1, <2>2
    <2>4. Literal(c) = Tok("literal", c, n + 1)  BY <1>3 DEF Literal, Quote
    <2>5. ASSUME NEW m \in Nat, 0 < m, m < n PROVE At(P + m) # Quote
      <3>1. m \in Ahead \ {0}
        <4> HIDE DEF n
        <4>1. QED  BY <1>1, <2>3, <2>5 DEF Ahead
      <3>2. ~(n <= m)
        <4> HIDE DEF n
        <4>1. QED  BY <2>3, <2>5
      <3>3. m \notin ends  BY <2>2, <3>2
      <3>4. QED  BY <1>1, <3>1, <3>3
    <2> HIDE DEF n, P
    <2>6. PICK k \in Nat : k = n + 1 /\ k > 1 /\ k - 1 = n  BY <2>3
    <2>7. "literal" \in Kind /\ "literal" # "stuck"  BY DEF Kind
    <2>8. /\ Literal(c) \in Token /\ Literal(c).text = Lexeme(c, k)
          /\ Literal(c).kind = "literal"
      BY <2>4, <2>6, <2>7, TokFacts
    <2>9. Scanned(c, Literal(c), k)
      BY <2>3, <2>5, <2>6, <2>7, <2>8 DEF Scanned, P
    <2>10. QED  BY <2>9
  <1>4. QED  BY <1>2, <1>3

LEMMA CharLiteralFacts ==
    ASSUME TextOK, NEW c \in Cursors, c.last = Apostrophe
    PROVE  \E k \in Nat : Scanned(c, CharLiteral(c), k)
  <1>1. ASSUME NEW k \in Nat, NEW kind \in Kind, CharLiteral(c) = Tok(kind, c, k)
        PROVE  \E j \in Nat : Scanned(c, CharLiteral(c), j)
    <2>1. Scanned(c, CharLiteral(c), k)  BY <1>1, TokFacts DEF Scanned
    <2>2. QED  BY <2>1
  <1>2. CASE CharLiteral(c) = [kind |-> "error", text |-> <<>>]
    <2>1. "error" \in Kind /\ 0 \in Nat  BY DEF Kind
    <2>2. Scanned(c, CharLiteral(c), 0)  BY <1>2, <2>1, EmptyToken DEF Scanned
    <2>3. QED  BY <2>2
  <1>3. \/ CharLiteral(c) = Tok("charlit", c, 2) \/ CharLiteral(c) = Tok("charlit", c, 3)
        \/ CharLiteral(c) = [kind |-> "error", text |-> <<>>]
    BY DEF CharLiteral, Apostrophe
  <1>4. "charlit" \in Kind /\ 2 \in Nat /\ 3 \in Nat  BY DEF Kind
  <1>5. QED  BY <1>1, <1>2, <1>3, <1>4

\* No operator has a quotation mark.
LEMMA OperatorsArePlain ==
    ASSUME NEW op \in Operator, NEW i \in 1 .. Len(op)
    PROVE  op[i] # Quote
  <1> DEFINE O == {"=", "!", "<", ">", "|", "&"}
  <1>1. \A a \in O : <<a>> \in Seq(O)  OBVIOUS
  <1>2. \A a \in O : \A b \in O : <<a, b>> \in Seq(O)  OBVIOUS
  <1>3. \A a \in O : \A b \in O : \A d \in O : <<a, b, d>> \in Seq(O)  OBVIOUS
  <1>4. Operator \subseteq Seq(O)
    <2>1. /\ "=" \in O /\ "!" \in O /\ "<" \in O /\ ">" \in O /\ "|" \in O /\ "&" \in O
      OBVIOUS
    <2> HIDE DEF O
    <2>2. {<<"=">>, <<"!">>, <<">">>, <<"<">>, <<"|">>, <<"&">>} \subseteq Seq(O)
      BY <1>1, <2>1
    <2>3. {<<"=", "=">>, <<"!", "=">>, <<">", "=">>, <<">", ">">>, <<"<", "=">>, <<"<", "<">>,
           <<"|", "|">>, <<"&", "&">>} \subseteq Seq(O)
      BY <1>2, <2>1
    <2>4. {<<">", ">", ">">>, <<"<", "<", "<">>} \subseteq Seq(O)
      BY <1>3, <2>1
    <2>5. QED  BY <2>2, <2>3, <2>4 DEF Operator
  <1>5. Quote \notin O  BY DEF Quote
  <1>6. op[i] \in O
    <2> HIDE DEF O
    <2>1. QED  BY <1>4
  <1>7. QED  BY <1>5, <1>6

LEMMA PunctuationFacts ==
    ASSUME TextOK, NEW c \in Cursors, c.last # Quote
    PROVE  \E k \in Nat : Scanned(c, Punctuation(c), k)
  <1> DEFINE fits == {n \in 1 .. 3 : Lexeme(c, n) \in Operator}
             k == IF fits = {} THEN 1 ELSE Cardinality(fits)
             P == Position(c)
  <1>1. fits \subseteq 1 .. 3 /\ IsFiniteSet(fits) /\ Cardinality(fits) \in Nat
    <2>1. fits \in SUBSET (1 .. 3)  OBVIOUS
    <2>2. IsFiniteSet(1 .. 3)
      <3>1. 1 \in Int /\ 3 \in Int  OBVIOUS
      <3>2. QED  BY <3>1, FS_Interval
    <2> HIDE DEF fits
    <2>3. QED  BY <2>1, <2>2, FS_Subset, FS_CardinalityType
  <1>2. Punctuation(c) = Tok("op", c, k)  BY DEF Punctuation
  <1>3. k \in Nat  BY <1>1
  <1>4. Plain(c, k)
    <2>1. CASE fits = {}
      <3>1. k = 1  BY <2>1
      <3> HIDE DEF k
      <3>2. \A m \in Nat : m < k => m = 0  BY <3>1
      <3>3. At(P + 0) # Quote
        <4>1. c.last = At(P) /\ P \in Nat  BY CursorFacts
        <4> HIDE DEF P
        <4>2. P + 0 = P  BY <4>1
        <4>3. QED  BY <4>1, <4>2
      <3>4. QED  BY <3>2, <3>3 DEF Plain
    <2>2. CASE fits # {}
      <3>1. k = Cardinality(fits)  BY <2>2
      <3> HIDE DEF k
      <3>2. \E n \in fits : k <= n
        <4>1. SUFFICES ASSUME \A n \in fits : n < k PROVE FALSE
          BY <1>1, <1>3
        <4>2. PICK d \in Nat : k = d + 1
          <5>1. PICK n \in fits : n < k /\ n \in Nat /\ n > 0  BY <1>1, <2>2, <4>1
          <5>2. k - 1 \in Nat /\ k = (k - 1) + 1  BY <1>3, <5>1
          <5>3. QED  BY <5>2
        <4>3. fits \subseteq 1 .. d  BY <1>1, <4>1, <4>2
        <4>4. 1 \in Int /\ d \in Int /\ IsFiniteSet(1 .. d)
              /\ Cardinality(1 .. d) = IF 1 > d THEN 0 ELSE d - 1 + 1
          BY FS_Interval
        <4>5. Cardinality(1 .. d) = d  BY <4>4
        <4> HIDE DEF fits
        <4>6. Cardinality(fits) <= d  BY <4>3, <4>4, <4>5, FS_Subset
        <4>7. QED  BY <3>1, <4>2, <4>6
      <3>3. PICK n \in fits : k <= n  BY <3>2
      <3>4. n \in Nat /\ Lexeme(c, n) \in Operator  BY <1>1
      <3>5. ASSUME NEW m \in Nat, m < k PROVE At(P + m) # Quote
        <4>1. m + 1 \in 1 .. n /\ (m + 1) - 1 = m  BY <1>3, <3>3, <3>4, <3>5
        <4>2. /\ Len(Lexeme(c, n)) = n
              /\ \A i \in 1 .. n : Lexeme(c, n)[i] = At(P + (i - 1))
          BY <3>4, LexemeFacts
        <4>3. Lexeme(c, n)[m + 1] # Quote  BY <3>4, <4>1, <4>2, OperatorsArePlain
        <4>4. Lexeme(c, n)[m + 1] = At(P + ((m + 1) - 1))  BY <4>1, <4>2
        <4> HIDE DEF P
        <4>5. QED  BY <4>1, <4>3, <4>4
      <3>6. QED  BY <3>5 DEF Plain
    <2>3. QED  BY <2>1, <2>2
  <1> HIDE DEF k
  <1>5. "op" \in Kind /\ "op" # "stuck"  BY DEF Kind
  <1>6. Scanned(c, Punctuation(c), k)  BY <1>2, <1>3, <1>4, <1>5, TokFacts DEF Scanned
  <1>7. QED  BY <1>3, <1>6

\* Every token is what is scanned.
LEMMA ScanFacts ==
    ASSUME TextOK, NEW c \in Cursors
    PROVE  \E k \in Nat : Scanned(c, Scan(c), k)
  <1>1. CASE c.last = Quote  BY <1>1, LiteralFacts DEF Scan, Quote
  <1>2. CASE c.last = Apostrophe
    <2>1. c.last # Quote  BY <1>2 DEF Quote, Apostrophe
    <2>2. Scan(c) = CharLiteral(c)  BY <1>2, <2>1 DEF Scan, Quote, Apostrophe
    <2>3. QED  BY <1>2, <2>2, CharLiteralFacts
  <1>3. CASE c.last # Quote /\ c.last # Apostrophe
    <2>1. CASE c.last \in Alpha
      <3>1. Scan(c) = Word(c)  BY <1>3, <2>1 DEF Scan, Quote, Apostrophe
      <3>2. QED  BY <2>1, <3>1, WordFacts
    <2>2. CASE c.last \notin Alpha /\ c.last \in Digit
      <3>1. Scan(c) = Number(c)  BY <1>3, <2>2 DEF Scan, Quote, Apostrophe
      <3>2. QED  BY <2>2, <3>1, NumberFacts
    <2>3. CASE c.last \notin Alpha /\ c.last \notin Digit /\ c.last = EOF
      <3>1. Scan(c) = [kind |-> "eof", text |-> <<>>]
        BY <1>3, <2>3 DEF Scan, Quote, Apostrophe
      <3>2. "eof" \in Kind /\ "eof" # "stuck" /\ 0 \in Nat /\ Plain(c, 0)
        BY DEF Kind, Plain
      <3>3. Scanned(c, Scan(c), 0)  BY <1>3, <3>1, <3>2, EmptyToken DEF Scanned
      <3>4. QED  BY <3>3
    <2>4. CASE c.last \notin Alpha /\ c.last \notin Digit /\ c.last # EOF
      <3>1. Scan(c) = Punctuation(c)
        BY <1>3, <2>4 DEF Scan, Quote, Apostrophe
      <3>2. QED  BY <1>3, <3>1, PunctuationFacts
    <2>5. QED  BY <2>1, <2>2, <2>3, <2>4
  <1>4. QED  BY <1>1, <1>2, <1>3

-----------------------------------------------------------------------------
(* Calls of getToken.                                                      *)

\* What one call returns, and the cursor behind it.
Read(c) ==
    [token  |-> Scan(SkipBlanks(c)),
     cursor |-> Advance(SkipBlanks(c), Len(Scan(SkipBlanks(c)).text))]
Reading(K) == [token : Token, cursor : K]

LEMMA ReadFacts ==
    ASSUME TextOK, NEW c \in Cursors
    PROVE  /\ Read(c).token = Scan(SkipBlanks(c))
           /\ Read(c) \in Reading(Cursors)
           /\ \E k \in Nat : /\ Scanned(SkipBlanks(c), Read(c).token, k)
                             /\ Read(c).cursor = Advance(SkipBlanks(c), k)
                             /\ Position(Read(c).cursor) = Reach(Position(SkipBlanks(c)) + k)
  <1> DEFINE start == SkipBlanks(c)
  <1>1. start \in Cursors  BY SkipBlanksFacts
  <1>2. Read(c) = [token |-> Scan(start), cursor |-> Advance(start, Len(Scan(start).text))]
    BY DEF Read
  <1> HIDE DEF start
  <1>3. PICK k \in Nat : Scanned(start, Scan(start), k)  BY <1>1, ScanFacts
  <1>4. Len(Scan(start).text) = k /\ Scan(start) \in Token
    BY <1>1, <1>3, LexemeFacts DEF Scanned
  <1>5. Advance(start, k) \in Cursors /\ Position(Advance(start, k)) = Reach(Position(start) + k)
    BY <1>1, AdvanceFacts
  <1>6. Read(c).token = Scan(start) /\ Read(c).cursor = Advance(start, k)
    BY <1>2, <1>4
  <1>7. Read(c) \in Reading(Cursors)
    BY <1>2, <1>4, <1>5 DEF Reading
  <1>8. QED  BY <1>3, <1>5, <1>6, <1>7 DEF start

\* Sequences of readings, each from where the one before it ended.
Chain(c, r, n) ==
    /\ n > 0 => r[1] = Read(c)
    /\ \A i \in 1 .. n - 1 : r[i + 1] = Read(r[i].cursor)

\* Some cursors that are not left by reading.
Closed(K) == K \subseteq Cursors /\ \A c \in K : Read(c).cursor \in K

\* The recursive function in Reads exists.
LEMMA ReadExists ==
    ASSUME TextOK, NEW K, Closed(K), NEW c \in K, NEW n \in Nat
    PROVE  \E f \in [1 .. n -> Reading(K)] :
                /\ f = [i \in 1 .. n |-> Read(IF i = 1 THEN c ELSE f[i - 1].cursor)]
                /\ Chain(c, f, n)
  <1> DEFINE V == Reading(K)
             start == [token |-> Scan(SkipBlanks(c)), cursor |-> c]
             step == [x \in V \X (1 .. n) |-> Read(x[1].cursor)]
  <1>1. ASSUME NEW k \in K PROVE Read(k) \in V
    <2>1. k \in Cursors /\ Read(k).cursor \in K  BY DEF Closed
    <2>2. Read(k) \in Reading(Cursors)  BY <2>1, ReadFacts
    <2>3. QED  BY <2>1, <2>2 DEF Reading
  <1>2. start \in V
    <2>1. Read(c) \in V /\ c \in Cursors  BY <1>1 DEF Closed
    <2>2. Scan(SkipBlanks(c)) \in Token  BY <2>1, ReadFacts DEF Reading
    <2>3. QED  BY <2>2 DEF Reading
  <1>3. step \in Steps(V, n)
    <2>1. \A x \in V \X (1 .. n) : Read(x[1].cursor) \in V
      <3>1. \A v \in V : v.cursor \in K  BY DEF Reading
      <3> HIDE DEF V
      <3>2. QED  BY <1>1, <3>1
    <2> HIDE DEF V
    <2>2. QED  BY <2>1 DEF Steps
  <1>4. PICK g : Computes(g, V, start, n, step)
    <2> HIDE DEF V, start, step
    <2>1. QED  BY <1>2, <1>3, RecursiveFunction
  <1>5. g \in [0 .. n -> V] /\ g[0] = start /\ \A i \in 1 .. n : g[i] = step[<<g[i - 1], i>>]
    BY <1>4 DEF Computes
  <1>6. ASSUME NEW i \in 1 .. n
        PROVE  g[i] \in V /\ g[i] = Read(g[i - 1].cursor)
    <2>1. i \in 0 .. n /\ i - 1 \in 0 .. n  OBVIOUS
    <2> HIDE DEF V
    <2>2. g[i] \in V /\ <<g[i - 1], i>> \in V \X (1 .. n)  BY <1>5, <2>1
    <2>3. QED  BY <1>5, <2>2
  <1>7. g[0].cursor = c  BY <1>5
  <1> DEFINE f == [i \in 1 .. n |-> g[i]]
  <1> HIDE DEF V
  <1>8. f \in [1 .. n -> V] /\ \A i \in 1 .. n : f[i] = g[i]  BY <1>6
  <1> HIDE DEF f
  <1>9. ASSUME NEW i \in 1 .. n
        PROVE  f[i] = Read(IF i = 1 THEN c ELSE f[i - 1].cursor)
    <2>1. CASE i = 1
      <3>1. g[i] = Read(c)  BY <1>6, <1>7, <2>1
      <3>2. QED  BY <1>8, <2>1, <3>1
    <2>2. CASE i # 1
      <3>1. i - 1 \in 1 .. n  BY <2>2
      <3>2. QED  BY <1>6, <1>8, <2>2, <3>1
    <2>3. QED  BY <2>1, <2>2
  <1>10. f = [i \in 1 .. n |-> Read(IF i = 1 THEN c ELSE f[i - 1].cursor)]
    BY <1>8, <1>9
  <1>11. Chain(c, f, n)
    <2>1. n > 0 => f[1] = Read(c)
      <3>1. n > 0 => 1 \in 1 .. n  OBVIOUS
      <3>2. QED  BY <1>9, <3>1
    <2>2. ASSUME NEW i \in 1 .. n - 1 PROVE f[i + 1] = Read(f[i].cursor)
      <3>1. i + 1 \in 1 .. n /\ i + 1 # 1 /\ (i + 1) - 1 = i  OBVIOUS
      <3>2. QED  BY <1>9, <3>1
    <2>3. QED  BY <2>1, <2>2 DEF Chain
  <1>12. QED  BY <1>8, <1>10, <1>11 DEF V

\* Two chains from one cursor agree.
LEMMA ChainUnique ==
    ASSUME NEW c, NEW r, NEW s, NEW m \in Nat, NEW n \in Nat, m <= n,
           Chain(c, r, m), Chain(c, s, n)
    PROVE  \A i \in 1 .. m : r[i] = s[i]
  <1> DEFINE S == {i \in Nat : i + 1 <= m => r[i + 1] = s[i + 1]}
  <1>1. 0 \in S
    <2>1. 1 <= m => m > 0 /\ n > 0  OBVIOUS
    <2>2. QED  BY <2>1 DEF Chain
  <1>2. ASSUME NEW i \in Nat, i \in S PROVE i + 1 \in S
    <2> SUFFICES ASSUME (i + 1) + 1 <= m PROVE r[(i + 1) + 1] = s[(i + 1) + 1]
      OBVIOUS
    <2>1. i + 1 \in 1 .. m - 1 /\ i + 1 \in 1 .. n - 1 /\ i + 1 <= m  OBVIOUS
    <2>2. r[i + 1] = s[i + 1]  BY <1>2, <2>1
    <2>3. r[(i + 1) + 1] = Read(r[i + 1].cursor) /\ s[(i + 1) + 1] = Read(s[i + 1].cursor)
      BY <2>1 DEF Chain
    <2>4. QED  BY <2>2, <2>3
  <1>3. Nat \subseteq S
    <2> HIDE DEF S
    <2>1. QED  BY <1>1, <1>2, InductionOnSet
  <1>4. ASSUME NEW i \in 1 .. m PROVE r[i] = s[i]
    <2>1. PICK j \in Nat : i = j + 1
      <3>1. i - 1 \in Nat /\ i = (i - 1) + 1  OBVIOUS
      <3>2. QED  BY <3>1
    <2>2. j + 1 <= m  BY <2>1
    <2>3. QED  BY <1>3, <2>1, <2>2
  <1>5. QED  BY <1>4

\* What n calls read.
LEMMA ReadsFacts ==
    ASSUME TextOK, NEW K, Closed(K), NEW c \in K, NEW n \in Nat, n > 0
    PROVE  \E m \in 1 .. n :
              /\ Reads(c, n) \in [1 .. m -> Reading(K)] /\ Chain(c, Reads(c, n), m)
              /\ Len(Reads(c, n)) = m
  <1> DEFINE Fits(f) == f = [i \in 1 .. n |-> Read(IF i = 1 THEN c ELSE f[i - 1].cursor)]
             read == CHOOSE f : Fits(f)
             ends == {i \in 1 .. n : read[i].token.kind \in {"eof", "error", "stuck"}}
             m == IF ends = {} THEN n ELSE Smallest(ends)
  <1>1. PICK f \in [1 .. n -> Reading(K)] : Fits(f) /\ Chain(c, f, n)
    BY ReadExists
  <1>2. read = f
    <2>1. Fits(read)  BY <1>1
    <2>2. Chain(c, read, n)
      <3> HIDE DEF read
      <3>1. \A i \in 1 .. n : read[i] = Read(IF i = 1 THEN c ELSE read[i - 1].cursor)
        BY <2>1
      <3>2. n > 0 => 1 \in 1 .. n  OBVIOUS
      <3>3. \A i \in 1 .. n - 1 : i + 1 \in 1 .. n /\ i + 1 # 1 /\ (i + 1) - 1 = i
        OBVIOUS
      <3>4. QED  BY <3>1, <3>2, <3>3 DEF Chain
    <2>3. DOMAIN read = 1 .. n /\ DOMAIN f = 1 .. n  BY <1>1, <2>1
    <2>4. read = [i \in 1 .. n |-> read[i]] /\ f = [i \in 1 .. n |-> f[i]]
      BY <1>1, <2>1, <2>3
    <2> HIDE DEF read
    <2>5. \A i \in 1 .. n : read[i] = f[i]  BY <1>1, <2>2, ChainUnique
    <2>6. QED  BY <2>4, <2>5
  <1>3. Reads(c, n) = [i \in 1 .. m |-> read[i]]
    BY DEF Reads, Read
  <1>4. m \in 1 .. n
    <2>1. ends \subseteq 1 .. n /\ ends \subseteq Nat  OBVIOUS
    <2> HIDE DEF ends
    <2>2. ends # {} => Smallest(ends) \in ends  BY <2>1, SmallestIs
    <2>3. n \in 1 .. n  OBVIOUS
    <2>4. QED  BY <2>1, <2>2, <2>3
  <1> HIDE DEF m, read, ends
  <1>5. \A i \in 1 .. m : i \in 1 .. n  BY <1>4
  <1>6. Reads(c, n) \in [1 .. m -> Reading(K)] /\ \A i \in 1 .. m : Reads(c, n)[i] = f[i]
    BY <1>1, <1>2, <1>3, <1>5
  <1>7. Len(Reads(c, n)) = m
    <2>1. Reads(c, n) \in Seq(Reading(K)) /\ DOMAIN Reads(c, n) = 1 .. m  BY <1>4, <1>6
    <2>2. QED  BY <1>4, <2>1
  <1>8. Chain(c, Reads(c, n), m)
    <2>1. 1 \in 1 .. m /\ n > 0 /\ m > 0  BY <1>4
    <2>2. \A i \in 1 .. m - 1 : i \in 1 .. m /\ i + 1 \in 1 .. m /\ i \in 1 .. n - 1
      BY <1>4
    <2>3. QED  BY <1>1, <1>6, <2>1, <2>2 DEF Chain
  <1>9. QED  BY <1>4, <1>6, <1>7, <1>8

-----------------------------------------------------------------------------
(* Lines and columns.                                                      *)

\* The line ends up to a position of the file.
LineEnds(n) == {i \in 1 .. n : text[i] = "\n"}
LastEnd(n, e) == e \in {0} \cup LineEnds(n) /\ \A j \in {0} \cup LineEnds(n) : j <= e
Right(c) ==
    /\ c.row = Cardinality(LineEnds(c.loc))
    /\ c.last # EOF => \E e \in 0 .. c.loc : LastEnd(c.loc, e) /\ c.col = c.loc - e

\* As many numbers, moved by p.
LEMMA Moved ==
    ASSUME NEW p \in Nat, NEW S, IsFiniteSet(S), S \subseteq Nat
    PROVE  /\ IsFiniteSet({p + i : i \in S})
           /\ Cardinality({p + i : i \in S}) = Cardinality(S)
  <1> DEFINE T == {p + i : i \in S}
             f == [i \in S |-> p + i]
  <1>1. f \in [S -> T]  OBVIOUS
  <1>2. \A i, j \in S : f[i] = f[j] => i = j
    <2>1. \A i \in S : i \in Nat /\ f[i] = p + i  OBVIOUS
    <2> HIDE DEF f
    <2>2. QED  BY <2>1
  <1>3. \A t \in T : \E i \in S : f[i] = t  OBVIOUS
  <1> HIDE DEF f, T
  <1>4. f \in Bijection(S, T)
    BY <1>1, <1>2, <1>3 DEF Bijection, Injection, Surjection, IsInjective
  <1>5. ExistsBijection(S, T)  BY <1>4 DEF ExistsBijection
  <1>6. QED  BY <1>5, FS_Bijection DEF T

LEMMA LineEndsFacts ==
    ASSUME TextOK, NEW n \in 0 .. Len(text)
    PROVE  /\ LineEnds(n) \subseteq 1 .. n /\ IsFiniteSet(LineEnds(n))
           /\ Cardinality(LineEnds(n)) \in Nat
  <1>1. n \in Nat  BY TextFacts
  <1>2. LineEnds(n) \in SUBSET (1 .. n)  BY DEF LineEnds
  <1>3. 1 \in Int /\ n \in Int  BY <1>1
  <1>4. IsFiniteSet(1 .. n)  BY <1>3, FS_Interval
  <1>5. IsFiniteSet(LineEnds(n))  BY <1>2, <1>4, FS_Subset
  <1>6. QED  BY <1>2, <1>5, FS_CardinalityType

\* getChar counts the line ends and the characters behind the last one.
LEMMA AdvanceRight ==
    ASSUME TextOK, NEW c \in Cursors, Right(c), NEW n \in Nat
    PROVE  Right(Advance(c, n))
  <1> DEFINE d == Advance(c, n)
             P == Position(c)
             N == Newlines(c, n)
             new == {P + i : i \in N}
  <1>1. /\ Len(text) \in Nat /\ P \in Nat /\ P <= Len(text) + 1
        /\ c.row \in Nat /\ c.col \in Nat /\ c.loc \in 0 .. Len(text)
        /\ c.loc = IF P <= Len(text) THEN P ELSE Len(text)
        /\ P <= Len(text) => c.last # EOF
    <2>1. /\ P \in Positions /\ P \in Nat /\ c.row \in Nat /\ c.col \in Nat
          /\ c.loc = IF P <= Len(text) THEN P ELSE Len(text)
          /\ c.last = EOF => P = Len(text) + 1
      BY CursorFacts
    <2>2. Len(text) \in Nat  BY TextFacts
    <2> HIDE DEF P
    <2>3. P <= Len(text) + 1 /\ c.loc \in 0 .. Len(text)  BY <2>1, <2>2 DEF Positions
    <2>4. P = Len(text) + 1 => ~(P <= Len(text))  BY <2>2
    <2>5. P <= Len(text) => c.last # EOF  BY <2>1, <2>4
    <2>6. QED  BY <2>1, <2>2, <2>3, <2>5
  <1>2. d \in Cursors /\ Position(d) = Reach(P + n)  BY AdvanceFacts
  <1>3. d.row = c.row + Cardinality(N)  BY DEF Advance
  <1>4. /\ N \subseteq 1 .. n /\ IsFiniteSet(N) /\ Cardinality(N) \in Nat
        /\ \A i \in 1 .. n : i \in N <=> At(P + i) = "\n"
    BY NewlineFacts
  <1>5. N = {} => d.col = c.col + n  BY DEF Advance
  <1>6. N # {} => d.col = Smallest({n - i : i \in N})  BY DEF Advance
  <1>7. /\ d.last = EOF => Position(d) = Len(text) + 1
        /\ d.last # EOF => Position(d) = d.loc /\ d.loc \in 0 .. Len(text)
        /\ d.loc = IF Position(d) <= Len(text) THEN Position(d) ELSE Len(text)
        /\ d.last = At(Position(d))
    BY <1>2, CursorFacts
  <1> HIDE DEF d, P, N
  <1>8. CASE P = Len(text) + 1
    <2>1. \A i \in 1 .. n : i \notin N
      <3>1. \A i \in 1 .. n : P + i \in Nat /\ P + i > Len(text)  BY <1>1, <1>8
      <3>2. EOF # "\n"  BY DEF EOF
      <3>3. QED  BY <1>4, <3>1, <3>2, AtFacts
    <2>2. N = {}  BY <1>4, <2>1
    <2>3. Cardinality(N) = 0  BY <2>2, FS_EmptySet
    <2>4. Position(d) = Len(text) + 1  BY <1>1, <1>2, <1>8 DEF Reach
    <2>5. d.loc = c.loc /\ d.row = c.row  BY <1>1, <1>3, <1>7, <1>8, <2>3, <2>4
    <2>6. d.last = EOF
      <3>1. Len(text) + 1 \in Nat /\ Len(text) + 1 > Len(text)  BY <1>1
      <3>2. QED  BY <1>7, <2>4, <3>1, AtFacts
    <2>7. QED  BY <2>5, <2>6 DEF Right, d
  <1>9. CASE P <= Len(text)
    <2>1. c.loc = P /\ c.last # EOF  BY <1>1, <1>9
    <2>2. d.loc \in 0 .. Len(text) /\ P <= d.loc /\ d.loc <= P + n
      BY <1>1, <1>2, <1>7, <1>9 DEF Reach
    <2>3. new = {i \in P + 1 .. d.loc : text[i] = "\n"}
      <3>1. ASSUME NEW i \in N PROVE P + i \in P + 1 .. d.loc /\ text[P + i] = "\n"
        <4>1. i \in 1 .. n /\ At(P + i) = "\n"  BY <1>4
        <4>2. "\n" # EOF  BY DEF EOF
        <4>3. P + i \in Nat /\ ~(P + i > Len(text))
          <5>1. P + i \in Nat  BY <1>1, <4>1
          <5>2. QED  BY <4>1, <4>2, <5>1, AtFacts
        <4>4. P + i \in 1 .. Len(text)  BY <1>1, <4>1, <4>3
        <4>5. P + i <= d.loc  BY <1>1, <1>2, <1>7, <4>1, <4>4 DEF Reach
        <4>6. P + i \in P + 1 .. d.loc  BY <1>1, <2>2, <4>1, <4>5
        <4>7. QED  BY <4>1, <4>4, <4>6, AtFacts
      <3>2. ASSUME NEW j \in P + 1 .. d.loc, text[j] = "\n" PROVE \E i \in N : j = P + i
        <4>1. PICK i \in Nat : j = P + i
          <5>1. j - P \in Nat /\ j = P + (j - P)  BY <1>1, <2>2
          <5>2. QED  BY <5>1
        <4>2. i \in 1 .. n /\ j \in 1 .. Len(text)  BY <1>1, <2>2, <4>1
        <4>3. At(j) = "\n"  BY <3>2, <4>2, AtFacts
        <4>4. QED  BY <1>4, <4>1, <4>2, <4>3
      <3>3. QED  BY <3>1, <3>2
    <2>4. IsFiniteSet(new) /\ Cardinality(new) = Cardinality(N)
      <3>1. N \subseteq Nat  BY <1>4
      <3>2. QED  BY <1>1, <1>4, <3>1, Moved
    <2>5. LineEnds(d.loc) = LineEnds(P) \cup new /\ LineEnds(P) \cap new = {}
      <3>1. \A i : i \in 1 .. d.loc <=> i \in 1 .. P \/ i \in P + 1 .. d.loc  BY <1>1, <2>2
      <3>2. \A i : ~(i \in 1 .. P /\ i \in P + 1 .. d.loc)  BY <1>1, <2>2
      <3> HIDE DEF new
      <3>3. QED  BY <2>3, <3>1, <3>2 DEF LineEnds
    <2>6. /\ LineEnds(P) \subseteq 1 .. P /\ IsFiniteSet(LineEnds(P))
          /\ Cardinality(LineEnds(P)) \in Nat
      BY <1>1, <2>1, LineEndsFacts
    <2> HIDE DEF new
    <2>7. Cardinality(LineEnds(d.loc)) = Cardinality(LineEnds(P)) + Cardinality(N)
      <3>1. Cardinality(LineEnds(P) \cap new) = 0  BY <2>5, FS_EmptySet
      <3>2. Cardinality(LineEnds(P) \cup new)
                = Cardinality(LineEnds(P)) + Cardinality(new) - Cardinality(LineEnds(P) \cap new)
        BY <2>4, <2>6, FS_Union
      <3>3. QED  BY <1>4, <2>4, <2>5, <2>6, <3>1, <3>2
    <2>8. d.row = Cardinality(LineEnds(d.loc))
      BY <1>3, <2>1, <2>7 DEF Right
    <2>9. ASSUME d.last # EOF PROVE \E e \in 0 .. d.loc : LastEnd(d.loc, e) /\ d.col = d.loc - e
      <3>1. d.loc = P + n  BY <1>1, <1>2, <1>7, <2>2, <2>9 DEF Reach
      <3>2. PICK e \in 0 .. P : LastEnd(P, e) /\ c.col = P - e  BY <2>1 DEF Right
      <3>3. CASE N = {}
        <4>1. new = {}  BY <3>3 DEF new
        <4>2. LineEnds(d.loc) = LineEnds(P)  BY <2>5, <4>1
        <4>3. LastEnd(d.loc, e)  BY <3>2, <4>2 DEF LastEnd
        <4>4. d.col = d.loc - e /\ e \in 0 .. d.loc  BY <1>1, <1>5, <3>1, <3>2, <3>3
        <4>5. QED  BY <4>3, <4>4
      <3>4. CASE N # {}
        <4>1. PICK m \in N : /\ Smallest({n - i : i \in N}) = n - m
                             /\ n - m \in Nat /\ \A i \in N : i <= m
          BY <1>4, <3>4, ColumnFacts
        <4>2. m \in 1 .. n  BY <1>4
        <4>3. P + m \in new /\ \A j \in new : \E i \in N : j = P + i  BY DEF new
        <4>4. \A j \in new : j <= P + m
          <5>1. ASSUME NEW j \in new PROVE j <= P + m
            <6>1. PICK i \in N : j = P + i  BY <4>3
            <6>2. i \in 1 .. n /\ i <= m  BY <1>4, <4>1
            <6>3. QED  BY <1>1, <4>2, <6>1, <6>2
          <5>2. QED  BY <5>1
        <4>5. \A j \in {0} \cup LineEnds(P) : j <= P + m
          <5>1. \A j \in {0} \cup LineEnds(P) : j \in 0 .. P  BY <1>1, <2>6
          <5>2. QED  BY <1>1, <4>2, <5>1
        <4>6. LastEnd(d.loc, P + m)  BY <2>5, <4>3, <4>4, <4>5 DEF LastEnd
        <4>7. d.col = d.loc - (P + m) /\ P + m \in 0 .. d.loc
          BY <1>1, <1>6, <3>1, <3>4, <4>1, <4>2
        <4>8. QED  BY <4>6, <4>7
      <3>5. QED  BY <3>3, <3>4
    <2>10. QED  BY <2>8, <2>9 DEF Right, d
  <1>10. QED  BY <1>1, <1>8, <1>9

\* So do the calls of getToken.
LEMMA SkipSpaceRight ==
    ASSUME TextOK, NEW c \in Cursors, Right(c)
    PROVE  Right(SkipSpace(c))
  <1>1. EOF \in OneOf(Space)  BY DEF OneOf, Space, EOF
  <1>2. Until(c, OneOf(Space)) \in Nat  BY <1>1, UntilFacts
  <1>3. QED  BY <1>2, AdvanceRight DEF SkipSpace

LEMMA ReadRight ==
    ASSUME TextOK, NEW c \in Cursors, Right(c)
    PROVE  Right(Read(c).cursor)
  <1> DEFINE start == SkipSpace(c)
             line == Advance(start, Until(start, {"\n", EOF}))
             more == Advance(line, 1)
  <1>1. start \in Cursors /\ Right(start)  BY SkipSpaceFacts, SkipSpaceRight
  <1>2. line \in Cursors /\ Right(line)
    <2> HIDE DEF start
    <2>1. EOF \in {"\n", EOF}  OBVIOUS
    <2>2. Until(start, {"\n", EOF}) \in Nat  BY <1>1, <2>1, UntilFacts
    <2>3. QED  BY <1>1, <2>2, AdvanceFacts, AdvanceRight
  <1>3. more \in Cursors /\ Right(more)
    <2> HIDE DEF line
    <2>1. QED  BY <1>2, AdvanceFacts, AdvanceRight
  <1>4. SkipBlanks(c) \in Cursors /\ Right(SkipBlanks(c))
    <2>1. SkipBlanks(c) = IF start.last = "#" THEN SkipSpace(more) ELSE start
      BY DEF SkipBlanks
    <2> HIDE DEF start, more
    <2>2. Right(SkipSpace(more))  BY <1>3, SkipSpaceRight
    <2>3. QED  BY <1>1, <2>1, <2>2, SkipBlanksFacts
  <1>5. PICK k \in Nat : Read(c).cursor = Advance(SkipBlanks(c), k)  BY ReadFacts
  <1>6. QED  BY <1>4, <1>5, AdvanceRight

-----------------------------------------------------------------------------
(* What is skipped.                                                        *)

\* The property, of the characters skipped and of the token behind them.
InComment(g, i) == \E j \in 1 .. i : g[j] = "#" /\ \A k \in j .. i - 1 : g[k] # "\n"
BlanksOK(g, t) ==
    /\ \A i \in DOMAIN g : g[i] \in Space \/ InComment(g, i)
    /\ t = <<"#">> => \E i \in DOMAIN g : g[i] = "#"

LEMMA GapFacts ==
    ASSUME TextOK, NEW c \in Cursors
    PROVE  BlanksOK(Lexeme(c, Position(SkipBlanks(c)) - Position(c)), Read(c).token.text)
  <1> DEFINE start == SkipBlanks(c)
             P == Position(c)
             Q == Position(start)
             len == Q - P
             g == Lexeme(c, len)
  <1>1. /\ start \in Cursors /\ P <= Q
        /\ \/ start.last # "#" /\ \A p \in Nat : P <= p /\ p < Q => At(p) \in Space
           \/ \E from, to \in Nat :
                 /\ P <= from /\ At(from) = "#" /\ from < Q
                 /\ \A p \in Nat : P <= p /\ p < Q => At(p) \in Space \/ Comment(p, from, to)
    BY SkipBlanksFacts
  <1>2. P \in Nat /\ Q \in Nat /\ start.last = At(Q)  BY <1>1, CursorFacts
  <1> HIDE DEF start, P, Q
  <1>3. len \in Nat /\ P + len = Q  BY <1>1, <1>2
  <1> HIDE DEF len
  <1>4. Len(g) = len /\ DOMAIN g = 1 .. len /\ \A i \in 1 .. len : g[i] = At(P + (i - 1))
    <2>1. /\ g \in Seq(Char \cup {" ", EOF}) /\ Len(g) = len
          /\ \A i \in 1 .. len : g[i] = At(P + (i - 1))
      BY <1>3, LexemeFacts DEF P
    <2>2. DOMAIN g = 1 .. len  BY DEF Lexeme
    <2>3. QED  BY <2>1, <2>2
  <1> HIDE DEF g
  <1>5. \A p \in Nat : P <= p /\ p < Q => (\E i \in 1 .. len : p = P + (i - 1))
    <2>1. ASSUME NEW p \in Nat, P <= p, p < Q PROVE \E i \in 1 .. len : p = P + (i - 1)
      <3>1. (p - P) + 1 \in 1 .. len /\ p = P + (((p - P) + 1) - 1)  BY <1>2, <1>3, <2>1
      <3>2. QED  BY <3>1
    <2>2. QED  BY <2>1
  <1>6. \A i \in 1 .. len : P + (i - 1) \in Nat /\ P <= P + (i - 1) /\ P + (i - 1) < Q
    BY <1>2, <1>3
  <1>7. CASE start.last # "#" /\ \A p \in Nat : P <= p /\ p < Q => At(p) \in Space
    <2>1. \A i \in DOMAIN g : g[i] \in Space  BY <1>4, <1>6, <1>7
    <2>2. Read(c).token.text # <<"#">>
      <3>1. PICK k \in Nat : Scanned(start, Read(c).token, k)
        BY ReadFacts DEF start
      <3>2. Read(c).token.text = Lexeme(start, k)  BY <3>1 DEF Scanned
      <3>3. SUFFICES ASSUME Lexeme(start, k) = <<"#">> PROVE FALSE
        BY <3>2
      <3>4. Len(Lexeme(start, k)) = k /\ \A i \in 1 .. k : Lexeme(start, k)[i] = At(Q + (i - 1))
        BY <1>1, LexemeFacts DEF Q
      <3>5. k = 1 /\ Lexeme(start, k)[1] = "#"
        <4>1. Len(<<"#">>) = 1 /\ <<"#">>[1] = "#"  OBVIOUS
        <4>2. QED  BY <3>3, <3>4, <4>1
      <3>6. 1 \in 1 .. k /\ Q + (1 - 1) = Q  BY <1>2, <3>5
      <3>7. At(Q) = "#"  BY <3>4, <3>5, <3>6
      <3>8. QED  BY <1>2, <1>7, <3>7
    <2>3. QED  BY <2>1, <2>2 DEF BlanksOK, g, len, P, Q, start
  <1>8. ASSUME NEW from \in Nat, NEW to \in Nat, P <= from, At(from) = "#", from < Q,
               \A p \in Nat : P <= p /\ p < Q => At(p) \in Space \/ Comment(p, from, to)
        PROVE  BlanksOK(g, Read(c).token.text)
    <2>1. PICK j \in 1 .. len : from = P + (j - 1)  BY <1>5, <1>8
    <2>2. g[j] = "#"  BY <1>4, <1>8, <2>1
    <2>3. ASSUME NEW i \in 1 .. len PROVE g[i] \in Space \/ InComment(g, i)
      <3>1. CASE At(P + (i - 1)) \in Space  BY <1>4, <3>1
      <3>2. CASE Comment(P + (i - 1), from, to)
        <4>1. /\ from <= P + (i - 1) /\ P + (i - 1) <= to
              /\ \A q \in Nat : from <= q /\ q < to => At(q) # "\n"
          BY <3>2 DEF Comment
        <4>2. j \in 1 .. i  BY <1>2, <2>1, <4>1
        <4>3. ASSUME NEW k \in j .. i - 1 PROVE g[k] # "\n"
          <5>1. k \in 1 .. len /\ P + (k - 1) \in Nat /\ from <= P + (k - 1) /\ P + (k - 1) < to
            BY <1>2, <1>3, <2>1, <4>1
          <5>2. QED  BY <1>4, <4>1, <5>1
        <4>4. QED  BY <2>2, <4>2, <4>3 DEF InComment
      <3>3. At(P + (i - 1)) \in Space \/ Comment(P + (i - 1), from, to)
        BY <1>6, <1>8
      <3>4. QED  BY <3>1, <3>2, <3>3
    <2>4. QED  BY <1>4, <2>1, <2>2, <2>3 DEF BlanksOK
  <1>9. QED  BY <1>1, <1>7, <1>8 DEF g, len, P, Q, start

-----------------------------------------------------------------------------
(* Quotation marks.                                                        *)

\* A source in which only quotation marks hide characters.
Clean == \A i \in DOMAIN text : text[i] \notin {"#", Apostrophe}
Before(p) == {i \in 1 .. Len(text) : i < p /\ text[i] = Quote}
Even(n) == \E h \in Nat : n = 2 * h
EvenAt(c) == Even(Cardinality(Before(Position(c))))

LEMMA BeforeFacts ==
    ASSUME TextOK, NEW p \in Nat
    PROVE  /\ IsFiniteSet(Before(p)) /\ Cardinality(Before(p)) \in Nat
           /\ Before(Reach(p)) = Before(p)
           /\ At(p) = Quote => /\ p \in 1 .. Len(text) /\ p \notin Before(p)
                               /\ Before(p + 1) = Before(p) \cup {p}
                               /\ Cardinality(Before(p + 1)) = Cardinality(Before(p)) + 1
  <1>1. Len(text) \in Nat  BY TextFacts
  <1>2. IsFiniteSet(Before(p)) /\ Cardinality(Before(p)) \in Nat
    <2>1. Before(p) \in SUBSET (1 .. Len(text))  BY DEF Before
    <2>2. 1 \in Int /\ Len(text) \in Int  BY <1>1
    <2>3. IsFiniteSet(1 .. Len(text))  BY <2>2, FS_Interval
    <2>4. IsFiniteSet(Before(p))  BY <2>1, <2>3, FS_Subset
    <2>5. QED  BY <2>4, FS_CardinalityType
  <1>3. Before(Reach(p)) = Before(p)
    <2>1. \A i \in 1 .. Len(text) : i < Reach(p) <=> i < p  BY <1>1 DEF Reach
    <2>2. QED  BY <2>1 DEF Before
  <1>4. ASSUME At(p) = Quote
        PROVE  /\ p \in 1 .. Len(text) /\ p \notin Before(p)
               /\ Before(p + 1) = Before(p) \cup {p}
               /\ Cardinality(Before(p + 1)) = Cardinality(Before(p)) + 1
    <2>1. Quote # " " /\ Quote # EOF  BY DEF Quote, EOF
    <2>2. p # 0 /\ ~(p > Len(text))  BY <1>4, <2>1, AtFacts
    <2>3. p \in 1 .. Len(text)  BY <1>1, <2>2
    <2>4. text[p] = Quote  BY <1>4, <2>3, AtFacts
    <2>5. p \notin Before(p)  BY DEF Before
    <2>6. \A i \in 1 .. Len(text) : i < p + 1 <=> i < p \/ i = p  BY <1>1
    <2>7. Before(p + 1) = Before(p) \cup {p}  BY <2>3, <2>4, <2>6 DEF Before
    <2>8. QED  BY <1>2, <2>3, <2>5, <2>7, FS_AddElement
  <1>5. QED  BY <1>2, <1>3, <1>4

\* No quotation mark on the way.
LEMMA NoneBetween ==
    ASSUME TextOK, NEW p \in Nat, NEW q \in Nat, p <= q,
           \A i \in Nat : p <= i /\ i < q => At(i) # Quote
    PROVE  Before(q) = Before(p)
  <1>1. Len(text) \in Nat  BY TextFacts
  <1>2. ASSUME NEW i \in 1 .. Len(text), text[i] = Quote, i < q PROVE i < p
    <2>1. i \in Nat  BY <1>1
    <2>2. At(i) = Quote  BY <1>2, AtFacts
    <2>3. ~(p <= i)  BY <1>2, <2>1, <2>2
    <2>4. QED  BY <2>1, <2>3
  <1>3. \A i \in 1 .. Len(text) : i < p => i < q  BY <1>1
  <1>4. QED  BY <1>2, <1>3 DEF Before

\* Reading a token passes an even number of quotation marks; a string that is not closed
\* leaves one behind.
LEMMA ReadEven ==
    ASSUME TextOK, Clean, NEW c \in Cursors, EvenAt(c)
    PROVE  /\ EvenAt(Read(c).cursor)
           /\ Read(c).token.kind = "stuck" =>
                \E h \in Nat : Cardinality({i \in DOMAIN text : text[i] = Quote}) = 2 * h + 1
  <1> DEFINE start == SkipBlanks(c)
             P == Position(c)
             Q == Position(start)
             token == Read(c).token
             fin == Read(c).cursor
  <1>1. /\ start \in Cursors /\ P <= Q
        /\ \/ \A p \in Nat : P <= p /\ p < Q => At(p) \in Space
           \/ \E from \in Nat : At(from) = "#"
    BY SkipBlanksFacts
  <1>2. PICK k \in Nat : Scanned(start, token, k) /\ Position(fin) = Reach(Q + k)
    BY ReadFacts
  <1>3. P \in Nat /\ Q \in Nat /\ start.last = At(Q)
    BY <1>1, CursorFacts
  <1> HIDE DEF start, P, Q, token, fin
  <1>4. Len(text) \in Nat  BY TextFacts
  <1>5. \A p \in Nat : At(p) \notin {"#", Apostrophe}
    <2>1. ASSUME NEW p \in Nat PROVE At(p) \notin {"#", Apostrophe}
      <3>1. CASE p = 0  BY <3>1, AtFacts DEF Apostrophe
      <3>2. CASE p \in 1 .. Len(text)
        <4>1. DOMAIN text = 1 .. Len(text)  BY DEF TextOK
        <4>2. QED  BY <3>2, <4>1, AtFacts DEF Clean
      <3>3. CASE p > Len(text)  BY <3>3, AtFacts DEF EOF, Apostrophe
      <3>4. QED  BY <1>4, <3>1, <3>2, <3>3
    <2>2. QED  BY <2>1
  <1>6. Before(Q) = Before(P)
    <2>1. \A p \in Nat : P <= p /\ p < Q => At(p) \in Space  BY <1>1, <1>5
    <2>2. Quote \notin Space  BY DEF Quote, Space
    <2>3. QED  BY <1>1, <1>3, <2>1, <2>2, NoneBetween
  <1>7. PICK h \in Nat : Cardinality(Before(Q)) = 2 * h
    BY <1>6 DEF EvenAt, Even, P
  <1>8. SUFFICES /\ Even(Cardinality(Before(Q + k)))
                 /\ token.kind = "stuck" =>
                      Cardinality({i \in DOMAIN text : text[i] = Quote}) = 2 * h + 1
    <2>1. Before(Position(fin)) = Before(Q + k)
      <3>1. Q + k \in Nat  BY <1>3
      <3>2. QED  BY <1>2, <3>1, BeforeFacts
    <2>2. QED  BY <2>1 DEF EvenAt, fin, token
  <1>9. start.last # Apostrophe  BY <1>3, <1>5
  <1>10. CASE start.last # Quote /\ token.kind # "stuck" /\ Plain(start, k)
    <2>1. \A i \in Nat : Q <= i /\ i < Q + k => At(i) # Quote
      <3>1. ASSUME NEW i \in Nat, Q <= i, i < Q + k PROVE At(i) # Quote
        <4>1. i - Q \in Nat /\ i - Q < k /\ Q + (i - Q) = i  BY <1>3, <3>1
        <4>2. At(Q + (i - Q)) # Quote  BY <1>10, <4>1 DEF Plain, Q
        <4>3. QED  BY <4>1, <4>2
      <3>2. QED  BY <3>1
    <2>2. Q + k \in Nat /\ Q <= Q + k  BY <1>3
    <2>3. Before(Q + k) = Before(Q)  BY <1>3, <2>1, <2>2, NoneBetween
    <2>4. QED  BY <1>7, <1>10, <2>3 DEF Even
  <1>11. CASE /\ start.last = Quote /\ token.kind = "stuck" /\ k = 0
              /\ \A p \in 1 .. Len(text) : Q < p => text[p] # Quote
    <2>1. Q + k = Q  BY <1>3, <1>11
    <2>2. /\ Before(Q + 1) = Before(Q) \cup {Q}
          /\ Cardinality(Before(Q + 1)) = Cardinality(Before(Q)) + 1
      BY <1>3, <1>11, BeforeFacts
    <2>3. {i \in DOMAIN text : text[i] = Quote} = Before(Q + 1)
      <3>1. DOMAIN text = 1 .. Len(text)  BY DEF TextOK
      <3>2. \A i \in 1 .. Len(text) : text[i] = Quote => i < Q + 1
        BY <1>3, <1>4, <1>11
      <3>3. QED  BY <3>1, <3>2 DEF Before
    <2>4. QED  BY <1>7, <2>1, <2>2, <2>3 DEF Even
  <1>12. CASE /\ start.last = Quote /\ token.kind # "stuck" /\ k > 1
              /\ At(Q + (k - 1)) = Quote
              /\ \A m \in Nat : 0 < m /\ m < k - 1 => At(Q + m) # Quote
    <2>1. PICK e \in Nat : e = Q + (k - 1) /\ Q + 1 <= e /\ e + 1 = Q + k /\ Q + 1 \in Nat
      <3>1. Q + (k - 1) \in Nat /\ Q + 1 <= Q + (k - 1) /\ (Q + (k - 1)) + 1 = Q + k
            /\ Q + 1 \in Nat
        BY <1>3, <1>12
      <3>2. QED  BY <3>1
    <2>2. Cardinality(Before(Q + 1)) = 2 * h + 1
      BY <1>3, <1>7, <1>12, BeforeFacts
    <2>3. Before(e) = Before(Q + 1)
      <3>1. ASSUME NEW i \in Nat, Q + 1 <= i, i < e PROVE At(i) # Quote
        <4>1. i - Q \in Nat /\ 0 < i - Q /\ i - Q < k - 1 /\ Q + (i - Q) = i
          BY <1>3, <2>1, <3>1
        <4>2. At(Q + (i - Q)) # Quote  BY <1>12, <4>1
        <4>3. QED  BY <4>1, <4>2
      <3>2. QED  BY <2>1, <3>1, NoneBetween
    <2>4. Cardinality(Before(e + 1)) = Cardinality(Before(e)) + 1
      BY <1>12, <2>1, BeforeFacts
    <2>5. Cardinality(Before(Q + k)) = 2 * (h + 1) /\ h + 1 \in Nat
      BY <2>1, <2>2, <2>3, <2>4
    <2>6. QED  BY <1>12, <2>5 DEF Even
  <1>13. QED  BY <1>2, <1>9, <1>10, <1>11, <1>12 DEF Scanned, Q

-----------------------------------------------------------------------------
(* The file does not change, so neither does what reading it gives.          *)

LEMMA SameReading ==
    ASSUME text' = text
    PROVE  /\ TextOK' <=> TextOK
           /\ Clean' <=> Clean
           /\ \A c, n : After(c, n)' = After(c, n)
           /\ \A c : Position(c)' = Position(c)
           /\ \A p : At(p)' = At(p)
           /\ \A p : Before(p)' = Before(p)
           /\ \A n : LineEnds(n)' = LineEnds(n)
  <1>1. (TextOK' <=> TextOK) /\ (Clean' <=> Clean)  BY DEF TextOK, Clean
  <1>2. \A c, n : After(c, n)' = After(c, n)  BY DEF After
  <1>3. \A c : Position(c)' = Position(c)  BY DEF Position
  <1>4. \A p : At(p)' = At(p)  BY DEF At
  <1>5. (\A p : Before(p)' = Before(p)) /\ (\A n : LineEnds(n)' = LineEnds(n))
    BY DEF Before, LineEnds
  <1>6. QED  BY <1>1, <1>2, <1>3, <1>4, <1>5

LEMMA SameAdvance ==
    ASSUME text' = text
    PROVE  /\ \A c, n : Advance(c, n)' = Advance(c, n)
           /\ \A c, S : Until(c, S)' = Until(c, S)
           /\ \A c, n : Lexeme(c, n)' = Lexeme(c, n)
  <1>1. \A c, n : After(c, n)' = After(c, n)  BY SameReading
  <1>2. \A c, n : Newlines(c, n)' = Newlines(c, n)  BY <1>1 DEF Newlines
  <1>3. \A c, n : Advance(c, n)' = Advance(c, n)  BY <1>1, <1>2 DEF Advance
  <1>4. \A c, S : Until(c, S)' = Until(c, S)
    <2>1. ASSUME NEW c, NEW S PROVE Until(c, S)' = Until(c, S)
      <3>1. {n \in Ahead : After(c, n) \in S}' = {n \in Ahead : After(c, n) \in S}
        BY <1>1
      <3>2. QED  BY <3>1 DEF Until
    <2>2. QED  BY <2>1
  <1>5. \A c, n : Lexeme(c, n)' = Lexeme(c, n)  BY <1>1 DEF Lexeme
  <1>6. QED  BY <1>3, <1>4, <1>5

LEMMA SameSkip ==
    ASSUME text' = text, NEW c
    PROVE  SkipBlanks(c)' = SkipBlanks(c)
  <1>1. \A d : SkipSpace(d)' = SkipSpace(d)  BY SameAdvance DEF SkipSpace
  <1>2. QED  BY <1>1, SameAdvance DEF SkipBlanks

LEMMA SameScan ==
    ASSUME text' = text, NEW c
    PROVE  Scan(c)' = Scan(c)
  <1>1. \A n : After(c, n)' = After(c, n)  BY SameReading
  <1>2. \A kind, n : Tok(kind, c, n)' = Tok(kind, c, n)  BY SameAdvance DEF Tok
  <1>3. Word(c)' = Word(c)  BY SameAdvance DEF Word
  <1>4. Number(c)' = Number(c)  BY <1>1, <1>2, SameAdvance DEF Number
  <1>5. Literal(c)' = Literal(c)  BY <1>1, <1>2 DEF Literal
  <1>6. CharLiteral(c)' = CharLiteral(c)  BY <1>1, <1>2 DEF CharLiteral
  <1>7. Punctuation(c)' = Punctuation(c)  BY <1>2, SameAdvance DEF Punctuation
  <1>8. QED  BY <1>3, <1>4, <1>5, <1>6, <1>7 DEF Scan

LEMMA SameRead ==
    ASSUME text' = text, NEW c
    PROVE  Read(c)' = Read(c)
  BY SameSkip, SameScan, SameAdvance DEF Read

-----------------------------------------------------------------------------
(* The inductive invariant.                                                *)

\* What has been said of the next tokens is what reading from the cursor gives.
Honest(c, f) ==
    /\ f \in Seq(Token)
    /\ \E r \in [1 .. Len(f) -> Reading(Cursors)] :
          Chain(c, r, Len(f)) /\ \A i \in 1 .. Len(f) : f[i] = r[i].token
ReadingOK(c, f) == c \in Cursors /\ Right(c) /\ Honest(c, f) /\ (Clean => EvenAt(c))

IInv ==
    /\ TextOK
    /\ \E c \in Cursors, f \in Seq(Token) : c = cursor /\ f = foreseen /\ ReadingOK(c, f)
    /\ NameIsCurrent /\ OnlyBlanksAreSkipped /\ OnlyOpenStringsHang

LEMMA SameReadingOK ==
    ASSUME text' = text, NEW c, NEW f
    PROVE  ReadingOK(c, f)' <=> ReadingOK(c, f)
  <1>1. Cursors' = Cursors  BY SameReading DEF Cursors
  <1>2. Right(c)' <=> Right(c)
    <2>1. \A n, e : LastEnd(n, e)' <=> LastEnd(n, e)  BY SameReading DEF LastEnd
    <2>2. QED  BY <2>1, SameReading DEF Right
  <1>3. \A r, n : Chain(c, r, n)' <=> Chain(c, r, n)
    BY SameRead DEF Chain
  <1>4. Reading(Cursors)' = Reading(Cursors)  BY <1>1 DEF Reading
  <1>5. Honest(c, f)' <=> Honest(c, f)  BY <1>3, <1>4 DEF Honest
  <1>6. EvenAt(c)' <=> EvenAt(c)  BY SameReading DEF EvenAt, Even
  <1>7. QED  BY <1>1, <1>2, <1>5, <1>6, SameReading DEF ReadingOK

\* The cursors of a source, all of them and those behind an even number of quotation marks.
LEMMA ClosedSets ==
    ASSUME TextOK
    PROVE  /\ Closed(Cursors)
           /\ Clean => Closed({c \in Cursors : EvenAt(c)})
  <1>1. \A c \in Cursors : Read(c).cursor \in Cursors
    BY ReadFacts DEF Reading
  <1>2. Clean => \A c \in Cursors : EvenAt(c) => EvenAt(Read(c).cursor)
    BY ReadEven
  <1>3. QED  BY <1>1, <1>2 DEF Closed

\* Nothing foreseen is honest.
LEMMA NothingForeseen ==
    ASSUME NEW c
    PROVE  Honest(c, <<>>)
  <1>1. <<>> \in Seq(Token) /\ Len(<<>>) = 0  OBVIOUS
  <1> DEFINE none == [i \in 1 .. 0 |-> Read(c)]
  <1>2. none \in [1 .. 0 -> Reading(Cursors)]  OBVIOUS
  <1>3. Chain(c, none, 0)  BY DEF Chain
  <1>4. \A i \in 1 .. 0 : <<>>[i] = none[i].token  OBVIOUS
  <1> DEFINE empty == <<>>
  <1>5. empty \in Seq(Token) /\ Len(empty) = 0 /\ \A i \in 1 .. 0 : empty[i] = none[i].token
    BY <1>1, <1>4
  <1> HIDE DEF none, empty
  <1>6. Honest(c, empty)  BY <1>2, <1>3, <1>5 DEF Honest
  <1>7. QED  BY <1>6 DEF empty

\* What is read next is what was foreseen.
LEMMA NextRead ==
    ASSUME TextOK, NEW c \in Cursors, NEW f, Honest(c, f), f # <<>>
    PROVE  Head(f) = Read(c).token /\ Honest(Read(c).cursor, Tail(f))
  <1>1. PICK r \in [1 .. Len(f) -> Reading(Cursors)] :
            Chain(c, r, Len(f)) /\ \A i \in 1 .. Len(f) : f[i] = r[i].token
    BY DEF Honest
  <1>2. f \in Seq(Token) /\ Len(f) \in Nat /\ Len(f) > 0 /\ Head(f) = f[1]
        /\ Tail(f) \in Seq(Token) /\ Len(Tail(f)) = Len(f) - 1
        /\ \A i \in 1 .. Len(f) - 1 : Tail(f)[i] = f[i + 1]
    BY DEF Honest
  <1>3. PICK n \in Nat : Len(f) = n + 1 /\ Len(Tail(f)) = n
    <2>1. Len(f) - 1 \in Nat /\ Len(f) = (Len(f) - 1) + 1  BY <1>2
    <2>2. QED  BY <1>2, <2>1
  <1>4. r[1] = Read(c)  BY <1>1, <1>2 DEF Chain
  <1>5. Head(f) = Read(c).token
    <2>1. 1 \in 1 .. Len(f)  BY <1>2
    <2>2. QED  BY <1>1, <1>2, <1>4, <2>1
  <1> DEFINE s == [i \in 1 .. n |-> r[i + 1]]
  <1>6. \A i \in 1 .. n : i + 1 \in 1 .. Len(f)  BY <1>3
  <1>7. s \in [1 .. n -> Reading(Cursors)] /\ \A i \in 1 .. n : s[i] = r[i + 1]
    BY <1>1, <1>6
  <1> HIDE DEF s
  <1>8. Chain(Read(c).cursor, s, n)
    <2>1. n > 0 => s[1] = Read(Read(c).cursor)
      <3>1. n > 0 => 1 \in 1 .. n /\ 1 \in 1 .. Len(f) - 1  BY <1>3
      <3>2. QED  BY <1>1, <1>4, <1>7, <3>1 DEF Chain
    <2>2. ASSUME NEW i \in 1 .. n - 1 PROVE s[i + 1] = Read(s[i].cursor)
      <3>1. i \in 1 .. n /\ i + 1 \in 1 .. n /\ i + 1 \in 1 .. Len(f) - 1  BY <1>3
      <3>2. QED  BY <1>1, <1>7, <3>1 DEF Chain
    <2>3. QED  BY <2>1, <2>2 DEF Chain
  <1>9. ASSUME NEW i \in 1 .. n PROVE Tail(f)[i] = s[i].token
    <2>1. i \in 1 .. Len(f) - 1  BY <1>3
    <2>2. QED  BY <1>1, <1>2, <1>6, <1>7, <2>1
  <1>10. QED  BY <1>2, <1>3, <1>5, <1>7, <1>8, <1>9 DEF Honest

\* Looking ahead repeats what was foreseen, and adds to it.
Foresee(reads, f) ==
    [i \in DOMAIN reads |-> reads[i].token] \o SubSeq(f, Len(reads) + 1, Len(f))

LEMMA LookFurther ==
    ASSUME TextOK, NEW c \in Cursors, NEW f, Honest(c, f), NEW n \in Nat, n > 0
    PROVE  LET reads == Reads(c, n)
           IN  /\ Honest(c, Foresee(reads, f))
               /\ Len(reads) \in 1 .. n /\ reads \in [1 .. Len(reads) -> Reading(Cursors)]
               /\ \A i \in 1 .. Len(reads) :
                      i \in DOMAIN Foresee(reads, f) /\ Foresee(reads, f)[i] = reads[i].token
               /\ \A i \in DOMAIN f :
                      i \in DOMAIN Foresee(reads, f) /\ Foresee(reads, f)[i] = f[i]
  <1> DEFINE reads == Reads(c, n)
             said == [i \in DOMAIN reads |-> reads[i].token]
             m == Len(reads)
             g == Foresee(reads, f)
             rest == SubSeq(f, m + 1, Len(f))
  <1>1. m \in 1 .. n /\ reads \in [1 .. m -> Reading(Cursors)] /\ Chain(c, reads, m)
    BY ReadsFacts, ClosedSets
  <1>2. PICK r \in [1 .. Len(f) -> Reading(Cursors)] :
            Chain(c, r, Len(f)) /\ \A i \in 1 .. Len(f) : f[i] = r[i].token
    BY DEF Honest
  <1>3. f \in Seq(Token) /\ Len(f) \in Nat  BY DEF Honest
  <1> HIDE DEF m, reads
  <1>4. said \in Seq(Token) /\ Len(said) = m /\ \A i \in 1 .. m : said[i] = reads[i].token
    <2>1. \A i \in 1 .. m : reads[i].token \in Token  BY <1>1 DEF Reading
    <2>2. DOMAIN reads = 1 .. m  BY <1>1
    <2>3. said \in [1 .. m -> Token] /\ \A i \in 1 .. m : said[i] = reads[i].token
      BY <2>1, <2>2
    <2>4. m \in Nat  BY <1>1
    <2> HIDE DEF said
    <2>5. said \in Seq(Token)  BY <2>3, <2>4
    <2>6. QED  BY <2>3, <2>4, <2>5
  <1>5. g = said \o rest  BY DEF Foresee, m
  <1> HIDE DEF g, said
  <1>6. \A i \in 1 .. m : i <= Len(f) => reads[i] = r[i]
    <2>1. m \in Nat  BY <1>1
    <2>2. CASE m <= Len(f)
      <3>1. \A i \in 1 .. m : reads[i] = r[i]  BY <1>1, <1>2, <1>3, <2>1, <2>2, ChainUnique
      <3>2. QED  BY <3>1
    <2>3. CASE Len(f) <= m
      <3>1. \A i \in 1 .. Len(f) : r[i] = reads[i]
        BY <1>1, <1>2, <1>3, <2>1, <2>3, ChainUnique
      <3>2. \A i \in 1 .. m : i <= Len(f) => i \in 1 .. Len(f)  BY <1>3
      <3>3. QED  BY <3>1, <3>2
    <2>4. QED  BY <1>3, <2>1, <2>2, <2>3
  <1>7. CASE Len(f) <= m
    <2>1. rest \in Seq(Token) /\ Len(rest) = 0
      <3>1. m + 1 > Len(f) /\ m \in Nat  BY <1>1, <1>3, <1>7
      <3>2. QED  BY <1>3, <3>1
    <2> HIDE DEF rest
    <2>2. g \in Seq(Token) /\ Len(g) = m /\ \A i \in 1 .. m : g[i] = reads[i].token
      BY <1>1, <1>4, <1>5, <2>1
    <2>3. DOMAIN g = 1 .. m /\ DOMAIN f = 1 .. Len(f)  BY <1>3, <2>2
    <2>4. Honest(c, g)  BY <1>1, <2>2 DEF Honest
    <2>5. \A i \in DOMAIN f : i \in DOMAIN g /\ g[i] = f[i]
      <3>1. \A i \in 1 .. Len(f) : i \in 1 .. m  BY <1>1, <1>3, <1>7
      <3>2. QED  BY <1>2, <1>6, <2>2, <2>3, <3>1
    <2>6. QED  BY <1>1, <2>2, <2>3, <2>4, <2>5 DEF g, m, reads
  <1>8. CASE m < Len(f)
    <2>1. rest \in Seq(Token) /\ Len(rest) = Len(f) - m
          /\ \A i \in 1 .. Len(f) - m : rest[i] = f[m + i]
      <3>1. m \in Nat /\ m + 1 \in 1 .. Len(f)  BY <1>1, <1>3, <1>8
      <3>2. QED  BY <1>3, <3>1
    <2> HIDE DEF rest
    <2>2. g \in Seq(Token) /\ Len(g) = Len(f)
      BY <1>1, <1>3, <1>4, <1>5, <2>1
    <2>3. \A i \in 1 .. m : g[i] = reads[i].token
      BY <1>1, <1>4, <1>5, <2>1
    <2>4. ASSUME NEW i \in 1 .. Len(f) PROVE g[i] = f[i]
      <3>1. CASE i <= m
        <4>1. i \in 1 .. m  BY <1>3, <3>1
        <4>2. QED  BY <1>2, <1>6, <2>3, <2>4, <4>1
      <3>2. CASE m < i
        <4>1. PICK j \in Nat : i = m + j /\ j \in 1 .. Len(f) - m
          <5>1. i - m \in Nat /\ i = m + (i - m) /\ i - m \in 1 .. Len(f) - m
            BY <1>1, <1>3, <3>2
          <5>2. QED  BY <5>1
        <4>2. g[i] = rest[j]  BY <1>1, <1>4, <1>5, <2>1, <4>1
        <4>3. QED  BY <2>1, <4>1, <4>2
      <3>3. QED  BY <1>1, <3>1, <3>2
    <2>5. DOMAIN g = 1 .. Len(f) /\ DOMAIN f = 1 .. Len(f)  BY <1>3, <2>2
    <2>6. Honest(c, g)  BY <1>2, <2>2, <2>4 DEF Honest
    <2>7. \A i \in 1 .. m : i \in 1 .. Len(f)  BY <1>1, <1>3, <1>8
    <2>8. QED  BY <1>1, <2>3, <2>4, <2>5, <2>6, <2>7 DEF g, m, reads
  <1>9. QED  BY <1>1, <1>3, <1>7, <1>8

\* The attributes: of the last token of some kind, or as they were.
LEMMA LastTextFacts ==
    ASSUME NEW reads, NEW m \in Nat, DOMAIN reads = 1 .. m, NEW kinds, NEW old
    PROVE  /\ (\A i \in 1 .. m : reads[i].token.kind \notin kinds) =>
                  LastText(reads, kinds, old) = old
           /\ m = 1 /\ reads[1].token.kind \in kinds =>
                  LastText(reads, kinds, old) = reads[1].token.text
  <1> DEFINE of == {i \in DOMAIN reads : reads[i].token.kind \in kinds}
  <1>1. LastText(reads, kinds, old)
            = IF of = {} THEN old ELSE reads[CHOOSE i \in of : \A j \in of : j <= i].token.text
    BY DEF LastText
  <1>2. (\A i \in 1 .. m : reads[i].token.kind \notin kinds) => of = {}
    OBVIOUS
  <1>3. ASSUME m = 1, reads[1].token.kind \in kinds
        PROVE  of # {} /\ (CHOOSE i \in of : \A j \in of : j <= i) = 1
    <2>1. \A i : i \in 1 .. m <=> i = 1  BY <1>3
    <2>2. of = {1}  BY <1>3, <2>1
    <2>3. \A i \in of : i = 1  BY <2>2
    <2>4. \E i \in of : \A j \in of : j <= i  BY <2>2
    <2>5. (CHOOSE i \in of : \A j \in of : j <= i) \in of  BY <2>4
    <2>6. QED  BY <2>2, <2>3, <2>5
  <1>4. QED  BY <1>1, <1>2, <1>3

\* A scanner that is stuck has an open string before it.
LEMMA StuckIsOpen ==
    ASSUME TextOK, Clean, NEW c \in Cursors, EvenAt(c), NEW n \in Nat, n > 0,
           Outcome(Reads(c, n)) = "stuck"
    PROVE  \E h \in Nat : Cardinality({i \in DOMAIN text : text[i] = Quote}) = 2 * h + 1
  <1> DEFINE K == {k \in Cursors : EvenAt(k)}
             reads == Reads(c, n)
             m == Len(reads)
  <1>1. Closed(K) /\ c \in K  BY ClosedSets
  <1>2. m \in 1 .. n /\ reads \in [1 .. m -> Reading(K)] /\ Chain(c, reads, m)
    <2> HIDE DEF K
    <2>1. QED  BY <1>1, ReadsFacts
  <1>3. reads[m].token.kind = "stuck"  BY DEF Outcome
  <1> HIDE DEF reads, m
  <1>4. \E k \in K : reads[m] = Read(k)
    <2>1. CASE m = 1  BY <1>1, <1>2, <2>1 DEF Chain
    <2>2. CASE m # 1
      <3>1. PICK i \in Nat : m = i + 1 /\ i \in 1 .. m /\ i \in 1 .. m - 1
        <4>1. /\ m - 1 \in Nat /\ m = (m - 1) + 1 /\ m - 1 \in 1 .. m
              /\ m - 1 \in 1 .. m - 1
          BY <1>2, <2>2
        <4>2. QED  BY <4>1
      <3>2. reads[i].cursor \in K
        <4> HIDE DEF K
        <4>1. reads[i] \in Reading(K)  BY <1>2, <3>1
        <4>2. QED  BY <4>1 DEF Reading
      <3>3. reads[i + 1] = Read(reads[i].cursor)  BY <1>2, <3>1 DEF Chain
      <3>4. QED  BY <3>1, <3>2, <3>3
    <2>3. QED  BY <2>1, <2>2
  <1>5. PICK k \in Cursors : EvenAt(k) /\ reads[m] = Read(k)  BY <1>4
  <1>6. QED  BY <1>3, <1>5, ReadEven

LEMMA InitIInv == Init => IInv
  <1> SUFFICES ASSUME Init PROVE IInv
    OBVIOUS
  <1>1. TextOK
    <2>1. PICK n \in 0 .. MaxLen : text \in [1 .. n -> Char]  BY DEF Init
    <2>2. n \in Nat /\ n <= MaxLen  BY ConstantsAssumption
    <2>3. text \in Seq(Char) /\ Len(text) = n  BY <2>1, <2>2
    <2>4. QED  BY <2>2, <2>3 DEF TextOK
  <1>2. cursor.loc = 0 /\ cursor.last = " " /\ cursor.row = 0 /\ cursor.col = 0
        /\ cursor = [loc |-> 0, last |-> " ", row |-> 0, col |-> 0]
    BY DEF Init
  <1>3. " " # EOF  BY DEF EOF
  <1>4. Len(text) \in Nat /\ 0 \in 0 .. Len(text)  BY <1>1, TextFacts
  <1>5. Position(cursor) = 0  BY <1>2, <1>3 DEF Position
  <1>6. cursor \in Cursors
    BY <1>1, <1>2, <1>3, <1>4, <1>5, AtFacts DEF Cursors
  <1>7. Right(cursor)
    <2>1. LineEnds(0) = {}  BY DEF LineEnds
    <2>2. Cardinality(LineEnds(0)) = 0  BY <2>1, FS_EmptySet
    <2>3. LastEnd(0, 0)  BY <2>1 DEF LastEnd
    <2>4. cursor.row = Cardinality(LineEnds(cursor.loc))  BY <1>2, <2>2
    <2>5. 0 \in 0 .. 0 /\ 0 - 0 = 0  OBVIOUS
    <2>6. \E e \in 0 .. cursor.loc : LastEnd(cursor.loc, e) /\ cursor.col = cursor.loc - e
      BY <1>2, <2>3, <2>5
    <2>7. QED  BY <2>4, <2>6 DEF Right
  <1>8. foreseen = <<>> /\ foreseen \in Seq(Token)
    <2>1. foreseen = <<>>  BY DEF Init
    <2>2. <<>> \in Seq(Token)  OBVIOUS
    <2>3. QED  BY <2>1, <2>2
  <1>9. Honest(cursor, foreseen)  BY <1>8, NothingForeseen
  <1>10. EvenAt(cursor)
    <2>1. Before(0) = {}  BY <1>4 DEF Before
    <2>2. Cardinality(Before(0)) = 2 * 0  BY <2>1, FS_EmptySet
    <2>3. QED  BY <1>5, <2>2 DEF EvenAt, Even
  <1>11. ReadingOK(cursor, foreseen)  BY <1>6, <1>7, <1>9, <1>10 DEF ReadingOK
  <1>12. NameIsCurrent /\ OnlyOpenStringsHang
    BY DEF Init, NameIsCurrent, OnlyOpenStringsHang, NoToken
  <1>13. OnlyBlanksAreSkipped
    <2>1. gap = <<>> /\ taken.text = <<>>  BY DEF Init, NoToken
    <2>2. DOMAIN gap = {}  BY <2>1
    <2>3. <<>> # <<"#">>
      <3>1. Len(<<>>) = 0 /\ Len(<<"#">>) = 1  OBVIOUS
      <3>2. QED  BY <3>1
    <2>4. QED  BY <2>1, <2>2, <2>3 DEF OnlyBlanksAreSkipped
  <1>14. QED  BY <1>1, <1>6, <1>8, <1>11, <1>12, <1>13 DEF IInv

\* What a scanner that hangs shows, of the next state.
LEMMA HangKept ==
    ASSUME TextOK, text' = text, NEW c \in Cursors, Clean => EvenAt(c),
           NEW n \in Nat, n > 0, status' = Outcome(Reads(c, n))
    PROVE  OnlyOpenStringsHang'
  <1> DEFINE open == {i \in DOMAIN text : text[i] = Quote}
  <1>1. SUFFICES ASSUME status' = "stuck", Clean PROVE Cardinality(open) % 2 = 1
    BY DEF OnlyOpenStringsHang, Clean, Quote, Apostrophe
  <1>2. PICK h \in Nat : Cardinality(open) = 2 * h + 1  BY <1>1, StuckIsOpen
  <1> HIDE DEF open
  <1>3. (2 * h + 1) % 2 = 1  OBVIOUS
  <1>4. QED  BY <1>2, <1>3

LEMMA GetTokenKeeps ==
    ASSUME IInv, GetToken
    PROVE  IInv' /\ (foreseen # <<>> => taken' = Head(foreseen))
  <1>1. PICK c \in Cursors, f \in Seq(Token) : c = cursor /\ f = foreseen /\ ReadingOK(c, f)
    BY DEF IInv
  <1>2. TextOK /\ text' = text  BY DEF IInv, GetToken
  <1> DEFINE reads == Reads(c, 1)
  <1>3. /\ DOMAIN reads = 1 .. 1 /\ reads[1] = Read(c) /\ 1 \in Nat
        /\ reads[1].token = Read(c).token
    <2>1. PICK m \in 1 .. 1 : reads \in [1 .. m -> Reading(Cursors)] /\ Chain(c, reads, m)
      <3>1. 1 \in Nat /\ 1 > 0  OBVIOUS
      <3>2. QED  BY <1>2, <3>1, ReadsFacts, ClosedSets
    <2>2. m = 1  OBVIOUS
    <2>3. QED  BY <2>1, <2>2 DEF Chain
  <1>4. /\ Attributes(reads) /\ cursor' = Read(c).cursor /\ taken' = Read(c).token
        /\ gap' = Lexeme(c, Position(SkipBlanks(c)) - Position(c))
        /\ foreseen' = IF f = <<>> THEN <<>> ELSE Tail(f)
    BY <1>1, <1>3 DEF GetToken
  <1> HIDE DEF reads
  <1>5. ReadingOK(Read(c).cursor, foreseen')
    <2>1. Read(c).cursor \in Cursors  BY <1>2, ReadFacts DEF Reading
    <2>2. Right(Read(c).cursor)  BY <1>1, <1>2, ReadRight DEF ReadingOK
    <2>3. Honest(Read(c).cursor, foreseen')
      <3>1. CASE f = <<>>
        <4>1. foreseen' = <<>>  BY <1>4, <3>1
        <4>2. QED  BY <4>1, NothingForeseen
      <3>2. CASE f # <<>>
        <4>1. Honest(c, f)  BY <1>1 DEF ReadingOK
        <4>2. QED  BY <1>2, <1>4, <3>2, <4>1, NextRead
      <3>3. QED  BY <3>1, <3>2
    <2>4. Clean => EvenAt(Read(c).cursor)  BY <1>1, <1>2, ReadEven DEF ReadingOK
    <2>5. QED  BY <2>1, <2>2, <2>3, <2>4 DEF ReadingOK
  <1>6. \E d \in Cursors', g \in Seq(Token) : d = cursor' /\ g = foreseen' /\ ReadingOK(d, g)'
    <2>1. PICK d, g : d = Read(c).cursor /\ g = foreseen'  OBVIOUS
    <2>2. d \in Cursors /\ g \in Seq(Token) /\ ReadingOK(d, g)
      BY <1>5, <2>1 DEF ReadingOK, Honest
    <2>3. Cursors' = Cursors  BY <1>2, SameReading DEF Cursors
    <2>4. ReadingOK(d, g)'  BY <1>2, <2>2, SameReadingOK
    <2>5. QED  BY <1>4, <2>1, <2>2, <2>3, <2>4
  <1>7. NameIsCurrent'
    <2>1. SUFFICES ASSUME taken'.kind = "id" PROVE idStr' = taken'.text
      BY DEF NameIsCurrent
    <2>2. reads[1].token.kind \in {"id", "keyword"}  BY <1>3, <1>4, <2>1
    <2>3. LastText(reads, {"id", "keyword"}, idStr) = reads[1].token.text
      BY <1>3, <2>2, LastTextFacts
    <2>4. QED  BY <1>3, <1>4, <2>3 DEF Attributes
  <1>8. OnlyBlanksAreSkipped'
    <2>1. BlanksOK(gap', taken'.text)  BY <1>2, <1>4, GapFacts
    <2>2. QED  BY <2>1 DEF OnlyBlanksAreSkipped, BlanksOK, InComment
  <1>9. OnlyOpenStringsHang'
    <2>1. status' = Outcome(Reads(c, 1))  BY <1>4 DEF Attributes, reads
    <2>2. 1 \in Nat /\ 1 > 0  OBVIOUS
    <2>3. Clean => EvenAt(c)  BY <1>1 DEF ReadingOK
    <2>4. QED  BY <1>2, <2>1, <2>2, <2>3, HangKept
  <1>10. TextOK'  BY <1>2, SameReading
  <1>11. foreseen # <<>> => taken' = Head(foreseen)
    <2>1. Honest(c, f)  BY <1>1 DEF ReadingOK
    <2>2. QED  BY <1>1, <1>2, <1>4, <2>1, NextRead
  <1>12. QED  BY <1>6, <1>7, <1>8, <1>9, <1>10, <1>11 DEF IInv

LEMMA LookUpKeeps ==
    ASSUME IInv, NEW n \in 1 .. MaxAhead, LookUp(n)
    PROVE  IInv'
  <1>1. PICK c \in Cursors, f \in Seq(Token) : c = cursor /\ f = foreseen /\ ReadingOK(c, f)
    BY DEF IInv
  <1>2. TextOK /\ text' = text /\ n \in Nat /\ n > 0  BY DEF IInv, LookUp
  <1> DEFINE reads == Reads(c, n)
             m == Len(reads)
             g == Foresee(reads, f)
  <1>3. /\ Honest(c, g) /\ m \in 1 .. n /\ reads \in [1 .. m -> Reading(Cursors)]
        /\ \A i \in 1 .. m : i \in DOMAIN g /\ g[i] = reads[i].token
        /\ \A i \in DOMAIN f : i \in DOMAIN g /\ g[i] = f[i]
    <2>1. Honest(c, f)  BY <1>1 DEF ReadingOK
    <2>2. QED  BY <1>2, <2>1, LookFurther
  <1>4. /\ Attributes(reads) /\ foreseen' = g /\ cursor' = c
        /\ taken' = taken /\ gap' = gap
    BY <1>1 DEF LookUp, Restore, Foresee
  <1> HIDE DEF reads, m, g
  <1>5. ReadingOK(c, g)  BY <1>1, <1>3 DEF ReadingOK
  <1>6. \E d \in Cursors', h \in Seq(Token) : d = cursor' /\ h = foreseen' /\ ReadingOK(d, h)'
    <2>1. PICK h : h = g  OBVIOUS
    <2>2. h \in Seq(Token) /\ ReadingOK(c, h)  BY <1>3, <1>5, <2>1 DEF Honest
    <2>3. Cursors' = Cursors  BY <1>2, SameReading DEF Cursors
    <2>4. ReadingOK(c, h)'  BY <1>2, <2>2, SameReadingOK
    <2>5. QED  BY <1>4, <2>1, <2>2, <2>3, <2>4
  <1>7. NameIsCurrent'
    <2>1. SUFFICES ASSUME taken.kind = "id",
                          \A i \in DOMAIN g : g[i].kind \notin {"id", "keyword"}
                   PROVE  idStr' = taken.text
      BY <1>4 DEF NameIsCurrent
    <2>2. \A i \in 1 .. m : reads[i].token.kind \notin {"id", "keyword"}  BY <1>3, <2>1
    <2>3. LastText(reads, {"id", "keyword"}, idStr) = idStr
      <3>1. m \in Nat /\ DOMAIN reads = 1 .. m  BY <1>3
      <3>2. QED  BY <2>2, <3>1, LastTextFacts
    <2>4. \A i \in DOMAIN foreseen : foreseen[i].kind \notin {"id", "keyword"}
      BY <1>1, <1>3, <2>1
    <2>5. idStr = taken.text  BY <2>1, <2>4 DEF IInv, NameIsCurrent
    <2>6. QED  BY <1>4, <2>3, <2>5 DEF Attributes
  <1>8. OnlyBlanksAreSkipped'
    BY <1>4 DEF IInv, OnlyBlanksAreSkipped
  <1>9. OnlyOpenStringsHang'
    <2>1. status' = Outcome(Reads(c, n))  BY <1>4 DEF Attributes, reads
    <2>2. Clean => EvenAt(c)  BY <1>1 DEF ReadingOK
    <2>3. QED  BY <1>2, <2>1, <2>2, HangKept
  <1>10. TextOK'  BY <1>2, SameReading
  <1>11. QED  BY <1>6, <1>7, <1>8, <1>9, <1>10 DEF IInv

LEMMA StutterKeeps == IInv /\ UNCHANGED vars => IInv'
  <1> SUFFICES ASSUME IInv, UNCHANGED vars PROVE IInv'
    OBVIOUS
  <1>1. text' = text /\ cursor' = cursor /\ foreseen' = foreseen  BY DEF vars
  <1>2. PICK c \in Cursors, f \in Seq(Token) : c = cursor /\ f = foreseen /\ ReadingOK(c, f)
    BY DEF IInv
  <1>3. Cursors' = Cursors  BY <1>1, SameReading DEF Cursors
  <1>4. ReadingOK(c, f)'  BY <1>1, <1>2, SameReadingOK
  <1>5. NameIsCurrent' /\ OnlyBlanksAreSkipped' /\ OnlyOpenStringsHang'
    BY DEF IInv, vars, NameIsCurrent, OnlyBlanksAreSkipped, OnlyOpenStringsHang
  <1>6. TextOK'  BY <1>1, SameReading DEF IInv
  <1>7. QED  BY <1>1, <1>2, <1>3, <1>4, <1>5, <1>6 DEF IInv

LEMMA NextIInv == IInv /\ [Next]_vars => IInv'
  BY GetTokenKeeps, LookUpKeeps, StutterKeeps DEF Next

LEMMA Invariant == Spec => []IInv
  BY InitIInv, NextIInv, PTL DEF Spec

-----------------------------------------------------------------------------
(* The theorems.                                                           *)

\* The row and the column that errors and syntax nodes report are those of the character
\* in LastChar, whatever was looked up in between.
THEOREM LinesAreRight == Spec => []LineInfoIsRight
  <1>1. ASSUME IInv PROVE LineInfoIsRight
    <2>1. PICK c \in Cursors : c = cursor /\ Right(c)  BY <1>1 DEF IInv, ReadingOK
    <2> DEFINE ends == {0} \cup {i \in 1 .. c.loc : text[i] = "\n"}
               last == CHOOSE i \in ends : \A j \in ends : j <= i
    <2>2. TextOK /\ c.loc \in 0 .. Len(text)  BY <1>1 DEF IInv, Cursors
    <2>3. ends = LineEnds(c.loc) \cup {0}  BY DEF LineEnds
    <2>4. /\ IsFiniteSet(LineEnds(c.loc)) /\ LineEnds(c.loc) \subseteq 1 .. c.loc
          /\ Cardinality(LineEnds(c.loc)) \in Nat
      BY <2>2, LineEndsFacts
    <2>5. 0 \notin LineEnds(c.loc)
      <3>1. 0 \notin 1 .. c.loc  OBVIOUS
      <3>2. QED  BY <2>4, <3>1
    <2>6. Cardinality(ends) = Cardinality(LineEnds(c.loc)) + 1
      BY <2>3, <2>4, <2>5, FS_AddElement
    <2>7. ASSUME c.last # EOF PROVE c.col = c.loc - last
      <3>1. PICK e \in 0 .. c.loc : LastEnd(c.loc, e) /\ c.col = c.loc - e
        BY <2>1, <2>7 DEF Right
      <3>2. e \in ends /\ \A j \in ends : j <= e  BY <2>3, <3>1 DEF LastEnd
      <3>3. ends \subseteq Nat
        <4>1. c.loc \in Nat  BY <2>2, TextFacts
        <4>2. 1 .. c.loc \subseteq Nat  BY <4>1
        <4>3. QED  BY <2>3, <2>4, <4>2
      <3> HIDE DEF ends
      <3>4. last \in ends /\ \A j \in ends : j <= last  BY <3>2
      <3>5. last <= e /\ e <= last /\ last \in Nat /\ e \in Nat  BY <3>2, <3>3, <3>4
      <3> HIDE DEF last
      <3>6. last = e  BY <3>5
      <3>7. QED  BY <3>1, <3>6
    <2>8. c.row = Cardinality(ends) - 1  BY <2>1, <2>4, <2>6 DEF Right
    <2>9. QED  BY <2>1, <2>7, <2>8 DEF LineInfoIsRight
  <1>2. QED  BY <1>1, Invariant, PTL

\* Only blanks and comments are skipped, and a # is taken for code only behind a comment.
THEOREM BlanksAreSkipped == Spec => []OnlyBlanksAreSkipped
  BY Invariant, PTL DEF IInv

\* The name that parseIdRef takes is that of the identifier just read, as long as no word
\* has been looked up since.
THEOREM NameIsRight == Spec => []NameIsCurrent
  BY Invariant, PTL DEF IInv

\* Without comments and character literals, the scanner loops for ever only in a source
\* with an odd number of quotation marks.
THEOREM HangsInStringsOnly == Spec => []OnlyOpenStringsHang
  BY Invariant, PTL DEF IInv

\* Looking ahead, however far and often, does not change the tokens that are read later:
\* each token is the one that lookUp has shown.
THEOREM LookingIsHonest == Spec => LookUpIsHonest
  <1>1. IInv /\ [Next]_vars => [GetToken /\ foreseen # <<>> => taken' = Head(foreseen)]_vars
    BY GetTokenKeeps
  <1>2. QED  BY <1>1, Invariant, PTL DEF Spec, LookUpIsHonest
=============================================================================
